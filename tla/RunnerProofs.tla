---------------------------- MODULE RunnerProofs ----------------------------
(***************************************************************************)
(* Theorems about the batch loop and its input cache, for any number of    *)
(* requests, places, tokens and batches.                                   *)
(***************************************************************************)
EXTENDS Runner, FiniteSetTheorems, TLAPS

-----------------------------------------------------------------------------
(* Numbers and sequences *)

(* A set of naturals that is not empty has a least element. *)
LEMMA LeastNatural == \A T \in SUBSET Nat : T # {} => \E n \in T : \A m \in T : n <= m
<1> SUFFICES ASSUME NEW T \in SUBSET Nat, T # {}
             PROVE  \E n \in T : \A m \in T : n <= m
  OBVIOUS
<1> DEFINE U == {T \cap (0 .. m) : m \in T}
<1>1. \A m \in T : T \cap (0 .. m) \in FiniteSubsetsOf(Nat)
  <2> SUFFICES ASSUME NEW m \in T PROVE T \cap (0 .. m) \in FiniteSubsetsOf(Nat)
    OBVIOUS
  <2>1. IsFiniteSet(T \cap (0 .. m))
    <3>1. IsFiniteSet(0 .. m)
      BY FS_Interval
    <3> QED BY <3>1, FS_Subset
  <2> QED BY <2>1 DEF FiniteSubsetsOf
<1>2. U \subseteq FiniteSubsetsOf(Nat) /\ U # {}
  BY <1>1
<1>3. PICK u \in U : \A w \in U : <<w, u>> \notin StrictSubsetOrdering(Nat)
  <2> HIDE DEF U
  <2> QED BY <1>2, FS_StrictSubsetOrderingWellFounded, WFMin
<1>4. PICK n \in T : u = T \cap (0 .. n)
  BY <1>3
<1>5. ASSUME NEW m \in T, m < n PROVE FALSE
  <2>1. <<T \cap (0 .. m), u>> \in StrictSubsetOrdering(Nat)
    BY <1>4, <1>5 DEF StrictSubsetOrdering
  <2> QED BY <2>1, <1>3
<1> QED BY <1>5

(* The subsets of a finite set are ranked by their cardinality. *)
LEMMA FiniteRanks ==
    ASSUME NEW S, IsFiniteSet(S)
    PROVE  \E r \in [SUBSET S -> Nat] :
              \A s \in SUBSET S : r[s] <= r[S] /\ \A x \in s : r[s \ {x}] < r[s]
<1> DEFINE r == [s \in SUBSET S |-> Cardinality(s)]
<1>1. \A s \in SUBSET S : IsFiniteSet(s) /\ Cardinality(s) \in Nat /\ Cardinality(s) <= Cardinality(S)
  BY FS_Subset, FS_CardinalityType
<1>2. \A s \in SUBSET S : \A x \in s : s \ {x} \in SUBSET S /\ Cardinality(s \ {x}) = Cardinality(s) - 1
  BY Zenon, <1>1, FS_RemoveElement
<1>3. r \in [SUBSET S -> Nat]
  BY <1>1
<1>4. \A s \in SUBSET S : r[s] <= r[S] /\ \A x \in s : r[s \ {x}] < r[s]
  BY <1>1, <1>2
<1> QED BY <1>3, <1>4

(* Min of a set of naturals that is not empty *)
LEMMA MinIs ==
    ASSUME NEW S \in SUBSET Nat, S # {}
    PROVE  Min(S) \in S /\ \A x \in S : Min(S) <= x
<1>1. \E x \in S : \A y \in S : x =< y
  BY LeastNatural
<1> QED BY <1>1 DEF Min

(* Max of a set of numbers that are at most n *)
LEMMA MaxIs ==
    ASSUME NEW n \in Nat, NEW S \in SUBSET (0 .. n), S # {}
    PROVE  Max(S) \in S /\ \A x \in S : x <= Max(S)
<1> DEFINE T == {n - x : x \in S}
<1>1. T \in SUBSET Nat /\ T # {}
  <2>1. \A x \in S : n - x \in Nat /\ n - x \in T
    OBVIOUS
  <2> QED BY <2>1
<1>2. PICK t \in T : \A u \in T : t <= u
  BY <1>1, LeastNatural
<1>3. PICK x \in S : t = n - x
  BY <1>2
<1>4. \A y \in S : x >= y
  BY <1>2, <1>3
<1>5. \E z \in S : \A y \in S : z >= y
  BY <1>3, <1>4
<1>6. Max(S) \in S /\ \A y \in S : Max(S) >= y
  BY <1>5 DEF Max
<1> QED BY <1>6

(* A part of a sequence *)
LEMMA PartIs ==
    ASSUME NEW S, NEW s \in Seq(S), NEW m \in 1 .. Len(s) + 1, NEW n \in 0 .. Len(s), m <= n + 1
    PROVE  /\ SubSeq(s, m, n) \in Seq(S) /\ Len(SubSeq(s, m, n)) = n - m + 1
           /\ \A p \in 1 .. n - m + 1 : SubSeq(s, m, n)[p] = s[m + p - 1]
OBVIOUS

(* Two sequences, one behind the other *)
LEMMA JoinIs ==
    ASSUME NEW S, NEW s \in Seq(S), NEW t \in Seq(S)
    PROVE  /\ s \o t \in Seq(S) /\ Len(s \o t) = Len(s) + Len(t)
           /\ \A p \in 1 .. Len(s) + Len(t) : (s \o t)[p] = IF p <= Len(s) THEN s[p] ELSE t[p - Len(s)]
OBVIOUS

\* Where the element at p was before n were taken away behind the first keep.
Origin(p, keep, n) == IF p <= keep THEN p ELSE p + n

(* A sequence without discard elements behind the first keep *)
LEMMA WithoutIs ==
    ASSUME NEW S, NEW s \in Seq(S), NEW keep \in Nat, NEW discard \in Nat, keep + discard <= Len(s)
    PROVE  /\ Without(s, keep, discard) \in Seq(S) /\ Len(Without(s, keep, discard)) = Len(s) - discard
           /\ \A p \in 1 .. Len(s) - discard :
                 Without(s, keep, discard)[p] = s[Origin(p, keep, discard)]
<1> DEFINE a == SubSeq(s, 1, keep)
           b == SubSeq(s, keep + discard + 1, Len(s))
<1>1. a \in Seq(S) /\ Len(a) = keep /\ \A p \in 1 .. keep : a[p] = s[p]
  BY PartIs
<1>2. /\ b \in Seq(S) /\ Len(b) = Len(s) - (keep + discard)
      /\ \A p \in 1 .. Len(s) - (keep + discard) : b[p] = s[keep + discard + p]
  BY PartIs
<1>3. Without(s, keep, discard) = a \o b
  BY DEF Without
<1> HIDE DEF a, b
<1>4. /\ a \o b \in Seq(S) /\ Len(a \o b) = Len(a) + Len(b)
      /\ \A p \in 1 .. Len(a) + Len(b) : (a \o b)[p] = IF p <= Len(a) THEN a[p] ELSE b[p - Len(a)]
  BY <1>1, <1>2, JoinIs
<1>5. Len(s) \in Nat
  OBVIOUS
<1>6. ASSUME NEW p \in 1 .. Len(s) - discard
      PROVE  (a \o b)[p] = s[Origin(p, keep, discard)]
  <2>1. CASE p <= keep
    <3>1. p \in 1 .. keep /\ p \in 1 .. Len(a) + Len(b) /\ p <= Len(a)
      BY <1>1, <1>2, <1>5, <2>1
    <3>2. (a \o b)[p] = a[p]
      BY <1>4, <3>1
    <3>3. a[p] = s[p]
      BY <1>1, <3>1
    <3>4. Origin(p, keep, discard) = p
      BY <2>1 DEF Origin
    <3> QED BY ONLY <3>2, <3>3, <3>4
  <2>2. CASE p > keep
    <3>1. p - keep \in 1 .. Len(s) - (keep + discard)
      BY <1>5, <2>2
    <3>2. b[p - keep] = s[keep + discard + (p - keep)]
      BY <1>2, <3>1
    <3>3. keep + discard + (p - keep) = Origin(p, keep, discard)
      BY <2>2 DEF Origin
    <3>4. (a \o b)[p] = b[p - keep]
      BY <1>1, <1>2, <1>4, <1>5, <2>2
    <3> QED BY ONLY <3>2, <3>3, <3>4
  <2>3. p <= keep \/ p > keep
    BY ONLY <1>5, discard \in Nat, keep \in Nat, p \in 1 .. Len(s) - discard
  <2> QED BY ONLY <2>1, <2>2, <2>3
<1> QED BY <1>1, <1>2, <1>3, <1>4, <1>5, <1>6
-----------------------------------------------------------------------------
(* Types *)

TokVals == Toks \cup {Zero, Eos}
Pieces == Req \X Nat
Entry == [inp : InputSet, cell : CellIds]
\* What computeBatch may write into a cell, and the marks of the model.
Keys == {None, Pending} \cup {Val(k[1], (CHOOSE e \in k[2] : e.cell = k[3]).inp) :
                                k \in [Req -> Seq(TokVals)] \X (SUBSET Entry) \X CellIds}
SeqType == [inputs : Seq(InputSet), pending : Seq(InputSet), numPredicted : Nat, slot : Idx,
            held : Seq(Pieces), iBatch : Nat, numPredict : Int, numKeep : 0 .. NumCtx - 1,
            shift : BOOLEAN, prompt : Seq(Toks)]
SlotType == [Inputs : Seq(InputSet), InUse : BOOLEAN]
SrvType == [sem : Nat, seqs : [Idx -> Req \cup {None}], seq : [Req -> SeqType],
            tok : [Req -> Seq(TokVals)], ch : [Req -> Seq(Seq(Pieces))], closed : SUBSET Req,
            slots : [Idx -> SlotType], lru : Seq(Idx), kv : [Idx -> Seq(CellIds)],
            cell : [CellIds -> Keys], nextSeq : Idx]
BatchType == [st : {"built", "computing"}, ready : BOOLEAN, seqs : [Idx -> Req \cup {None}],
              ins : Seq(Entry), outs : Seq(Pieces), next : [Idx -> Pieces \cup {None}],
              rows : [Idx -> Nat]]

-----------------------------------------------------------------------------
(***************************************************************************)
(* The invariant of the state x under mu.  Every place has a sequence of   *)
(* its own, whose handler is past its admission; the slots in use are      *)
(* those of the sequences, one each; every slot is in the order of use;    *)
(* the cells of a slot are those of its inputs and the pending ones; the   *)
(* text of a sequence is complete; and the permits are the places left.    *)
(***************************************************************************)
Used(x, i) == x.seqs[i] # None
Who(x, i) == x.seq[x.seqs[i]]
Inp(x, i) == x.slots[Who(x, i).slot].Inputs

Seated(x) ==
    /\ \A i, j \in Idx : Used(x, i) /\ x.seqs[i] = x.seqs[j] => i = j
    /\ \A i \in Idx : Used(x, i) => hpc[x.seqs[i]] \in {"stream", "done"}

Slotted(x) ==
    /\ \A i \in Idx : Used(x, i) => x.slots[Who(x, i).slot].InUse
    /\ \A i, j \in Idx : Used(x, i) /\ Used(x, j) /\ Who(x, i).slot = Who(x, j).slot => i = j
    /\ \A s \in Idx : x.slots[s].InUse => \E i \in Idx : Used(x, i) /\ Who(x, i).slot = s

Listed(x) == \A s \in Idx : \E j \in DOMAIN x.lru : x.lru[j] = s

Fits(x, s) == Len(x.slots[s].Inputs) <= Len(x.kv[s]) /\ Len(x.kv[s]) <= NumCtx
Cached(x, i) == Len(x.kv[Who(x, i).slot]) = Len(Inp(x, i)) + Len(Who(x, i).pending)

\* The element p of what is cached (I), pending (P) and to come (R), and of
\* the text: a prompt T and n predicted tokens, less a gap behind keep inputs.
NowAt(I, P, R, p) ==
    IF p <= Len(I) THEN I[p]
    ELSE IF p <= Len(I) + Len(P) THEN P[p - Len(I)]
    ELSE R[p - Len(I) - Len(P)]
NowLen(I, P, R) == Len(I) + Len(P) + Len(R)
TextAt(q, T, p) == IF p <= Len(T) THEN T[p] ELSE <<q, p - Len(T)>>
Gap(I, P, R, T, n) == Len(T) + n - NowLen(I, P, R)
Same(q, I, P, R, T, n, keep) ==
    \A p \in 1 .. NowLen(I, P, R) : NowAt(I, P, R, p) = TextAt(q, T, Origin(p, keep, Gap(I, P, R, T, n)))
Bounded(I, P, R, T, n, keep) ==
    /\ Gap(I, P, R, T, n) >= 0 /\ (Gap(I, P, R, T, n) > 0 => keep < NowLen(I, P, R))
    /\ NowLen(I, P, R) <= NumCtx \/ (NowLen(I, P, R) = NumCtx + 1 /\ Len(P) + Len(R) = 1)
Complete(q, I, P, R, T, n, keep) == Same(q, I, P, R, T, n, keep) /\ Bounded(I, P, R, T, n, keep)
Whole(q, r, I) == Complete(q, I, r.pending, r.inputs, r.prompt, r.numPredicted, r.numKeep)

Free(x) == {i \in Idx : x.seqs[i] = None}
Admitted == {q \in Req : hpc[q] = "admit"}
Counted(x) == x.sem + Cardinality(Admitted) = Cardinality(Free(x))

\* A request that waits for its place has a prompt that fits and nothing else.
New(r) == r.prompt # << >> /\ Len(r.prompt) <= NumCtx /\ r.pending = << >> /\ r.numPredicted = 0
Queued(x) == \A q \in Req : hpc[q] \in {"waiting", "admit"} => New(x.seq[q])

Placed(x) == Seated(x) /\ Slotted(x) /\ Listed(x) /\ Counted(x) /\ Queued(x)
Filled(x) ==
    /\ \A s \in Idx : Fits(x, s)
    /\ \A i \in Idx : Used(x, i) => Cached(x, i) /\ Whole(x.seqs[i], Who(x, i), Inp(x, i))
    /\ \A q \in Req : Len(x.ch[q]) <= RespCap
Sound(x) == x \in SrvType /\ Placed(x) /\ Filled(x)

Ready == conf \in Confs /\ IsFiniteSet(Admitted)

(* The numbers of places, slots and cells *)
LEMMA Numbers ==
    ASSUME Ready
    PROVE  /\ Parallel \in Nat \ {0} /\ NumCtx \in Nat \ {0} /\ BatchSize \in Nat \ {0} /\ RespCap \in Nat \ {0}
           /\ BatchSize <= NumCtx /\ IsFiniteSet(Idx) /\ Cardinality(Idx) = Parallel /\ Idx \subseteq Nat
           /\ 0 \in Idx /\ Cardinality(Admitted) \in Nat /\ None \notin Req
<1>1. conf \in Confs
  BY DEF Ready
<1>2. conf.parallel \in {c.parallel : c \in Confs}
  BY <1>1
<1>3. Parallel \in Nat \ {0} /\ NumCtx \in Nat \ {0} /\ BatchSize \in Nat \ {0} /\ RespCap \in Nat \ {0}
  BY <1>2, SizesAssumption DEF Parallel
<1>4. IsFiniteSet(0 .. Parallel - 1) /\ Cardinality(0 .. Parallel - 1) = Parallel
  BY <1>3, FS_Interval
<1>5. Idx \subseteq Nat /\ 0 \in Idx
  BY <1>3 DEF Idx
<1>6. Cardinality(Admitted) \in Nat
  BY FS_CardinalityType DEF Ready
<1> QED BY <1>3, <1>4, <1>5, <1>6, SizesAssumption, ArgsAssumption DEF Idx

\* y differs from x in the sequence at the place i and in its slot only.
Touched(x, y, i) ==
    /\ y \in SrvType /\ y.seqs = x.seqs /\ y.sem = x.sem /\ y.lru = x.lru
    /\ \A p \in Req \ {x.seqs[i]} : y.seq[p] = x.seq[p]
    /\ Who(y, i).slot = Who(x, i).slot
    /\ \A t \in Idx \ {Who(x, i).slot} : y.slots[t] = x.slots[t] /\ y.kv[t] = x.kv[t]
    /\ y.slots[Who(x, i).slot].InUse = x.slots[Who(x, i).slot].InUse
    /\ \A q \in Req : Len(y.ch[q]) <= RespCap

\* The invariant, but for the inputs of the sequence at the place i.
Almost(x, i) ==
    /\ x \in SrvType /\ Placed(x)
    /\ \A s \in Idx : Fits(x, s)
    /\ \A j \in Idx \ {i} : Used(x, j) => Cached(x, j) /\ Whole(x.seqs[j], Who(x, j), Inp(x, j))
    /\ \A q \in Req : Len(x.ch[q]) <= RespCap

(* The invariant is that of each sequence. *)
LEMMA SoundIsAlmost ==
    ASSUME NEW x, NEW i \in Idx
    PROVE  Sound(x) <=> Almost(x, i) /\ (Used(x, i) => Cached(x, i) /\ Whole(x.seqs[i], Who(x, i), Inp(x, i)))
BY DEF Sound, Almost, Filled

(* A step that touches one sequence keeps the invariant for the others. *)
LEMMA TouchedAlmost ==
    ASSUME Ready, NEW x, NEW y, NEW i \in Idx, Almost(x, i), Used(x, i), Touched(x, y, i),
           Fits(y, Who(x, i).slot)
    PROVE  Almost(y, i)
<1> DEFINE s == Who(x, i).slot
           q == x.seqs[i]
<1>t. x \in SrvType /\ y \in SrvType /\ y.seqs = x.seqs
  BY DEF Almost, Touched
<1>1. q \in Req /\ x.seqs \in [Idx -> Req \cup {None}]
  BY <1>t DEF SrvType, Used
<1>2. s \in Idx /\ y.slots \in [Idx -> SlotType] /\ x.slots \in [Idx -> SlotType]
  BY <1>t, <1>1 DEF SrvType, SeqType, Who
<1>3. \A j \in Idx : Used(y, j) <=> Used(x, j)
  BY <1>t DEF Used
<1>4. \A j \in Idx : Used(x, j) => Who(y, j).slot = Who(x, j).slot
  <2> SUFFICES ASSUME NEW j \in Idx, Used(x, j) PROVE Who(y, j).slot = Who(x, j).slot
    OBVIOUS
  <2>1. CASE j = i
    BY <2>1 DEF Touched
  <2>2. CASE j # i
    <3>1. x.seqs[j] \in Req \ {q}
      BY <1>1, <2>2 DEF Almost, Placed, Seated, Used
    <3> QED BY <3>1 DEF Touched, Who
  <2> QED BY <2>1, <2>2
<1>5. \A t \in Idx : y.slots[t].InUse = x.slots[t].InUse
  BY DEF Touched
<1>6. ASSUME NEW j \in Idx, Used(x, j), j # i
      PROVE  Who(y, j) = Who(x, j) /\ Inp(y, j) = Inp(x, j) /\ y.kv[Who(y, j).slot] = x.kv[Who(x, j).slot]
  <2>1. x.seqs[j] \in Req \ {q}
    BY <1>1, <1>6 DEF Almost, Placed, Seated, Used
  <2>2. Who(y, j) = Who(x, j)
    BY <2>1 DEF Touched, Who
  <2>3. Who(x, j).slot \in Idx \ {s}
    <3>1. Who(x, j).slot # s
      BY <1>6 DEF Almost, Placed, Slotted
    <3>2. Who(x, j) \in SeqType
      BY <1>t, <2>1 DEF SrvType, Who
    <3> QED BY <3>1, <3>2 DEF SeqType
  <2> QED BY <2>2, <2>3 DEF Touched, Inp
<1>7. Seated(y)
  BY <1>3, <1>t DEF Almost, Placed, Seated
<1>8. Slotted(y)
  <2>1. Slotted(x)
    BY DEF Almost, Placed
  <2>2. \A j \in Idx : Used(x, j) => Who(x, j).slot \in Idx
    BY <1>t DEF Used, Who, SrvType, SeqType
  <2>3. \A j \in Idx : Used(y, j) => y.slots[Who(y, j).slot].InUse
    BY <2>1, <2>2, <1>3, <1>4, <1>5 DEF Slotted
  <2>4. \A j, k \in Idx : Used(y, j) /\ Used(y, k) /\ Who(y, j).slot = Who(y, k).slot => j = k
    BY <2>1, <1>3, <1>4 DEF Slotted
  <2>5. \A t \in Idx : y.slots[t].InUse => \E j \in Idx : Used(y, j) /\ Who(y, j).slot = t
    BY <2>1, <1>3, <1>4, <1>5 DEF Slotted
  <2> QED BY <2>3, <2>4, <2>5 DEF Slotted
<1>9. Listed(y) /\ Counted(y)
  <2>1. y.lru = x.lru /\ y.sem = x.sem /\ Free(y) = Free(x)
    BY <1>t DEF Touched, Free
  <2> QED BY <2>1 DEF Almost, Placed, Listed, Counted
<1>q. Queued(y)
  <2>1. hpc[q] \notin {"waiting", "admit"}
    BY DEF Almost, Placed, Seated
  <2>2. \A p \in Req : hpc[p] \in {"waiting", "admit"} => y.seq[p] = x.seq[p]
    BY <2>1 DEF Touched
  <2> QED BY <2>2 DEF Almost, Placed, Queued
<1>10. \A t \in Idx : Fits(y, t)
  <2> SUFFICES ASSUME NEW t \in Idx PROVE Fits(y, t)
    OBVIOUS
  <2>1. CASE t = s
    BY <2>1
  <2>2. CASE t # s
    <3>1. y.slots[t] = x.slots[t] /\ y.kv[t] = x.kv[t]
      BY <2>2 DEF Touched
    <3> QED BY <3>1 DEF Fits, Almost
  <2> QED BY <2>1, <2>2
<1>11. \A j \in Idx \ {i} : Used(y, j) => Cached(y, j) /\ Whole(y.seqs[j], Who(y, j), Inp(y, j))
  <2> SUFFICES ASSUME NEW j \in Idx \ {i}, Used(y, j) PROVE Cached(y, j) /\ Whole(y.seqs[j], Who(y, j), Inp(y, j))
    OBVIOUS
  <2>1. Used(x, j)
    BY <1>3
  <2>2. Cached(x, j) /\ Whole(x.seqs[j], Who(x, j), Inp(x, j))
    BY <2>1 DEF Almost
  <2> QED BY <1>6, <1>t, <2>1, <2>2 DEF Cached
<1> QED BY <1>t, <1>7, <1>8, <1>9, <1>q, <1>10, <1>11 DEF Almost, Placed, Touched
-----------------------------------------------------------------------------
(* Ending a sequence *)

(* flushPending changes the held pieces and the channel. *)
LEMMA FlushIs ==
    ASSUME Ready, NEW x \in SrvType, NEW q \in Req, \A p \in Req : Len(x.ch[p]) <= RespCap,
           NEW f \in FlushPending(x, q)
    PROVE  /\ f.x \in SrvType
           /\ f.x.seqs = x.seqs /\ f.x.sem = x.sem /\ f.x.lru = x.lru /\ f.x.slots = x.slots /\ f.x.kv = x.kv
           /\ \A p \in Req \ {q} : f.x.seq[p] = x.seq[p]
           /\ f.x.seq[q].slot = x.seq[q].slot /\ f.x.seq[q].pending = x.seq[q].pending
           /\ f.x.seq[q].inputs = x.seq[q].inputs /\ f.x.seq[q].prompt = x.seq[q].prompt
           /\ f.x.seq[q].numPredicted = x.seq[q].numPredicted /\ f.x.seq[q].numKeep = x.seq[q].numKeep
           /\ f.x.seq[q].iBatch = x.seq[q].iBatch
           /\ \A p \in Req : Len(f.x.ch[p]) <= RespCap
<1>1. CASE f.x = x
  BY <1>1
<1> DEFINE r == [x.seq[q] EXCEPT !.held = << >>]
<1>2. x.seq[q] \in SeqType /\ x.ch[q] \in Seq(Seq(Pieces))
  BY DEF SrvType
<1>3. r \in SeqType
  <2>1. << >> \in Seq(Pieces)
    OBVIOUS
  <2> QED BY <1>2, <2>1 DEF SeqType
<1>r. /\ r.slot = x.seq[q].slot /\ r.pending = x.seq[q].pending /\ r.inputs = x.seq[q].inputs
      /\ r.prompt = x.seq[q].prompt /\ r.numPredicted = x.seq[q].numPredicted /\ r.numKeep = x.seq[q].numKeep
      /\ r.iBatch = x.seq[q].iBatch
  BY <1>2 DEF SeqType
<1>4. CASE f.x = Sent(x, q) /\ Len(x.ch[q]) < RespCap
  <2> DEFINE c == Append(x.ch[q], x.seq[q].held)
  <2>1. c \in Seq(Seq(Pieces)) /\ Len(c) = Len(x.ch[q]) + 1
    BY <1>2 DEF SeqType
  <2>2. Len(c) <= RespCap
    BY <1>2, <1>4, <2>1, Numbers
  <2>3. f.x = [x EXCEPT !.ch = [x.ch EXCEPT ![q] = c], !.seq = [x.seq EXCEPT ![q] = r]]
    BY <1>4 DEF Sent
  <2> HIDE DEF c, r
  <2>4. [x.ch EXCEPT ![q] = c] \in [Req -> Seq(Seq(Pieces))] /\ [x.seq EXCEPT ![q] = r] \in [Req -> SeqType]
    BY <1>3, <2>1 DEF SrvType
  <2>5. f.x \in SrvType /\ f.x.ch = [x.ch EXCEPT ![q] = c] /\ f.x.seq = [x.seq EXCEPT ![q] = r]
        /\ f.x.seqs = x.seqs /\ f.x.sem = x.sem /\ f.x.lru = x.lru /\ f.x.slots = x.slots /\ f.x.kv = x.kv
    BY <2>3, <2>4 DEF SrvType
  <2>6. \A p \in Req : Len(f.x.ch[p]) <= RespCap
    BY <2>2, <2>5 DEF SrvType
  <2>7. f.x.seq[q] = r /\ \A p \in Req \ {q} : f.x.seq[p] = x.seq[p]
    BY <2>5 DEF SrvType
  <2> QED BY <1>r, <2>5, <2>6, <2>7
<1>5. CASE f.x = Lost(x, q)
  <2>3. f.x = [x EXCEPT !.seq = [x.seq EXCEPT ![q] = r]]
    BY <1>5 DEF Lost
  <2> HIDE DEF r
  <2>4. [x.seq EXCEPT ![q] = r] \in [Req -> SeqType]
    BY <1>3 DEF SrvType
  <2>5. f.x \in SrvType /\ f.x.ch = x.ch /\ f.x.seq = [x.seq EXCEPT ![q] = r]
        /\ f.x.seqs = x.seqs /\ f.x.sem = x.sem /\ f.x.lru = x.lru /\ f.x.slots = x.slots /\ f.x.kv = x.kv
    BY <2>3, <2>4 DEF SrvType
  <2>7. f.x.seq[q] = r /\ \A p \in Req \ {q} : f.x.seq[p] = x.seq[p]
    BY <2>5 DEF SrvType
  <2> QED BY <1>r, <2>5, <2>7
<1> QED BY <1>1, <1>4, <1>5 DEF FlushPending

(* Two sequences with the same inputs have the same text. *)
LEMMA WholeOfSame ==
    ASSUME NEW q, NEW r, NEW t, NEW I, Whole(q, r, I), t.pending = r.pending, t.inputs = r.inputs,
           t.prompt = r.prompt, t.numPredicted = r.numPredicted, t.numKeep = r.numKeep
    PROVE  Whole(q, t, I)
BY DEF Whole

(* flushPending keeps the invariant. *)
LEMMA FlushSound ==
    ASSUME Ready, NEW x, NEW i \in Idx, Almost(x, i), Used(x, i), NEW f \in FlushPending(x, x.seqs[i])
    PROVE  /\ Almost(f.x, i) /\ f.x.seqs = x.seqs /\ f.x.slots = x.slots /\ f.x.kv = x.kv
           /\ Who(f.x, i).slot = Who(x, i).slot
           /\ \A p \in Req : f.x.seq[p].inputs = x.seq[p].inputs /\ f.x.seq[p].pending = x.seq[p].pending
                             /\ f.x.seq[p].iBatch = x.seq[p].iBatch
           /\ Sound(x) => Sound(f.x)
<1> DEFINE q == x.seqs[i]
           y == f.x
<1>1. x \in SrvType /\ \A p \in Req : Len(x.ch[p]) <= RespCap
  BY DEF Almost
<1>2. q \in Req
  BY <1>1 DEF SrvType, Used
<1>3. /\ y \in SrvType
      /\ y.seqs = x.seqs /\ y.sem = x.sem /\ y.lru = x.lru /\ y.slots = x.slots /\ y.kv = x.kv
      /\ \A p \in Req \ {q} : y.seq[p] = x.seq[p]
      /\ y.seq[q].slot = x.seq[q].slot /\ y.seq[q].pending = x.seq[q].pending
      /\ y.seq[q].inputs = x.seq[q].inputs /\ y.seq[q].prompt = x.seq[q].prompt
      /\ y.seq[q].numPredicted = x.seq[q].numPredicted /\ y.seq[q].numKeep = x.seq[q].numKeep
      /\ y.seq[q].iBatch = x.seq[q].iBatch
      /\ \A p \in Req : Len(y.ch[p]) <= RespCap
  BY <1>1, <1>2, FlushIs
<1> HIDE DEF y
<1>4. Touched(x, y, i)
  BY <1>3 DEF Touched, Who
<1>5. Who(x, i).slot \in Idx
  BY <1>1, <1>2 DEF SrvType, SeqType, Who
<1>6. Fits(y, Who(x, i).slot)
  BY <1>3, <1>5 DEF Almost, Fits
<1>7. Almost(y, i)
  BY <1>4, <1>6, TouchedAlmost
<1>8. Used(y, i) /\ Who(y, i).slot = Who(x, i).slot
  BY <1>3, <1>4 DEF Used, Touched
<1>9. ASSUME Sound(x) PROVE Sound(y)
  <2>1. Cached(x, i) /\ Whole(x.seqs[i], Who(x, i), Inp(x, i))
    BY <1>9 DEF Sound, Filled
  <2>2. Cached(y, i) /\ Inp(y, i) = Inp(x, i) /\ y.seqs[i] = q
    BY Zenon, <2>1, <1>3, <1>8 DEF Cached, Inp, Who
  <2>3. Whole(q, y.seq[q], Inp(x, i))
    BY <2>1, <1>3, WholeOfSame DEF Who
  <2> QED BY <1>7, <2>2, <2>3, SoundIsAlmost DEF Who
<1> QED BY <1>3, <1>7, <1>8, <1>9 DEF y

(* NoSeq is a sequence of the right type. *)
LEMMA NoSeqType ==
    ASSUME Ready
    PROVE  NoSeq \in SeqType /\ \A n \in Int : [NoSeq EXCEPT !.numPredict = n] \in SeqType
<1>1. 0 \in Idx /\ 0 \in 0 .. NumCtx - 1 /\ 0 \in Nat
  BY Numbers
<1>2. << >> \in Seq(InputSet) /\ << >> \in Seq(Pieces) /\ << >> \in Seq(Toks)
  OBVIOUS
<1>3. NoSeq \in SeqType
  BY <1>1, <1>2 DEF SeqType, NoSeq
<1> QED BY <1>3 DEF SeqType

(* removeSequence gives back the place, the slot and the permit. *)
LEMMA RemoveSound ==
    ASSUME Ready, NEW x, NEW i \in Idx, Almost(x, i), Used(x, i), NEW y \in RemoveSequence(x, i)
    PROVE  /\ Sound(y) /\ y.seqs = [x.seqs EXCEPT ![i] = None]
           /\ \A j \in Idx : Used(y, j) => /\ Used(x, j) /\ y.seqs[j] = x.seqs[j]
                                           /\ Who(y, j).inputs = Who(x, j).inputs
                                           /\ Who(y, j).pending = Who(x, j).pending
                                           /\ Who(y, j).iBatch = Who(x, j).iBatch
<1> DEFINE q == x.seqs[i]
           s == x.seq[q].slot
<1>1. x \in SrvType /\ \A p \in Req : Len(x.ch[p]) <= RespCap
  BY DEF Almost
<1>2. q \in Req /\ s \in Idx /\ x.seqs \in [Idx -> Req \cup {None}]
  BY <1>1 DEF SrvType, SeqType, Used
<1>3. PICK f \in FlushPending(x, q) :
        y = [f.x EXCEPT !.closed = @ \cup {q}, !.slots[s].InUse = FALSE, !.seqs[i] = None, !.sem = @ + 1,
                        !.seq[q] = [NoSeq EXCEPT !.numPredict = x.seq[q].numPredict]]
  BY Zenon DEF RemoveSequence
<1> DEFINE z == f.x
           n == [NoSeq EXCEPT !.numPredict = x.seq[q].numPredict]
           u == [z.slots[s] EXCEPT !.InUse = FALSE]
<1>4. Almost(z, i) /\ z.seqs = x.seqs /\ z.slots = x.slots /\ z.kv = x.kv /\ Who(z, i).slot = s
      /\ \A p \in Req : z.seq[p].inputs = x.seq[p].inputs /\ z.seq[p].pending = x.seq[p].pending
                        /\ z.seq[p].iBatch = x.seq[p].iBatch
  BY FlushSound DEF Who
<1>5. z \in SrvType
  BY <1>4 DEF Almost
<1>6. n \in SeqType /\ u \in SlotType /\ u.Inputs = z.slots[s].Inputs /\ ~u.InUse
  <2>1. x.seq[q].numPredict \in Int
    BY <1>1, <1>2 DEF SrvType, SeqType
  <2>2. z.slots[s] \in SlotType
    BY <1>2, <1>5 DEF SrvType
  <2> QED BY Zenon, <2>1, <2>2, NoSeqType DEF SlotType
<1> HIDE DEF n, u, z
<1>7. y = [z EXCEPT !.closed = z.closed \cup {q}, !.slots = [z.slots EXCEPT ![s] = u],
                    !.seqs = [z.seqs EXCEPT ![i] = None], !.sem = z.sem + 1, !.seq = [z.seq EXCEPT ![q] = n]]
  BY Zenon, <1>3 DEF n, u, z
<1>8. /\ [z.slots EXCEPT ![s] = u] \in [Idx -> SlotType] /\ [z.seqs EXCEPT ![i] = None] \in [Idx -> Req \cup {None}]
      /\ [z.seq EXCEPT ![q] = n] \in [Req -> SeqType] /\ z.sem + 1 \in Nat /\ z.closed \cup {q} \in SUBSET Req
  BY <1>2, <1>5, <1>6 DEF SrvType
<1>9. /\ y \in SrvType /\ y.slots = [z.slots EXCEPT ![s] = u] /\ y.seqs = [z.seqs EXCEPT ![i] = None]
      /\ y.sem = z.sem + 1 /\ y.seq = [z.seq EXCEPT ![q] = n] /\ y.lru = z.lru /\ y.kv = z.kv /\ y.ch = z.ch
  BY Zenon, <1>5, <1>7, <1>8 DEF SrvType
<1>10. ASSUME NEW j \in Idx, Used(y, j)
       PROVE  /\ j # i /\ Used(z, j) /\ y.seqs[j] = z.seqs[j] /\ z.seqs[j] \in Req \ {q} /\ Who(y, j) = Who(z, j)
              /\ Who(z, j).slot \in Idx \ {s} /\ Inp(y, j) = Inp(z, j)
  <2>1. j # i /\ y.seqs[j] = z.seqs[j]
    BY <1>9, <1>10, <1>5 DEF Used, SrvType
  <2>2. Used(z, j) /\ Used(z, i)
    BY <1>10, <2>1, <1>4 DEF Used
  <2>3. z.seqs[j] \in Req \ {q}
    <3>1. z.seqs[j] # z.seqs[i]
      BY <2>1, <2>2, <1>4 DEF Almost, Placed, Seated
    <3> QED BY <3>1, <2>2, <1>4, <1>5 DEF Used, SrvType
  <2>4. Who(y, j) = Who(z, j)
    BY <1>5, <1>9, <2>1, <2>3 DEF Who, SrvType
  <2>5. Who(z, j).slot \in Idx \ {s}
    <3>1. Who(z, j).slot # s
      BY <2>1, <2>2, <1>4 DEF Almost, Placed, Slotted
    <3> QED BY <3>1, <1>5, <2>3 DEF SrvType, SeqType, Who
  <2>6. Inp(y, j) = Inp(z, j)
    BY <1>5, <1>9, <2>4, <2>5 DEF Inp, SrvType
  <2> QED BY <2>1, <2>2, <2>3, <2>4, <2>5, <2>6
<1>11. ASSUME NEW j \in Idx, Used(z, j), j # i PROVE Used(y, j)
  BY <1>5, <1>9, <1>11 DEF Used, SrvType
<1>12. Seated(y)
  <2>1. \A j, k \in Idx : Used(y, j) /\ y.seqs[j] = y.seqs[k] => j = k
    <3> SUFFICES ASSUME NEW j \in Idx, NEW k \in Idx, Used(y, j), y.seqs[j] = y.seqs[k] PROVE j = k
      OBVIOUS
    <3>1. Used(y, k)
      BY DEF Used
    <3>2. Used(z, j) /\ z.seqs[j] = z.seqs[k]
      BY <1>10, <3>1
    <3> QED BY <3>2, <1>4 DEF Almost, Placed, Seated
  <2>2. \A j \in Idx : Used(y, j) => hpc[y.seqs[j]] \in {"stream", "done"}
    BY <1>4, <1>10 DEF Almost, Placed, Seated
  <2> QED BY <2>1, <2>2 DEF Seated
<1>13. Slotted(y)
  <2>0. Slotted(z)
    BY <1>4 DEF Almost, Placed
  <2>1. \A t \in Idx : y.slots[t].InUse <=> z.slots[t].InUse /\ t # s
    BY <1>2, <1>5, <1>6, <1>9 DEF SrvType
  <2>2. \A j \in Idx : Used(y, j) => y.slots[Who(y, j).slot].InUse
    BY <2>0, <2>1, <1>10 DEF Slotted
  <2>3. \A j, k \in Idx : Used(y, j) /\ Used(y, k) /\ Who(y, j).slot = Who(y, k).slot => j = k
    BY <2>0, <1>10 DEF Slotted
  <2>4. \A t \in Idx : y.slots[t].InUse => \E j \in Idx : Used(y, j) /\ Who(y, j).slot = t
    <3> SUFFICES ASSUME NEW t \in Idx, y.slots[t].InUse PROVE \E j \in Idx : Used(y, j) /\ Who(y, j).slot = t
      OBVIOUS
    <3>1. z.slots[t].InUse /\ t # s
      BY <2>1
    <3>2. PICK j \in Idx : Used(z, j) /\ Who(z, j).slot = t
      BY <3>1, <2>0 DEF Slotted
    <3>3. j # i
      BY <3>1, <3>2, <1>4
    <3> QED BY <3>2, <3>3, <1>10, <1>11
  <2> QED BY <2>2, <2>3, <2>4 DEF Slotted
<1>14. Counted(y)
  <2>1. i \notin Free(z) /\ Free(y) = Free(z) \cup {i}
    BY <1>4, <1>5, <1>9 DEF Free, Used, SrvType
  <2>2. IsFiniteSet(Free(z))
    BY Numbers, FS_Subset DEF Free
  <2>3. Cardinality(Free(y)) = Cardinality(Free(z)) + 1
    BY <2>1, <2>2, FS_AddElement
  <2>4. z.sem + Cardinality(Admitted) = Cardinality(Free(z)) /\ z.sem \in Nat /\ Cardinality(Admitted) \in Nat
    BY <1>4, <1>5, Numbers DEF Almost, Placed, Counted, SrvType
  <2> QED BY <1>9, <2>3, <2>4 DEF Counted
<1>q. Queued(y)
  <2>1. hpc[q] \notin {"waiting", "admit"}
    BY DEF Almost, Placed, Seated
  <2>2. \A p \in Req : hpc[p] \in {"waiting", "admit"} => y.seq[p] = z.seq[p]
    BY <2>1, <1>5, <1>9 DEF SrvType
  <2> QED BY <2>2, <1>4 DEF Almost, Placed, Queued
<1>15. Placed(y)
  BY <1>4, <1>9, <1>12, <1>13, <1>14, <1>q DEF Almost, Placed, Listed
<1>16. \A t \in Idx : Fits(y, t)
  <2>1. \A t \in Idx : y.slots[t].Inputs = z.slots[t].Inputs
    BY <1>2, <1>5, <1>6, <1>9 DEF SrvType
  <2> QED BY <2>1, <1>4, <1>9 DEF Almost, Fits
<1>17. \A j \in Idx : Used(y, j) => Cached(y, j) /\ Whole(y.seqs[j], Who(y, j), Inp(y, j))
  BY <1>4, <1>9, <1>10 DEF Almost, Cached
<1>18. \A p \in Req : Len(y.ch[p]) <= RespCap
  BY <1>4, <1>9 DEF Almost
<1>19. Sound(y)
  BY <1>9, <1>15, <1>16, <1>17, <1>18 DEF Sound, Filled
<1>20. y.seqs = [x.seqs EXCEPT ![i] = None]
  BY <1>4, <1>9
<1>21. ASSUME NEW j \in Idx, Used(y, j)
       PROVE  /\ Used(x, j) /\ y.seqs[j] = x.seqs[j] /\ Who(y, j).inputs = Who(x, j).inputs
              /\ Who(y, j).pending = Who(x, j).pending /\ Who(y, j).iBatch = Who(x, j).iBatch
  BY <1>4, <1>10, <1>21 DEF Used, Who
<1> QED BY <1>19, <1>20, <1>21
-----------------------------------------------------------------------------
(* What is cached, pending and to come of a text *)

(* Inputs that become pending *)
LEMMA CompleteTake ==
    ASSUME Ready, NEW q, NEW S, NEW I \in Seq(S), NEW R \in Seq(S), NEW T, NEW n, NEW keep,
           Complete(q, I, << >>, R, T, n, keep), NEW take \in 0 .. Len(R),
           NEW P, P = SubSeq(R, 1, take), NEW Q, Q = SubSeq(R, take + 1, Len(R))
    PROVE  Complete(q, I, P, Q, T, n, keep)
<1>1. Len(I) \in Nat /\ Len(R) \in Nat /\ Len(<< >>) = 0
  OBVIOUS
<1>2. Len(P) = take /\ \A p \in 1 .. take : P[p] = R[p]
  BY <1>1, PartIs
<1>3. Len(Q) = Len(R) - take /\ \A p \in 1 .. Len(R) - take : Q[p] = R[take + p]
  BY <1>1, PartIs
<1>4. NowLen(I, P, Q) = NowLen(I, << >>, R) /\ NowLen(I, P, Q) = Len(I) + Len(R)
  <2>1. NowLen(I, P, Q) = Len(I) + take + (Len(R) - take)
    BY <1>2, <1>3 DEF NowLen
  <2>2. NowLen(I, << >>, R) = Len(I) + 0 + Len(R)
    BY <1>1 DEF NowLen
  <2>3. Len(I) + take + (Len(R) - take) = Len(I) + Len(R) /\ Len(I) + 0 + Len(R) = Len(I) + Len(R)
    BY <1>1
  <2> QED BY <2>1, <2>2, <2>3
<1>5. ASSUME NEW p \in 1 .. Len(I) + Len(R) PROVE NowAt(I, P, Q, p) = NowAt(I, << >>, R, p)
  <2>0. p \in Nat /\ p >= 1 /\ p <= Len(I) + Len(R) /\ take \in Nat /\ take <= Len(R)
    BY <1>1
  <2>1. CASE p <= Len(I)
    BY <2>1 DEF NowAt
  <2>2. CASE p > Len(I) /\ p <= Len(I) + take
    <3>1. NowAt(I, << >>, R, p) = R[p - Len(I) - 0]
      BY <1>1, <2>0, <2>2 DEF NowAt
    <3>2. NowAt(I, P, Q, p) = P[p - Len(I)]
      BY <1>1, <1>2, <2>0, <2>2 DEF NowAt
    <3>3. p - Len(I) \in 1 .. take /\ p - Len(I) - 0 = p - Len(I)
      BY <1>1, <2>0, <2>2
    <3> QED BY <1>2, <3>1, <3>2, <3>3
  <2>3. CASE p > Len(I) + take
    <3>1. NowAt(I, << >>, R, p) = R[p - Len(I) - 0]
      BY <1>1, <2>0, <2>3 DEF NowAt
    <3>2. NowAt(I, P, Q, p) = Q[p - Len(I) - take]
      BY <1>1, <1>2, <2>0, <2>3 DEF NowAt
    <3>3. p - Len(I) - take \in 1 .. Len(R) - take /\ take + (p - Len(I) - take) = p - Len(I) - 0
      BY <1>1, <2>0, <2>3
    <3>4. Q[p - Len(I) - take] = R[take + (p - Len(I) - take)]
      BY <1>3, <3>3
    <3> QED BY <3>1, <3>2, <3>3, <3>4
  <2> QED BY <1>1, <2>0, <2>1, <2>2, <2>3
<1>6. Gap(I, P, Q, T, n) = Gap(I, << >>, R, T, n)
  BY <1>4 DEF Gap
<1>7. Same(q, I, P, Q, T, n, keep)
  <2>1. \A p \in 1 .. NowLen(I, P, Q) :
           NowAt(I, << >>, R, p) = TextAt(q, T, Origin(p, keep, Gap(I, << >>, R, T, n)))
    BY <1>4 DEF Complete, Same
  <2> QED BY <1>4, <1>5, <1>6, <2>1 DEF Same
<1>8. Len(P) + Len(Q) = Len(<< >>) + Len(R)
  BY <1>1, <1>2, <1>3
<1>9. Bounded(I, P, Q, T, n, keep)
  BY <1>4, <1>6, <1>8 DEF Complete, Bounded
<1> QED BY <1>7, <1>9 DEF Complete

(* Pending inputs that move into the slot *)
LEMMA CompleteMoved ==
    ASSUME Ready, NEW q, NEW S, NEW I \in Seq(S), NEW P \in Seq(S), NEW R \in Seq(S), NEW T, NEW n, NEW keep,
           Complete(q, I, P, R, T, n, keep), Len(I) + Len(P) <= NumCtx
    PROVE  Complete(q, I \o P, << >>, R, T, n, keep)
<1> DEFINE J == I \o P
<1>1. Len(I) \in Nat /\ Len(P) \in Nat /\ Len(R) \in Nat /\ Len(<< >>) = 0
  OBVIOUS
<1>2. Len(J) = Len(I) + Len(P)
      /\ \A p \in 1 .. Len(I) + Len(P) : J[p] = IF p <= Len(I) THEN I[p] ELSE P[p - Len(I)]
  BY <1>1, JoinIs
<1> HIDE DEF J
<1>4. NowLen(J, << >>, R) = NowLen(I, P, R) /\ NowLen(I, P, R) = Len(I) + Len(P) + Len(R)
  BY <1>1, <1>2 DEF NowLen
<1>5. ASSUME NEW p \in 1 .. NowLen(I, P, R) PROVE NowAt(J, << >>, R, p) = NowAt(I, P, R, p)
  <2>0. p \in Nat /\ p >= 1
    BY <1>1, <1>4
  <2>1. CASE p <= Len(I) + Len(P)
    <3>1. NowAt(J, << >>, R, p) = J[p]
      BY <1>2, <2>1 DEF NowAt
    <3>2. p \in 1 .. Len(I) + Len(P)
      BY <1>1, <2>0, <2>1
    <3>3. J[p] = IF p <= Len(I) THEN I[p] ELSE P[p - Len(I)]
      BY <1>2, <3>2
    <3> QED BY <2>1, <3>1, <3>3 DEF NowAt
  <2>2. CASE p > Len(I) + Len(P)
    <3>1. NowAt(J, << >>, R, p) = R[p - (Len(I) + Len(P)) - 0]
      BY <1>1, <1>2, <2>0, <2>2 DEF NowAt
    <3>2. NowAt(I, P, R, p) = R[p - Len(I) - Len(P)]
      BY <1>1, <2>0, <2>2 DEF NowAt
    <3>3. p - (Len(I) + Len(P)) - 0 = p - Len(I) - Len(P)
      BY <1>1, <2>0
    <3> QED BY <3>1, <3>2, <3>3
  <2> QED BY <1>1, <2>0, <2>1, <2>2
<1>6. Gap(J, << >>, R, T, n) = Gap(I, P, R, T, n)
  BY <1>4 DEF Gap
<1>7. Same(q, J, << >>, R, T, n, keep)
  <2>1. \A p \in 1 .. NowLen(J, << >>, R) :
           NowAt(I, P, R, p) = TextAt(q, T, Origin(p, keep, Gap(I, P, R, T, n)))
    BY <1>4 DEF Complete, Same
  <2> QED BY <1>4, <1>5, <1>6, <2>1 DEF Same
<1>8. Bounded(J, << >>, R, T, n, keep)
  <2>1. NowLen(I, P, R) <= NumCtx \/ (NowLen(I, P, R) = NumCtx + 1 /\ Len(P) + Len(R) = 1)
    BY DEF Complete, Bounded
  <2>2. NowLen(J, << >>, R) <= NumCtx \/ (NowLen(J, << >>, R) = NumCtx + 1 /\ Len(<< >>) + Len(R) = 1)
    <3>1. CASE NowLen(I, P, R) <= NumCtx
      BY <1>4, <3>1
    <3>2. CASE NowLen(I, P, R) = NumCtx + 1 /\ Len(P) + Len(R) = 1
      <4>1. NumCtx \in Nat
        BY Numbers
      <4>2. Len(R) = 1
        <5>1. \A a, b, c, m \in Nat : a + b <= m /\ a + b + c = m + 1 /\ b + c = 1 => c = 1
          OBVIOUS
        <5>2. Len(I) + Len(P) + Len(R) = NumCtx + 1
          BY <1>4, <3>2
        <5> QED BY ONLY <1>1, <3>2, <4>1, <5>1, <5>2, Len(I) + Len(P) <= NumCtx
      <4>3. Len(<< >>) + Len(R) = 1
        BY <1>1, <4>2
      <4> QED BY <1>4, <3>2, <4>3
    <3> QED BY <2>1, <3>1, <3>2
  <2> QED BY <1>4, <1>6, <2>2 DEF Complete, Bounded
<1> QED BY <1>7, <1>8 DEF Complete, J

(* The placeholder for the token to be sampled *)
LEMMA CompleteNext ==
    ASSUME Ready, NEW q, NEW S, NEW I \in Seq(S), NEW U, NEW T \in Seq(U), NEW n \in Nat, NEW keep \in Nat,
           Complete(q, I, << >>, << >>, T, n, keep), Len(I) <= NumCtx
    PROVE  Complete(q, I, << >>, << <<q, n + 1>> >>, T, n + 1, keep)
<1> DEFINE R == << <<q, n + 1>> >>
<1>1. Len(I) \in Nat /\ Len(<< >>) = 0 /\ Len(T) \in Nat
  OBVIOUS
<1>2. Len(R) = 1 /\ R[1] = <<q, n + 1>>
  OBVIOUS
<1> HIDE DEF R
<1>3. /\ NowLen(I, << >>, << >>) = Len(I) /\ NowLen(I, << >>, R) = Len(I) + 1
  BY <1>1, <1>2 DEF NowLen
<1>g. Gap(I, << >>, R, T, n + 1) = Gap(I, << >>, << >>, T, n) /\ Gap(I, << >>, << >>, T, n) = Len(T) + n - Len(I)
  BY <1>1, <1>3 DEF Gap
<1> DEFINE g == Gap(I, << >>, << >>, T, n)
<1>4. g \in Int /\ g >= 0 /\ (g > 0 => keep < Len(I)) /\ Len(T) + n - Len(I) = g
  BY <1>1, <1>3, <1>g DEF Complete, Bounded
<1> HIDE DEF g
<1>6. ASSUME NEW p \in 1 .. Len(I) + 1 PROVE NowAt(I, << >>, R, p) = TextAt(q, T, Origin(p, keep, g))
  <2>1. CASE p <= Len(I)
    <3>1. NowAt(I, << >>, R, p) = NowAt(I, << >>, << >>, p)
      BY <2>1 DEF NowAt
    <3>2. p \in 1 .. NowLen(I, << >>, << >>)
      BY <1>1, <1>3, <2>1
    <3> QED BY <3>1, <3>2 DEF Complete, Same, g
  <2>2. CASE p = Len(I) + 1
    <3>1. NowAt(I, << >>, R, p) = <<q, n + 1>>
      <4>1. ~(p <= Len(I)) /\ ~(p <= Len(I) + 0) /\ p - Len(I) - 0 = 1
        BY <1>1, <2>2
      <4>2. NowAt(I, << >>, R, p) = R[p - Len(I) - 0]
        BY <1>1, <4>1 DEF NowAt
      <4> QED BY <1>2, <4>1, <4>2
    <3>2. Origin(p, keep, g) = Len(T) + n + 1
      BY <1>1, <1>4, <2>2 DEF Origin
    <3>3. TextAt(q, T, Len(T) + n + 1) = <<q, (Len(T) + n + 1) - Len(T)>>
      BY <1>1 DEF TextAt
    <3>4. (Len(T) + n + 1) - Len(T) = n + 1
      BY <1>1
    <3> QED BY <3>1, <3>2, <3>3, <3>4
  <2> QED BY <1>1, <2>1, <2>2
<1>7. Same(q, I, << >>, R, T, n + 1, keep)
  BY <1>3, <1>6, <1>g DEF Same, g
<1>8. Bounded(I, << >>, R, T, n + 1, keep)
  <2>1. Len(I) + 1 <= NumCtx \/ (Len(I) + 1 = NumCtx + 1 /\ Len(<< >>) + Len(R) = 1)
    BY <1>1, <1>2, Numbers
  <2>2. g > 0 => keep < Len(I) + 1
    BY <1>1, <1>4
  <2> QED BY <1>3, <1>4, <1>g, <2>1, <2>2 DEF Bounded, g
<1> QED BY <1>7, <1>8 DEF Complete, R

(* A shift: one more piece of the text is missing, at the same place. *)
LEMMA CompleteShift ==
    ASSUME Ready, NEW q, NEW S, NEW I \in Seq(S), NEW R \in Seq(S), R # << >>,
           NEW U, NEW T \in Seq(U), NEW n \in Nat, NEW keep \in Nat,
           Complete(q, I, << >>, R, T, n, keep), Len(I) = NumCtx,
           NEW d \in Nat, 1 <= d, keep + d <= NumCtx
    PROVE  /\ Complete(q, Without(I, keep, d), << >>, R, T, n, keep)
           /\ NowLen(Without(I, keep, d), << >>, R) <= NumCtx
<1> DEFINE J == Without(I, keep, d)
           g == Gap(I, << >>, R, T, n)
<1>1. /\ NumCtx \in Nat /\ Len(I) \in Nat /\ Len(R) \in Nat /\ Len(R) >= 1 /\ Len(<< >>) = 0
  <2>1. Len(R) # 0
    OBVIOUS
  <2> QED BY <2>1, Numbers
<1>2. /\ J \in Seq(S) /\ Len(J) = NumCtx - d
      /\ \A p \in 1 .. NumCtx - d : J[p] = I[Origin(p, keep, d)]
  <2>1. /\ Without(I, keep, d) \in Seq(S) /\ Len(Without(I, keep, d)) = Len(I) - d
        /\ \A p \in 1 .. Len(I) - d : Without(I, keep, d)[p] = I[Origin(p, keep, d)]
    <3>1. keep + d <= Len(I)
      BY <1>1
    <3> QED BY ONLY <3>1, WithoutIs, I \in Seq(S), keep \in Nat, d \in Nat
  <2>2. Len(I) - d = NumCtx - d
    OBVIOUS
  <2> QED BY ONLY <2>1, <2>2
<1> HIDE DEF J
<1>3. NowLen(I, << >>, R) = NumCtx + Len(R) /\ NowLen(J, << >>, R) = NumCtx + Len(R) - d
  <2>1. NowLen(I, << >>, R) = NumCtx + 0 + Len(R)
    BY <1>1 DEF NowLen
  <2>2. NowLen(J, << >>, R) = (NumCtx - d) + 0 + Len(R)
    BY <1>1, <1>2 DEF NowLen
  <2> QED BY <1>1, <2>1, <2>2
<1>g. g \in Int /\ g >= 0 /\ g = Len(T) + n - NowLen(I, << >>, R)
  <2>1. g = Len(T) + n - NowLen(I, << >>, R)
    BY DEF Gap
  <2>2. g >= 0
    BY DEF Complete, Bounded
  <2>3. g \in Int
    BY <1>1, <1>3, <2>1
  <2> QED BY <2>1, <2>2, <2>3
<1>4. Gap(J, << >>, R, T, n) = g + d
  <2>1. g = (Len(T) + n) - (NumCtx + Len(R)) /\ Gap(J, << >>, R, T, n) = (Len(T) + n) - (NumCtx + Len(R) - d)
    <3>1. Gap(J, << >>, R, T, n) = (Len(T) + n) - (NumCtx + Len(R) - d)
      BY <1>3 DEF Gap
    <3>2. g = (Len(T) + n) - (NumCtx + Len(R))
      BY <1>3, <1>g
    <3> QED BY <3>1, <3>2
  <2>3. \A a \in Int : a - (NumCtx + Len(R) - d) = (a - (NumCtx + Len(R))) + d
    BY <1>1
  <2>4. Len(T) + n \in Int
    OBVIOUS
  <2> QED BY <2>1, <2>3, <2>4
<1> HIDE DEF g
<1>5. ASSUME NEW p \in 1 .. NumCtx + Len(R) - d
      PROVE  NowAt(J, << >>, R, p) = NowAt(I, << >>, R, Origin(p, keep, d))
  <2>0. p \in Nat /\ p >= 1 /\ p <= NumCtx + Len(R) - d
    BY <1>1
  <2>1. CASE p <= NumCtx - d
    <3>1. NowAt(J, << >>, R, p) = J[p]
      BY <1>2, <2>1 DEF NowAt
    <3>2. Origin(p, keep, d) <= Len(I)
      BY <1>1, <2>0, <2>1 DEF Origin
    <3>3. NowAt(I, << >>, R, Origin(p, keep, d)) = I[Origin(p, keep, d)]
      BY <3>2 DEF NowAt
    <3>4. p \in 1 .. NumCtx - d
      BY <1>1, <2>0, <2>1
    <3> QED BY <1>2, <3>1, <3>3, <3>4
  <2>2. CASE p > NumCtx - d
    <3>1. Origin(p, keep, d) = p + d
      BY <1>1, <2>0, <2>2 DEF Origin
    <3>2. NowAt(J, << >>, R, p) = R[p - (NumCtx - d) - 0]
      <4>1. ~(p <= NumCtx - d) /\ ~(p <= (NumCtx - d) + 0)
        BY <1>1, <2>0, <2>2
      <4> QED BY <1>1, <1>2, <4>1 DEF NowAt
    <3>3. NowAt(I, << >>, R, p + d) = R[(p + d) - NumCtx - 0]
      <4>1. ~(p + d <= NumCtx) /\ ~(p + d <= NumCtx + 0)
        BY <1>1, <2>0, <2>2
      <4> QED BY <1>1, <4>1 DEF NowAt
    <3>4. p - (NumCtx - d) - 0 = (p + d) - NumCtx - 0
      BY <1>1, <2>0
    <3> QED BY <3>1, <3>2, <3>3, <3>4
  <2> QED BY <1>1, <2>0, <2>1, <2>2
<1>6. Same(q, J, << >>, R, T, n, keep)
  <2> SUFFICES ASSUME NEW p \in 1 .. NumCtx + Len(R) - d
               PROVE  NowAt(J, << >>, R, p) = TextAt(q, T, Origin(p, keep, g + d))
    BY <1>3, <1>4 DEF Same
  <2>0. p \in Nat /\ p >= 1 /\ p <= NumCtx + Len(R) - d
    BY <1>1
  <2>1. Origin(p, keep, d) \in 1 .. NumCtx + Len(R)
    BY <1>1, <2>0 DEF Origin
  <2>2. Origin(Origin(p, keep, d), keep, g) = Origin(p, keep, g + d)
    BY <1>g, <2>0 DEF Origin
  <2>3. NowAt(I, << >>, R, Origin(p, keep, d)) = TextAt(q, T, Origin(Origin(p, keep, d), keep, g))
    BY <1>3, <2>1 DEF Complete, Same, g
  <2> QED BY <1>5, <2>2, <2>3
<1>7. NowLen(J, << >>, R) <= NumCtx /\ keep < NowLen(J, << >>, R)
  <2>1. NowLen(I, << >>, R) <= NumCtx + 1
    BY <1>1, <1>3 DEF Complete, Bounded
  <2> QED BY <1>1, <1>3, <2>1
<1>8. Bounded(J, << >>, R, T, n, keep)
  BY <1>4, <1>7, <1>g DEF Bounded
<1> QED BY <1>6, <1>7, <1>8 DEF Complete, J

(* The slot is emptied and what it had is to be computed again. *)
LEMMA CompleteAgain ==
    ASSUME Ready, NEW q, NEW S, NEW J \in Seq(S), NEW R \in Seq(S), NEW T, NEW n, NEW keep,
           Complete(q, J, << >>, R, T, n, keep), NowLen(J, << >>, R) <= NumCtx
    PROVE  Complete(q, << >>, << >>, J \o R, T, n, keep)
<1> DEFINE K == J \o R
<1>1. Len(J) \in Nat /\ Len(R) \in Nat /\ Len(<< >>) = 0
  OBVIOUS
<1>2. /\ Len(K) = Len(J) + Len(R)
      /\ \A p \in 1 .. Len(J) + Len(R) : K[p] = IF p <= Len(J) THEN J[p] ELSE R[p - Len(J)]
  BY JoinIs
<1> HIDE DEF K
<1>3. NowLen(<< >>, << >>, K) = Len(J) + Len(R) /\ NowLen(J, << >>, R) = Len(J) + Len(R)
  <2>1. NowLen(<< >>, << >>, K) = 0 + 0 + (Len(J) + Len(R)) /\ NowLen(J, << >>, R) = Len(J) + 0 + Len(R)
    BY <1>1, <1>2 DEF NowLen
  <2> QED BY <1>1, <2>1
<1>4. Gap(<< >>, << >>, K, T, n) = Gap(J, << >>, R, T, n)
  BY <1>3 DEF Gap
<1>5. ASSUME NEW p \in 1 .. Len(J) + Len(R) PROVE NowAt(<< >>, << >>, K, p) = NowAt(J, << >>, R, p)
  <2>0. p \in Nat /\ p >= 1
    BY <1>1
  <2>1. NowAt(<< >>, << >>, K, p) = K[p - 0 - 0]
    <3>1. ~(p <= 0) /\ ~(p <= 0 + 0)
      BY <2>0
    <3> QED BY <1>1, <3>1 DEF NowAt
  <2>2. p - 0 - 0 = p
    BY <2>0
  <2>3. CASE p <= Len(J)
    BY <1>2, <2>1, <2>2, <2>3 DEF NowAt
  <2>4. CASE p > Len(J)
    <3>1. ~(p <= Len(J)) /\ ~(p <= Len(J) + 0) /\ p - Len(J) - 0 = p - Len(J)
      BY <1>1, <2>0, <2>4
    <3>2. NowAt(J, << >>, R, p) = R[p - Len(J) - 0]
      BY <1>1, <3>1 DEF NowAt
    <3> QED BY <1>2, <2>1, <2>2, <3>1, <3>2
  <2> QED BY <1>1, <2>0, <2>3, <2>4
<1>6. Same(q, << >>, << >>, K, T, n, keep)
  <2>1. \A p \in 1 .. Len(J) + Len(R) : NowAt(J, << >>, R, p) = TextAt(q, T, Origin(p, keep, Gap(J, << >>, R, T, n)))
    BY <1>3 DEF Complete, Same
  <2> QED BY <1>3, <1>4, <1>5, <2>1 DEF Same
<1>7. Bounded(<< >>, << >>, K, T, n, keep)
  BY <1>3, <1>4 DEF Complete, Bounded
<1> QED BY <1>6, <1>7 DEF Complete, K

(* A new sequence: part of its prompt is in the slot, the rest to come. *)
LEMMA CompleteLoad ==
    ASSUME Ready, NEW q, NEW U, NEW T \in Seq(U), Len(T) <= NumCtx, NEW past \in 0 .. Len(T), NEW keep \in Nat
    PROVE  Complete(q, SubSeq(T, 1, past), << >>, SubSeq(T, past + 1, Len(T)), T, 0, keep)
<1> DEFINE I == SubSeq(T, 1, past)
           R == SubSeq(T, past + 1, Len(T))
<1>1. Len(T) \in Nat /\ past \in Nat /\ past <= Len(T) /\ Len(<< >>) = 0
  OBVIOUS
<1>2. Len(I) = past /\ \A p \in 1 .. past : I[p] = T[p]
  BY <1>1, PartIs
<1>3. Len(R) = Len(T) - past /\ \A p \in 1 .. Len(T) - past : R[p] = T[past + p]
  BY <1>1, PartIs
<1> HIDE DEF I, R
<1>4. NowLen(I, << >>, R) = Len(T)
  <2>1. NowLen(I, << >>, R) = past + 0 + (Len(T) - past)
    BY <1>1, <1>2, <1>3 DEF NowLen
  <2> QED BY <1>1, <2>1
<1>5. Gap(I, << >>, R, T, 0) = 0
  <2>1. Gap(I, << >>, R, T, 0) = Len(T) + 0 - Len(T)
    BY <1>4 DEF Gap
  <2> QED BY <1>1, <2>1
<1>6. ASSUME NEW p \in 1 .. Len(T) PROVE NowAt(I, << >>, R, p) = TextAt(q, T, Origin(p, keep, 0))
  <2>0. p \in Nat /\ p >= 1 /\ p <= Len(T)
    BY <1>1
  <2>1. Origin(p, keep, 0) = p
    BY <2>0 DEF Origin
  <2>2. TextAt(q, T, p) = T[p]
    BY <2>0 DEF TextAt
  <2>3. CASE p <= past
    <3>1. NowAt(I, << >>, R, p) = I[p] /\ p \in 1 .. past
      BY <1>1, <1>2, <2>0, <2>3 DEF NowAt
    <3> QED BY <1>2, <2>1, <2>2, <3>1
  <2>4. CASE p > past
    <3>1. /\ ~(p <= past) /\ ~(p <= past + 0)
          /\ p - past - 0 \in 1 .. Len(T) - past /\ past + (p - past - 0) = p
      BY <1>1, <2>0, <2>4
    <3>2. NowAt(I, << >>, R, p) = R[p - past - 0]
      BY <1>1, <1>2, <3>1 DEF NowAt
    <3>3. R[p - past - 0] = T[past + (p - past - 0)]
      BY <1>3, <3>1
    <3> QED BY <2>1, <2>2, <3>1, <3>2, <3>3
  <2> QED BY <1>1, <2>0, <2>3, <2>4
<1>7. Same(q, I, << >>, R, T, 0, keep)
  BY <1>4, <1>5, <1>6 DEF Same
<1>8. Bounded(I, << >>, R, T, 0, keep)
  BY <1>4, <1>5 DEF Bounded
<1> QED BY <1>7, <1>8 DEF Complete, I, R

-----------------------------------------------------------------------------
(* Free cells *)

UpTo(F, c) == {d \in F : d <= c}

(* The j-th element of a finite set of numbers *)
LEMMA NthIs ==
    ASSUME NEW n \in Nat, NEW F \in SUBSET (1 .. n), NEW j \in Nat, 1 <= j, j <= Cardinality(F)
    PROVE  \E c \in F : Cardinality(UpTo(F, c)) = j
<1> DEFINE Low(m) == {d \in F : d <= m}
           T == {m \in 0 .. n : Cardinality(Low(m)) >= j}
<1>1. IsFiniteSet(F)
  <2>1. IsFiniteSet(1 .. n)
    BY FS_Interval
  <2> QED BY <2>1, FS_Subset
<1>2. \A m : IsFiniteSet(Low(m)) /\ Cardinality(Low(m)) \in Nat
  <2>1. \A m : Low(m) \in SUBSET F
    OBVIOUS
  <2> HIDE DEF Low
  <2> QED BY <1>1, <2>1, FS_Subset, FS_CardinalityType
<1>0. \A d \in F : d \in Int /\ 1 <= d /\ d <= n
  OBVIOUS
<1>3. n \in T
  <2>1. Low(n) = F
    BY <1>0
  <2> HIDE DEF Low
  <2>2. Cardinality(Low(n)) >= j /\ n \in 0 .. n
    BY <2>1
  <2> QED BY <2>2
<1>4. PICK c \in T : \A m \in T : c <= m
  <2> HIDE DEF Low
  <2>1. T \in SUBSET Nat /\ T # {}
    BY <1>3
  <2> HIDE DEF T
  <2> QED BY <2>1, LeastNatural
<1>5. c \in 0 .. n /\ Cardinality(Low(c)) >= j
  <2> HIDE DEF Low
  <2> QED BY <1>4
<1>6. c # 0
  <2> SUFFICES ASSUME c = 0 PROVE FALSE
    OBVIOUS
  <2>1. \A d \in F : ~(d <= 0)
    BY <1>0
  <2>2. Low(0) = {}
    BY <2>1
  <2> HIDE DEF Low
  <2>3. Cardinality(Low(0)) = 0
    BY <2>2, FS_EmptySet
  <2> QED BY <1>5, <2>3
<1>7. c - 1 \in 0 .. n /\ Cardinality(Low(c - 1)) < j
  <2>1. c - 1 \in 0 .. n /\ ~(c <= c - 1)
    BY <1>5, <1>6
  <2>2. c - 1 \notin T
    <3> HIDE DEF T
    <3> QED BY <1>4, <2>1
  <2> HIDE DEF Low
  <2> QED BY <1>2, <2>1, <2>2
<1>8. c \in F
  <2> SUFFICES ASSUME c \notin F PROVE FALSE
    OBVIOUS
  <2>0. \A d \in F : d <= c <=> d <= c - 1
    BY <1>0, <1>5
  <2>1. Low(c) = Low(c - 1)
    BY <2>0
  <2> HIDE DEF Low
  <2> QED BY <1>2, <1>5, <1>7, <2>1
<1>9. Low(c) = Low(c - 1) \cup {c} /\ c \notin Low(c - 1)
  <2>1. \A d \in F : d <= c <=> d <= c - 1 \/ d = c
    BY <1>0, <1>5
  <2>2. ~(c <= c - 1)
    BY <1>5
  <2> QED BY <1>8, <2>1, <2>2
<1>10. Cardinality(Low(c)) = Cardinality(Low(c - 1)) + 1
  <2> HIDE DEF Low
  <2> QED BY <1>2, <1>9, FS_AddElement
<1>11. Cardinality(Low(c)) = j
  <2> HIDE DEF Low
  <2> QED BY <1>2, <1>5, <1>7, <1>10
<1> QED BY <1>8, <1>11 DEF UpTo

(* A sequence has at most as many elements as it is long. *)
LEMMA RangeIs ==
    ASSUME NEW S, NEW s \in Seq(S)
    PROVE  IsFiniteSet(Range(s)) /\ Cardinality(Range(s)) \in Nat /\ Cardinality(Range(s)) <= Len(s)
           /\ Range(s) \subseteq S
<1>1. Len(s) \in Nat /\ DOMAIN s = 1 .. Len(s) /\ s \in [1 .. Len(s) -> S]
  OBVIOUS
<1>2. Range(s) \subseteq S /\ s \in Surjection(1 .. Len(s), Range(s))
  BY <1>1 DEF Range, Surjection
<1>3. IsFiniteSet(1 .. Len(s)) /\ Cardinality(1 .. Len(s)) = Len(s)
  BY <1>1, FS_Interval
<1>4. IsFiniteSet(Range(s)) /\ Cardinality(Range(s)) <= Len(s)
  BY <1>2, <1>3, FS_Surjection
<1> QED BY <1>2, <1>4, FS_CardinalityType

(* The slots but one own at most a full context each. *)
LEMMA OthersFew ==
    ASSUME Ready, NEW x \in SrvType, \A t \in Idx : Len(x.kv[t]) <= NumCtx, NEW s \in Idx,
           NEW O, O = UNION {Range(x.kv[t]) : t \in Idx \ {s}}
    PROVE  IsFiniteSet(O) /\ Cardinality(O) \in Nat /\ Cardinality(O) <= Parallel * NumCtx - NumCtx
<1> DEFINE U(m) == UNION {Range(x.kv[t]) : t \in (0 .. m - 1) \ {s}}
           B(m) == IF m > s THEN m * NumCtx - NumCtx ELSE m * NumCtx
           Fine(m) == IsFiniteSet(U(m)) /\ Cardinality(U(m)) <= B(m)
           T == {m \in 0 .. Parallel : ~Fine(m)}
<1>1. Parallel \in Nat \ {0} /\ NumCtx \in Nat \ {0} /\ Idx = 0 .. Parallel - 1
  BY Numbers DEF Idx
<1>2. \A t \in Idx : IsFiniteSet(Range(x.kv[t])) /\ Cardinality(Range(x.kv[t])) \in Nat
                     /\ Cardinality(Range(x.kv[t])) <= NumCtx
  <2> SUFFICES ASSUME NEW t \in Idx
               PROVE  IsFiniteSet(Range(x.kv[t])) /\ Cardinality(Range(x.kv[t])) \in Nat
                      /\ Cardinality(Range(x.kv[t])) <= NumCtx
    OBVIOUS
  <2>1. x.kv[t] \in Seq(CellIds) /\ Len(x.kv[t]) \in Nat
    BY DEF SrvType
  <2>2. Len(x.kv[t]) <= NumCtx
    OBVIOUS
  <2> QED BY <1>1, <2>1, <2>2, RangeIs
<1>3. T = {}
  <2> SUFFICES ASSUME T # {} PROVE FALSE
    OBVIOUS
  <2>1. PICK m \in T : \A k \in T : m <= k
    <3>1. T \in SUBSET Nat
      OBVIOUS
    <3> HIDE DEF T
    <3> QED BY <3>1, LeastNatural
  <2>2. m \in 0 .. Parallel /\ ~Fine(m)
    BY <2>1
  <2>3. m # 0
    <3> SUFFICES ASSUME m = 0 PROVE FALSE
      OBVIOUS
    <3>0. 0 .. 0 - 1 = {}
      OBVIOUS
    <3>1. U(0) = {}
      BY <3>0
    <3>2. B(0) = 0
      <4>1. 0 * NumCtx = 0 /\ ~(0 > s)
        BY <1>1
      <4> QED BY <4>1
    <3>3. Fine(0)
      <4> HIDE DEF U, B
      <4>1. IsFiniteSet(U(0)) /\ Cardinality(U(0)) = 0
        BY <3>1, FS_EmptySet
      <4>2. Cardinality(U(0)) <= B(0)
        BY <3>2, <4>1
      <4> QED BY <4>1, <4>2
    <3> QED BY <2>2, <3>3
  <2> DEFINE k == m - 1
  <2>4. k \in 0 .. Parallel /\ k \in Idx /\ m = k + 1 /\ ~(m <= k) /\ k \in Nat
    BY <1>1, <2>2, <2>3
  <2>5. Fine(k)
    <3>1. k \notin T
      <4> HIDE DEF T, k
      <4> QED BY <2>1, <2>4
    <3> QED BY <2>4, <3>1
  <2>6. Cardinality(U(k)) \in Nat
    BY <2>5, FS_CardinalityType
  <2> HIDE DEF k
  <2>7. (0 .. m - 1) = (0 .. k - 1) \cup {k}
    BY <2>4
  <2>8. m * NumCtx = k * NumCtx + NumCtx /\ k * NumCtx \in Nat
    BY <1>1, <2>4
  <2>9. CASE k = s
    <3>1. U(m) = U(k)
      BY <2>7, <2>9
    <3>2. B(m) = B(k)
      BY <1>1, <2>4, <2>8, <2>9
    <3> HIDE DEF U, B
    <3> QED BY <2>2, <2>5, <3>1, <3>2
  <2>10. CASE k # s
    <3>1. U(m) = U(k) \cup Range(x.kv[k])
      BY <2>7, <2>10
    <3>2. B(m) = B(k) + NumCtx
      BY <1>1, <2>4, <2>8, <2>10
    <3>3. B(k) \in Int
      BY <1>1, <2>4, <2>8
    <3> HIDE DEF U, B
    <3>4. IsFiniteSet(U(m)) /\ Cardinality(U(m)) <= Cardinality(U(k)) + Cardinality(Range(x.kv[k]))
          /\ Cardinality(U(m)) \in Nat
      <4>1. IsFiniteSet(U(m))
        BY <1>2, <2>4, <2>5, <3>1, FS_Union
      <4>2. Cardinality(U(m)) = Cardinality(U(k)) + Cardinality(Range(x.kv[k])) - Cardinality(U(k) \cap Range(x.kv[k]))
        BY <1>2, <2>4, <2>5, <3>1, FS_Union
      <4>3. Cardinality(U(k) \cap Range(x.kv[k])) \in Nat
        BY <2>5, FS_Intersection, FS_CardinalityType
      <4> QED BY <1>2, <2>4, <2>6, <4>1, <4>2, <4>3, FS_CardinalityType
    <3>5. Cardinality(U(m)) <= B(m)
      BY <1>1, <1>2, <2>4, <2>5, <2>6, <3>2, <3>3, <3>4
    <3> QED BY <2>2, <3>4, <3>5
  <2> QED BY <2>9, <2>10
<1>4. Fine(Parallel)
  <2> HIDE DEF Fine
  <2>1. Parallel \in 0 .. Parallel /\ Parallel \notin T
    BY <1>1, <1>3
  <2> QED BY <2>1
<1>5. U(Parallel) = O /\ B(Parallel) = Parallel * NumCtx - NumCtx
  BY <1>1
<1> HIDE DEF U, B
<1> QED BY <1>4, <1>5, FS_CardinalityType


\* The first take elements of new are different cells that no slot owns.
Unowned(x, new, take) ==
    /\ \A j \in 1 .. take : new[j] \notin Owned(x)
    /\ \A j, k \in 1 .. take : new[j] = new[k] => j = k

(* The cells for the inputs that are added to a batch: as many as fit into *)
(* the batch and the context, and there are as many free ones.             *)
LEMMA FreshIs ==
    ASSUME Ready, NEW a, a.x \in SrvType, \A t \in Idx : Len(a.x.kv[t]) <= NumCtx,
           NEW r \in SeqType, NEW n \in Nat, n = Len(a.ins), n <= BatchSize,
           NEW l \in Nat, l = Len(a.x.slots[r.slot].Inputs), l <= NumCtx, Len(a.x.kv[r.slot]) = l,
           NEW m \in Nat, m = Len(r.inputs)
    PROVE  \E take \in 0 .. m :
              /\ Fresh(a, r) \in Seq(CellIds) /\ Len(Fresh(a, r)) = take /\ Unowned(a.x, Fresh(a, r), take)
              /\ n + take <= BatchSize /\ l + take <= NumCtx
<1> DEFINE free == CellIds \ Owned(a.x)
           W == {Len(r.inputs), BatchSize - Len(a.ins), NumCtx - Len(a.x.slots[r.slot].Inputs)}
           take == Min(W)
           s == r.slot
           O == UNION {Range(a.x.kv[t]) : t \in Idx \ {s}}
           K == Range(a.x.kv[s])
<1>1. Parallel \in Nat \ {0} /\ NumCtx \in Nat \ {0} /\ BatchSize \in Nat
  BY Numbers
<1>2. W = {m, BatchSize - n, NumCtx - l}
  OBVIOUS
<1>3. take \in 0 .. m /\ n + take <= BatchSize /\ l + take <= NumCtx
  <2> HIDE DEF W
  <2>1. W \in SUBSET Nat /\ W # {}
    BY <1>1, <1>2
  <2>2. Min(W) \in W /\ \A w \in W : Min(W) <= w
    BY <2>1, MinIs
  <2>3. take \in Nat /\ take <= m /\ take <= BatchSize - n /\ take <= NumCtx - l
    BY <1>2, <2>1, <2>2
  <2> HIDE DEF take
  <2>4. \A t \in Nat : t <= m /\ t <= BatchSize - n /\ t <= NumCtx - l =>
           t \in 0 .. m /\ n + t <= BatchSize /\ l + t <= NumCtx
    BY <1>1
  <2> QED BY ONLY <2>3, <2>4
<1>4. s \in Idx /\ a.x.kv[s] \in Seq(CellIds)
  BY DEF SeqType, SrvType
<1>5. IsFiniteSet(O) /\ Cardinality(O) \in Nat /\ Cardinality(O) <= Parallel * NumCtx - NumCtx
  BY <1>4, OthersFew
<1>6. IsFiniteSet(K) /\ Cardinality(K) \in Nat /\ Cardinality(K) <= l
  BY <1>4, RangeIs
<1>7. Owned(a.x) = O \cup K
  BY <1>4 DEF Owned
<1> HIDE DEF O, K
<1>8. IsFiniteSet(Owned(a.x)) /\ Cardinality(Owned(a.x)) \in Nat
      /\ Cardinality(Owned(a.x)) <= Parallel * NumCtx - NumCtx + l
  <2>1. Parallel * NumCtx \in Nat
    BY <1>1
  <2>2. IsFiniteSet(O \cup K) /\ Cardinality(O \cup K) = Cardinality(O) + Cardinality(K) - Cardinality(O \cap K)
    BY <1>5, <1>6, FS_Union
  <2>3. Cardinality(O \cap K) \in Nat /\ Cardinality(O \cup K) \in Nat
    BY <1>5, <2>2, FS_Intersection, FS_CardinalityType
  <2>4. \A c, d, e, g, h, k \in Nat : c <= h - k /\ d <= l /\ g = c + d - e => g <= h - k + l
    OBVIOUS
  <2>5. Cardinality(O \cup K) <= Parallel * NumCtx - NumCtx + l
    BY <1>1, <1>5, <1>6, <2>1, <2>2, <2>3, <2>4
  <2> QED BY <1>7, <2>2, <2>3, <2>5
<1>9. IsFiniteSet(CellIds) /\ Cardinality(CellIds) = Parallel * NumCtx /\ Parallel * NumCtx \in Nat
  <2>1. Parallel * NumCtx \in Nat
    BY <1>1
  <2>2. IsFiniteSet(1 .. Parallel * NumCtx) /\ Cardinality(1 .. Parallel * NumCtx) = Parallel * NumCtx
    <3> DEFINE N == Parallel * NumCtx
    <3> HIDE DEF N
    <3>1. N \in Nat
      BY <2>1 DEF N
    <3>2. N \in Int /\ 1 \in Int
      BY <3>1
    <3>3. IsFiniteSet(1 .. N) /\ Cardinality(1 .. N) = IF 1 > N THEN 0 ELSE N - 1 + 1
      BY ONLY <3>2, FS_Interval
    <3>4. IsFiniteSet(1 .. N) /\ Cardinality(1 .. N) = N
      BY <3>1, <3>3
    <3> QED BY <3>4 DEF N
  <2> QED BY <2>1, <2>2 DEF CellIds
<1>10. Cardinality(free) \in Nat /\ Cardinality(free) >= NumCtx - l
  <2>1. IsFiniteSet(free) /\ Cardinality(free) = Cardinality(CellIds) - Cardinality(CellIds \cap Owned(a.x))
    BY <1>9, FS_Difference
  <2>2. Cardinality(CellIds \cap Owned(a.x)) \in Nat /\ Cardinality(CellIds \cap Owned(a.x)) <= Cardinality(Owned(a.x))
    <3>1. CellIds \cap Owned(a.x) \subseteq Owned(a.x)
      OBVIOUS
    <3> QED BY <1>8, <3>1, FS_Subset, FS_CardinalityType
  <2>3. Cardinality(free) \in Nat
    BY <2>1, FS_CardinalityType

  <2>5. Cardinality(free) >= NumCtx - l
    <3> DEFINE N == Parallel * NumCtx
               f == Cardinality(free)
               e == Cardinality(Owned(a.x))
               d == Cardinality(CellIds \cap Owned(a.x))
    <3>1. N \in Nat /\ f = N - d /\ d <= e /\ e <= N - NumCtx + l /\ f \in Nat /\ e \in Nat /\ d \in Nat /\ NumCtx \in Nat
      BY <1>1, <1>8, <1>9, <2>1, <2>2, <2>3
    <3> HIDE DEF N, f, e, d
    <3>2. f >= NumCtx - l
      BY ONLY <3>1, l \in Nat
    <3> QED BY <3>2 DEF f
  <2> QED BY <2>3, <2>5
<1>11. free \in SUBSET (1 .. Parallel * NumCtx)
  BY DEF CellIds
<1>12. Fresh(a, r) = [j \in 1 .. take |-> CHOOSE c \in free : Cardinality({d \in free : d <= c}) = j]
  BY DEF Fresh
<1> HIDE DEF take, free
<1> DEFINE Nth(j) == CHOOSE c \in free : Cardinality({d \in free : d <= c}) = j
<1>13. \A j \in 1 .. take : Nth(j) \in free /\ Cardinality({d \in free : d <= Nth(j)}) = j
  <2> SUFFICES ASSUME NEW j \in 1 .. take
               PROVE  Nth(j) \in free /\ Cardinality({d \in free : d <= Nth(j)}) = j
    OBVIOUS
  <2>1. j \in Nat /\ 1 <= j /\ j <= Cardinality(free)
    <3>1. \A t, c, w \in Nat : l + t <= w /\ c >= w - l /\ j \in 1 .. t => j \in Nat /\ 1 <= j /\ j <= c
      BY ONLY l \in Nat
    <3>2. take \in Nat /\ NumCtx \in Nat
      BY ONLY <1>1, <1>3, m \in Nat
    <3> QED BY ONLY <1>3, <1>10, <3>1, <3>2, j \in 1 .. take
  <2>2. \E c \in free : Cardinality({d \in free : d <= c}) = j
    <3> DEFINE N == Parallel * NumCtx
    <3>1. N \in Nat /\ free \in SUBSET (1 .. N)
      BY <1>9, <1>11
    <3> HIDE DEF N
    <3>2. PICK c \in free : Cardinality(UpTo(free, c)) = j
      BY <2>1, <3>1, NthIs
    <3> QED BY <3>2 DEF UpTo
  <2> QED BY <2>2
<1>14. Fresh(a, r) \in Seq(CellIds) /\ Len(Fresh(a, r)) = take
  <2>1. free \subseteq CellIds
    BY DEF free
  <2>2. take \in Nat
    BY <1>3
  <2>3. \A f \in [1 .. take -> CellIds] : f \in Seq(CellIds) /\ Len(f) = take
    BY <2>2
  <2>4. Fresh(a, r) \in [1 .. take -> CellIds]
    BY <1>12, <1>13, <2>1
  <2> QED BY <2>3, <2>4
<1>15. Unowned(a.x, Fresh(a, r), take)
  <2>1. \A j \in 1 .. take : Fresh(a, r)[j] = Nth(j)
    BY <1>12
  <2> HIDE DEF Nth
  <2>2. \A j \in 1 .. take : Fresh(a, r)[j] \notin Owned(a.x)
    BY <1>13, <2>1 DEF free
  <2>3. \A j, k \in 1 .. take : Nth(j) = Nth(k) => j = k
    BY Zenon, <1>13
  <2> QED BY Zenon, <2>1, <2>2, <2>3 DEF Unowned
<1> QED BY <1>3, <1>14, <1>15

-----------------------------------------------------------------------------
(* A step of one sequence *)

\* The state x after the sequence at the place i has become r, its slot has
\* the inputs I in the cells K, and the cells and tokens are c and k.
Updated(x, i, r, I, K, c, k) ==
    [x EXCEPT !.seq = [x.seq EXCEPT ![x.seqs[i]] = r],
              !.slots = [x.slots EXCEPT ![r.slot] = [x.slots[r.slot] EXCEPT !.Inputs = I]],
              !.kv = [x.kv EXCEPT ![r.slot] = K], !.cell = c, !.tok = k]

Updates(x, i, r, I, K, c, k) ==
    /\ Almost(x, i) /\ Used(x, i) /\ r \in SeqType /\ r.slot = Who(x, i).slot
    /\ I \in Seq(InputSet) /\ K \in Seq(CellIds) /\ Len(I) <= Len(K) /\ Len(K) <= NumCtx
    /\ c \in [CellIds -> Keys] /\ k \in [Req -> Seq(TokVals)]

\* The accumulator b is a after such a step.
Becomes(a, b, i, r, I, K, c) ==
    Updates(a.x, i, r, I, K, c, a.x.tok) /\ b.x = Updated(a.x, i, r, I, K, c, a.x.tok)

(* Such a step keeps the invariant, if it does for that sequence. *)
LEMMA UpdateSound ==
    ASSUME Ready, NEW x, NEW i \in Idx, NEW r, NEW I, NEW K, NEW c, NEW k, Updates(x, i, r, I, K, c, k),
           NEW y, y = Updated(x, i, r, I, K, c, k)
    PROVE  /\ Almost(y, i) /\ y.seqs = x.seqs /\ Used(y, i) /\ Who(y, i) = r /\ Inp(y, i) = I /\ y.kv[r.slot] = K
           /\ \A j \in Idx : Used(x, j) /\ j # i => Who(y, j) = Who(x, j)
           /\ Len(K) = Len(I) + Len(r.pending) /\ Whole(x.seqs[i], r, I) => Sound(y)
<1> DEFINE q == x.seqs[i]
           s == r.slot
           u == [x.slots[s] EXCEPT !.Inputs = I]
<1> USE DEF Updates
<1>1. x \in SrvType /\ \A p \in Req : Len(x.ch[p]) <= RespCap
  BY DEF Almost
<1>2. q \in Req /\ s \in Idx
  BY <1>1 DEF SrvType, SeqType, Used
<1>3. u \in SlotType /\ u.Inputs = I /\ u.InUse = x.slots[s].InUse
  BY <1>1, <1>2 DEF SrvType, SlotType
<1>4. y = [x EXCEPT !.seq = [x.seq EXCEPT ![q] = r], !.slots = [x.slots EXCEPT ![s] = u],
                    !.kv = [x.kv EXCEPT ![s] = K], !.cell = c, !.tok = k]
  BY DEF Updated
<1> HIDE DEF u
<1>5. /\ [x.seq EXCEPT ![q] = r] \in [Req -> SeqType] /\ [x.slots EXCEPT ![s] = u] \in [Idx -> SlotType]
      /\ [x.kv EXCEPT ![s] = K] \in [Idx -> Seq(CellIds)]
  BY <1>1, <1>2, <1>3 DEF SrvType
<1>6. /\ y \in SrvType /\ y.seq = [x.seq EXCEPT ![q] = r] /\ y.slots = [x.slots EXCEPT ![s] = u]
      /\ y.kv = [x.kv EXCEPT ![s] = K] /\ y.seqs = x.seqs /\ y.sem = x.sem /\ y.lru = x.lru /\ y.ch = x.ch
  BY Zenon, <1>1, <1>4, <1>5 DEF SrvType
<1>7. y.seq[q] = r /\ y.slots[s] = u /\ y.kv[s] = K
  BY <1>1, <1>2, <1>6 DEF SrvType
<1>8. /\ \A p \in Req \ {q} : y.seq[p] = x.seq[p]
      /\ \A t \in Idx \ {s} : y.slots[t] = x.slots[t] /\ y.kv[t] = x.kv[t]
  BY <1>1, <1>6 DEF SrvType
<1>9. Used(y, i) /\ Who(y, i) = r /\ Inp(y, i) = I
  BY <1>3, <1>6, <1>7 DEF Used, Who, Inp
<1>10. Touched(x, y, i)
  BY <1>1, <1>3, <1>6, <1>7, <1>8, <1>9 DEF Touched
<1>11. Fits(y, s)
  BY <1>3, <1>7 DEF Fits
<1>12. Almost(y, i)
  BY <1>10, <1>11, TouchedAlmost
<1>13. ASSUME NEW j \in Idx, Used(x, j), j # i PROVE Who(y, j) = Who(x, j)
  <2>1. x.seqs[j] \in Req \ {q}
    <3>1. x.seqs[j] # x.seqs[i]
      BY <1>13 DEF Almost, Placed, Seated
    <3> QED BY <1>1, <1>13, <3>1 DEF Used, SrvType
  <2> QED BY <1>6, <1>8, <2>1 DEF Who
<1>14. ASSUME Len(K) = Len(I) + Len(r.pending), Whole(x.seqs[i], r, I) PROVE Sound(y)
  <2>1. Cached(y, i)
    BY <1>7, <1>9, <1>14 DEF Cached
  <2>2. Whole(y.seqs[i], Who(y, i), Inp(y, i))
    BY <1>6, <1>9, <1>14
  <2> QED BY <1>12, <2>1, <2>2, SoundIsAlmost
<1> QED BY <1>6, <1>7, <1>9, <1>12, <1>13, <1>14

(* The order of the slots, the cells and the tokens do not matter to it. *)
LEMMA SoundOfSame ==
    ASSUME NEW x, NEW y \in SrvType, Sound(x), y.seqs = x.seqs, y.seq = x.seq, y.slots = x.slots, y.lru = x.lru,
           y.kv = x.kv, y.sem = x.sem, y.ch = x.ch
    PROVE  Sound(y)
<1>1. \A i \in Idx : /\ Used(y, i) <=> Used(x, i)
                     /\ Who(y, i) = Who(x, i) /\ Inp(y, i) = Inp(x, i) /\ Cached(y, i) = Cached(x, i)
  BY DEF Used, Who, Inp, Cached
<1>2. Placed(y)
  <2>1. Seated(y)
    BY <1>1 DEF Sound, Placed, Seated
  <2>2. Slotted(y)
    BY <1>1 DEF Sound, Placed, Slotted
  <2>3. Listed(y) /\ Counted(y) /\ Queued(y)
    BY DEF Sound, Placed, Listed, Counted, Free, Queued
  <2> QED BY <2>1, <2>2, <2>3 DEF Placed
<1>3. Filled(y)
  BY <1>1 DEF Sound, Filled, Fits
<1> QED BY <1>2, <1>3 DEF Sound

(* ShiftDiscard of a full slot is at least one input behind those to keep. *)
LEMMA DiscardIs ==
    ASSUME Ready, NEW x, NEW s, NEW keep \in 0 .. NumCtx - 1, Len(x.slots[s].Inputs) = NumCtx
    PROVE  ShiftDiscard(x, s, keep) \in Nat /\ 1 <= ShiftDiscard(x, s, keep)
           /\ keep + ShiftDiscard(x, s, keep) <= NumCtx
<1> DEFINE h == (NumCtx - keep) \div 2
           m == Max({h, 1})
<1>1. NumCtx \in Nat /\ keep \in Nat /\ keep < NumCtx
  BY Numbers
<1>2. h \in Nat /\ h <= NumCtx - keep
  BY <1>1
<1> HIDE DEF h
<1>3. m \in {h, 1} /\ \A e \in {h, 1} : e <= m
  <2>1. {h, 1} \in SUBSET (0 .. h + 1) /\ {h, 1} # {} /\ h + 1 \in Nat
    BY <1>2
  <2> QED BY ONLY <2>1, MaxIs
<1>4. m \in Nat /\ 1 <= m /\ keep + m <= NumCtx
  BY <1>1, <1>2, <1>3
<1> HIDE DEF m
<1>5. Max({m, 0}) \in {m, 0} /\ \A e \in {m, 0} : e <= Max({m, 0})
  <2>1. {m, 0} \in SUBSET (0 .. m) /\ {m, 0} # {}
    BY <1>4
  <2> QED BY ONLY <1>4, <2>1, MaxIs
<1>6. ShiftDiscard(x, s, keep) = Max({m, 0})
  <2>1. ShiftDiscard(x, s, keep) = Max({m - (NumCtx - NumCtx), 0})
    BY DEF ShiftDiscard, m, h
  <2>2. m - (NumCtx - NumCtx) = m
    BY <1>1, <1>4
  <2> QED BY <2>1, <2>2
<1>7. Max({m, 0}) = m
  BY <1>4, <1>5
<1> QED BY <1>4, <1>6, <1>7

-----------------------------------------------------------------------------
(***************************************************************************)
(* forwardBatch.  While the places D are done, a sequence has pending      *)
(* inputs only if it is in the batch, an output if all its inputs are      *)
(* pending, and in the places to come nothing is pending.                  *)
(***************************************************************************)
AccType == [x : SrvType, ins : Seq(Entry), outs : Seq(Pieces), seqs : [Idx -> Req \cup {None}],
            resume : Idx \cup {-1}]
Batched(a, i) == Who(a.x, i).pending # << >> => a.seqs[i] = a.x.seqs[i] /\ a.ins # << >>
Sampled(a, i) ==
    Who(a.x, i).inputs = << >> => Who(a.x, i).pending # << >> /\ Who(a.x, i).iBatch \in 1 .. Len(a.outs)
Waits(a, i) == Who(a.x, i).pending = << >> /\ Who(a.x, i).inputs # << >> /\ a.seqs[i] = a.x.seqs[i]
Going(a, D) ==
    /\ a \in AccType /\ Sound(a.x) /\ Len(a.ins) <= BatchSize
    /\ \A i \in Idx : Used(a.x, i) => Batched(a, i) /\ Sampled(a, i) /\ (i \notin D => Waits(a, i))

(* A step of the place i leaves the others as they are. *)
LEMMA GoesOn ==
    ASSUME NEW a, NEW D, Going(a, D), NEW i \in Idx, NEW b \in AccType, Sound(b.x),
           Len(b.ins) <= BatchSize, Len(a.outs) <= Len(b.outs), b.ins = << >> => a.ins = << >>,
           \A j \in Idx \ {i} : Used(b.x, j) =>
              /\ Used(a.x, j) /\ b.x.seqs[j] = a.x.seqs[j] /\ b.seqs[j] = a.seqs[j]
              /\ Who(b.x, j).inputs = Who(a.x, j).inputs /\ Who(b.x, j).pending = Who(a.x, j).pending
              /\ Who(b.x, j).iBatch = Who(a.x, j).iBatch,
           Used(b.x, i) => Batched(b, i) /\ Sampled(b, i)
    PROVE  Going(b, D \cup {i})
<1>0. Len(a.outs) \in Nat /\ Len(b.outs) \in Nat
  BY DEF Going, AccType
<1>1. ASSUME NEW j \in Idx \ {i}, Used(b.x, j)
      PROVE  Batched(b, j) /\ Sampled(b, j) /\ (j \notin D => Waits(b, j))
  <2>1. Batched(a, j) /\ Sampled(a, j) /\ (j \notin D => Waits(a, j))
    BY <1>1 DEF Going
  <2>2. Batched(b, j)
    BY <1>1, <2>1 DEF Batched
  <2>3. Sampled(b, j)
    BY <1>0, <1>1, <2>1 DEF Sampled
  <2>4. j \notin D => Waits(b, j)
    BY <1>1, <2>1 DEF Waits
  <2> QED BY <2>2, <2>3, <2>4
<1> QED BY <1>1 DEF Going

(* What is known of the sequence of a place to come *)
LEMMA WaitingIs ==
    ASSUME Ready, NEW a, NEW D, Going(a, D), NEW i \in Idx \ D, Used(a.x, i), NEW r, r = Who(a.x, i)
    PROVE  /\ a \in AccType /\ a.x \in SrvType /\ Almost(a.x, i) /\ a.x.seqs[i] \in Req
           /\ r \in SeqType /\ r.slot \in Idx /\ r = a.x.seq[a.x.seqs[i]]
           /\ r.pending = << >> /\ r.inputs # << >> /\ a.seqs[i] = a.x.seqs[i]
           /\ Inp(a.x, i) = a.x.slots[r.slot].Inputs /\ Inp(a.x, i) \in Seq(InputSet)
           /\ a.x.kv[r.slot] \in Seq(CellIds) /\ Len(a.x.kv[r.slot]) = Len(Inp(a.x, i))
           /\ Len(Inp(a.x, i)) \in Nat /\ Len(Inp(a.x, i)) <= NumCtx
           /\ Complete(a.x.seqs[i], Inp(a.x, i), << >>, r.inputs, r.prompt, r.numPredicted, r.numKeep)
<1>1. a \in AccType /\ Sound(a.x) /\ a.x \in SrvType /\ Waits(a, i)
  BY DEF Going, Sound
<1>2. a.x.seqs[i] \in Req /\ r = a.x.seq[a.x.seqs[i]] /\ r \in SeqType /\ r.slot \in Idx
  BY <1>1 DEF Used, Who, SrvType, SeqType
<1>3. Almost(a.x, i) /\ Cached(a.x, i) /\ Whole(a.x.seqs[i], r, Inp(a.x, i))
  BY <1>1, SoundIsAlmost
<1>4. r.pending = << >> /\ r.inputs # << >> /\ a.seqs[i] = a.x.seqs[i]
  BY <1>1 DEF Waits
<1>5. Inp(a.x, i) = a.x.slots[r.slot].Inputs /\ Inp(a.x, i) \in Seq(InputSet) /\ a.x.kv[r.slot] \in Seq(CellIds)
  BY <1>1, <1>2 DEF Inp, SrvType, SlotType
<1>6. Len(Inp(a.x, i)) \in Nat /\ Len(a.x.kv[r.slot]) \in Nat
  <2>1. \A S : \A s \in Seq(S) : Len(s) \in Nat
    OBVIOUS
  <2> QED BY <1>5, <2>1
<1>7. Len(a.x.kv[r.slot]) = Len(Inp(a.x, i))
  <2>1. Len(<< >>) = 0
    OBVIOUS
  <2>2. Len(a.x.kv[r.slot]) = Len(Inp(a.x, i)) + 0
    BY <1>3, <1>4, <2>1 DEF Cached
  <2> QED BY <1>6, <2>2
<1>8. Len(Inp(a.x, i)) <= NumCtx
  <2>1. Fits(a.x, r.slot)
    BY <1>2, <1>3 DEF Almost
  <2> QED BY <1>5, <1>6, <1>7, <2>1, Numbers DEF Fits
<1>9. Complete(a.x.seqs[i], Inp(a.x, i), << >>, r.inputs, r.prompt, r.numPredicted, r.numKeep)
  BY <1>3, <1>4 DEF Whole
<1> QED BY ONLY Zenon, <1>1, <1>2, <1>3, <1>4, <1>5, <1>6, <1>7, <1>8, <1>9

(* A sequence at its limit, or with no room to shift, ends. *)
LEMMA DroppedGoes ==
    ASSUME Ready, NEW a, NEW D, Going(a, D), NEW i \in Idx \ D, Used(a.x, i), NEW b \in Dropped(a, i)
    PROVE  Going(b, D \cup {i})
<1>1. PICK y \in RemoveSequence(a.x, i) : b = [a EXCEPT !.x = y, !.seqs = [a.seqs EXCEPT ![i] = None]]
  BY Zenon DEF Dropped
<1>2. a \in AccType /\ Almost(a.x, i)
  BY WaitingIs
<1>3. /\ Sound(y) /\ y.seqs = [a.x.seqs EXCEPT ![i] = None]
      /\ \A j \in Idx : Used(y, j) => /\ Used(a.x, j) /\ y.seqs[j] = a.x.seqs[j]
                                      /\ Who(y, j).inputs = Who(a.x, j).inputs
                                      /\ Who(y, j).pending = Who(a.x, j).pending
                                      /\ Who(y, j).iBatch = Who(a.x, j).iBatch
  BY <1>2, RemoveSound
<1>4. y \in SrvType /\ [a.seqs EXCEPT ![i] = None] \in [Idx -> Req \cup {None}]
  BY <1>2, <1>3 DEF Sound, AccType
<1>5. b \in AccType /\ b.x = y /\ b.seqs = [a.seqs EXCEPT ![i] = None] /\ b.ins = a.ins /\ b.outs = a.outs
  BY <1>1, <1>2, <1>4 DEF AccType
<1>6. ~Used(y, i)
  BY <1>2, <1>3 DEF Used, AccType, SrvType
<1>7. \A j \in Idx \ {i} : b.seqs[j] = a.seqs[j]
  BY <1>2, <1>5 DEF AccType
<1>8. Len(b.ins) <= BatchSize /\ Len(a.outs) <= Len(b.outs) /\ (b.ins = << >> => a.ins = << >>)
  BY <1>2, <1>5 DEF Going, AccType
<1>9. \A j \in Idx \ {i} : Used(b.x, j) =>
         /\ Used(a.x, j) /\ b.x.seqs[j] = a.x.seqs[j] /\ b.seqs[j] = a.seqs[j]
         /\ Who(b.x, j).inputs = Who(a.x, j).inputs /\ Who(b.x, j).pending = Who(a.x, j).pending
         /\ Who(b.x, j).iBatch = Who(a.x, j).iBatch
  BY <1>3, <1>5, <1>7
<1>10. Sound(b.x) /\ ~Used(b.x, i)
  BY <1>3, <1>5, <1>6
<1>11. b \in AccType /\ (Used(b.x, i) => Batched(b, i) /\ Sampled(b, i)) /\ Going(a, D) /\ i \in Idx
  BY <1>5, <1>10
<1> QED BY ONLY <1>8, <1>9, <1>10, <1>11, GoesOn

(* When the context is full, the rest of the text after a shift is complete *)
(* and fits into the context.                                               *)
LEMMA ShiftIs ==
    ASSUME Ready, NEW a, NEW D, Going(a, D), NEW i \in Idx \ D, Used(a.x, i), NEW r, r = Who(a.x, i),
           Len(a.x.slots[r.slot].Inputs) + 1 > NumCtx,
           NEW d, d = ShiftDiscard(a.x, r.slot, r.numKeep),
           NEW I, I = Inp(a.x, i), NEW J, J = Without(I, r.numKeep, d)
    PROVE  /\ r.numKeep \in Nat /\ d \in Nat /\ 1 <= d /\ Len(I) = NumCtx /\ r.numKeep + d <= NumCtx
           /\ J \in Seq(InputSet) /\ Len(J) = NumCtx - d
           /\ Complete(a.x.seqs[i], J, << >>, r.inputs, r.prompt, r.numPredicted, r.numKeep)
           /\ NowLen(J, << >>, r.inputs) <= NumCtx
<1>1. /\ r \in SeqType /\ r.inputs # << >> /\ I = a.x.slots[r.slot].Inputs /\ I \in Seq(InputSet)
      /\ Len(I) \in Nat /\ Len(I) <= NumCtx
      /\ Complete(a.x.seqs[i], I, << >>, r.inputs, r.prompt, r.numPredicted, r.numKeep)
  BY WaitingIs
<1>2. Len(I) = NumCtx
  BY <1>1, Numbers
<1>3. /\ r.numKeep \in 0 .. NumCtx - 1 /\ r.inputs \in Seq(InputSet) /\ r.prompt \in Seq(Toks)
      /\ r.numPredicted \in Nat /\ r.numKeep \in Nat
  BY <1>1, Numbers DEF SeqType
<1>4. d \in Nat /\ 1 <= d /\ r.numKeep + d <= NumCtx
  BY <1>1, <1>2, <1>3, DiscardIs
<1>5. J \in Seq(InputSet) /\ Len(J) = NumCtx - d
  <2>1. r.numKeep + d <= Len(I)
    BY <1>2, <1>4
  <2>2. \A k, e \in Nat : k + e <= Len(I) => Without(I, k, e) \in Seq(InputSet) /\ Len(Without(I, k, e)) = Len(I) - e
    <3> SUFFICES ASSUME NEW k \in Nat, NEW e \in Nat, k + e <= Len(I)
                 PROVE  Without(I, k, e) \in Seq(InputSet) /\ Len(Without(I, k, e)) = Len(I) - e
      OBVIOUS
    <3>1. I \in Seq(InputSet)
      BY <1>1
    <3> QED BY ONLY <3>1, k + e <= Len(I), k \in Nat, e \in Nat, WithoutIs
  <2>3. Without(I, r.numKeep, d) \in Seq(InputSet) /\ Len(Without(I, r.numKeep, d)) = Len(I) - d
    BY <1>3, <1>4, <2>1, <2>2
  <2> QED BY <1>2, <2>3
<1>6. /\ Complete(a.x.seqs[i], J, << >>, r.inputs, r.prompt, r.numPredicted, r.numKeep)
      /\ NowLen(J, << >>, r.inputs) <= NumCtx
  BY Zenon, <1>1, <1>2, <1>3, <1>4, CompleteShift
<1> QED BY <1>2, <1>3, <1>4, <1>5, <1>6

Leaving(a, i, y) == [a EXCEPT !.x = y, !.seqs = [a.seqs EXCEPT ![i] = None]]
Emptied(x, q, s, J) == [x EXCEPT !.seq[q].inputs = J \o @, !.slots[s].Inputs = << >>, !.kv[s] = << >>]

(* ErrReprocessInputs changes the state under mu and the batch's sequences. *)
LEMMA ReprocessMeans ==
    ASSUME NEW a, a \in AccType, NEW i, NEW q, NEW keep, NEW d, NEW s, s = a.x.seq[q].slot,
           NEW J, J = Without(a.x.slots[s].Inputs, keep, d)
    PROVE  Reprocess(a, i, q, keep, d) = Leaving(a, i, Emptied(a.x, q, s, J))
<1> DEFINE b == [a EXCEPT !.x.seq[q].inputs = J \o @, !.x.slots[s].Inputs = << >>, !.x.kv[s] = << >>,
                          !.seqs[i] = None]
<1>1. Reprocess(a, i, q, keep, d) = b
  BY DEF Reprocess
<1>2. b = Leaving(a, i, Emptied(a.x, q, s, J))
  BY Zenon DEF AccType, SrvType, Emptied, Leaving
<1> QED BY Zenon, <1>1, <1>2

\* The inputs J go before those of r, and the slot is empty.
Returns(a, b, i, r, J) ==
    /\ b.ins = a.ins
    /\ \E t : /\ Becomes(a, b, i, t, << >>, << >>, a.x.cell) /\ t.numPredicted = r.numPredicted
              /\ t.inputs = J \o r.inputs /\ t.pending = << >>

(* A sequence whose inputs are to be computed again *)
LEMMA ReprocessGoes ==
    ASSUME Ready, NEW a, NEW D, Going(a, D), NEW i \in Idx \ D, Used(a.x, i), NEW r, r = Who(a.x, i),
           Len(a.x.slots[r.slot].Inputs) + 1 > NumCtx,
           NEW d, d = ShiftDiscard(a.x, r.slot, r.numKeep),
           NEW b, b = Reprocess(a, i, a.x.seqs[i], r.numKeep, d)
    PROVE  Going(b, D \cup {i}) /\ Returns(a, b, i, r, Without(Inp(a.x, i), r.numKeep, d))
<1> DEFINE q == a.x.seqs[i]
           s == r.slot
           I == Inp(a.x, i)
           J == Without(I, r.numKeep, d)
           t == [r EXCEPT !.inputs = J \o r.inputs]
           y == Updated(a.x, i, t, << >>, << >>, a.x.cell, a.x.tok)
<1>1. /\ a \in AccType /\ a.x \in SrvType /\ Almost(a.x, i) /\ q \in Req /\ r \in SeqType /\ s \in Idx
      /\ r = a.x.seq[q] /\ r.pending = << >> /\ r.inputs # << >> /\ I = a.x.slots[s].Inputs
  BY WaitingIs
<1>2. /\ J \in Seq(InputSet) /\ NowLen(J, << >>, r.inputs) <= NumCtx
      /\ Complete(q, J, << >>, r.inputs, r.prompt, r.numPredicted, r.numKeep)
  BY ShiftIs
<1>3. r.inputs \in Seq(InputSet)
  BY Zenon, <1>1 DEF SeqType
<1> HIDE DEF J
<1>4. J \o r.inputs \in Seq(InputSet) /\ J \o r.inputs # << >>
  <2>1. \A S : \A u, v \in Seq(S) : v # << >> => u \o v \in Seq(S) /\ u \o v # << >>
    OBVIOUS
  <2> QED BY Zenon, <1>1, <1>2, <1>3, <2>1
<1>5. Complete(q, << >>, << >>, J \o r.inputs, r.prompt, r.numPredicted, r.numKeep)
  BY <1>2, <1>3, CompleteAgain
<1>6. /\ t \in SeqType /\ t.slot = s /\ t.pending = << >> /\ t.inputs = J \o r.inputs /\ t.prompt = r.prompt
      /\ t.numPredicted = r.numPredicted /\ t.numKeep = r.numKeep
  BY Zenon, <1>1, <1>4 DEF SeqType
<1> HIDE DEF t
<1>7. Whole(q, t, << >>)
  BY <1>5, <1>6 DEF Whole
<1>8. << >> \in Seq(InputSet) /\ << >> \in Seq(CellIds) /\ Len(<< >>) = 0 /\ 0 <= NumCtx
      /\ a.x.cell \in [CellIds -> Keys] /\ a.x.tok \in [Req -> Seq(TokVals)]
  <2>1. 0 <= NumCtx
    BY Numbers
  <2>2. a.x.cell \in [CellIds -> Keys] /\ a.x.tok \in [Req -> Seq(TokVals)]
    BY Zenon, <1>1 DEF SrvType
  <2> QED BY <2>1, <2>2
<1>9. /\ Sound(y) /\ y.seqs = a.x.seqs /\ Used(y, i) /\ Who(y, i) = t
      /\ \A j \in Idx : Used(a.x, j) /\ j # i => Who(y, j) = Who(a.x, j)
      /\ Updates(a.x, i, t, << >>, << >>, a.x.cell, a.x.tok)
  <2>1. Len(<< >>) = Len(<< >>) + Len(t.pending) /\ Len(<< >>) \in Nat /\ Len(<< >>) <= NumCtx
    BY <1>6, <1>8
  <2>2. t.slot = Who(a.x, i).slot
    BY <1>6
  <2> HIDE DEF q
  <2>3. Whole(a.x.seqs[i], t, << >>)
    BY <1>7 DEF q
  <2> HIDE DEF y
  <2>5. Almost(a.x, i) /\ t \in SeqType
    BY Zenon, <1>1, <1>6
  <2> DEFINE e == << >>
  <2>6. /\ e \in Seq(InputSet) /\ e \in Seq(CellIds) /\ Len(e) \in Nat /\ Len(e) <= NumCtx
        /\ Len(e) = Len(e) + Len(t.pending) /\ Whole(a.x.seqs[i], t, e)
        /\ y = Updated(a.x, i, t, e, e, a.x.cell, a.x.tok)
        /\ a.x.cell \in [CellIds -> Keys] /\ a.x.tok \in [Req -> Seq(TokVals)]
    BY <1>8, <2>1, <2>3 DEF y
  <2> HIDE DEF e
  <2>u. Updates(a.x, i, t, e, e, a.x.cell, a.x.tok)
    BY <2>2, <2>5, <2>6 DEF Updates
  <2>7. i \in Idx
    OBVIOUS
  <2>8. /\ y.seqs = a.x.seqs /\ Used(y, i) /\ Who(y, i) = t
        /\ \A j \in Idx : Used(a.x, j) /\ j # i => Who(y, j) = Who(a.x, j)
        /\ Len(e) = Len(e) + Len(t.pending) /\ Whole(a.x.seqs[i], t, e) => Sound(y)
    BY ONLY Ready, <2>6, <2>7, <2>u, UpdateSound
  <2>9. Updates(a.x, i, t, << >>, << >>, a.x.cell, a.x.tok)
    BY ONLY <2>u DEF e
  <2> QED BY ONLY <2>6, <2>8, <2>9
<1>10. b = [a EXCEPT !.x = y, !.seqs = [a.seqs EXCEPT ![i] = None]]
  <2> DEFINE z == Emptied(a.x, q, s, J)
  <2>1. b = [a EXCEPT !.x = z, !.seqs = [a.seqs EXCEPT ![i] = None]]
    <3>1. Without(a.x.slots[s].Inputs, r.numKeep, d) = J /\ a.x.seq[q].slot = s /\ a \in AccType
      BY Zenon, <1>1 DEF J
    <3>2. Reprocess(a, i, q, r.numKeep, d) = Leaving(a, i, z)
      BY ONLY <3>1, ReprocessMeans
    <3> QED BY <3>2 DEF Leaving
  <2>2. z = y
    BY Zenon, <1>1, <1>6 DEF Updated, t, SrvType, Emptied
  <2> QED BY <2>1, <2>2
<1> HIDE DEF y
<1>11. y \in SrvType /\ [a.seqs EXCEPT ![i] = None] \in [Idx -> Req \cup {None}]
  BY Zenon, <1>1, <1>9 DEF Sound, AccType
<1>12. b \in AccType /\ b.x = y /\ b.seqs = [a.seqs EXCEPT ![i] = None] /\ b.ins = a.ins /\ b.outs = a.outs
  BY Zenon, <1>1, <1>10, <1>11 DEF AccType
<1>a. a \in AccType /\ Len(a.ins) <= BatchSize
  BY DEF Going
<1>13. Len(b.ins) <= BatchSize /\ Len(a.outs) <= Len(b.outs) /\ (b.ins = << >> => a.ins = << >>)
  BY ONLY <1>12, <1>a DEF AccType
<1>14. \A j \in Idx \ {i} : Used(b.x, j) =>
         /\ Used(a.x, j) /\ b.x.seqs[j] = a.x.seqs[j] /\ b.seqs[j] = a.seqs[j]
         /\ Who(b.x, j).inputs = Who(a.x, j).inputs /\ Who(b.x, j).pending = Who(a.x, j).pending
         /\ Who(b.x, j).iBatch = Who(a.x, j).iBatch
  <2>1. \A j \in Idx \ {i} : b.seqs[j] = a.seqs[j]
    BY Zenon, <1>1, <1>12 DEF AccType
  <2>2. \A j \in Idx : Used(b.x, j) <=> Used(a.x, j)
    BY <1>9, <1>12 DEF Used
  <2> QED BY <1>9, <1>12, <2>1, <2>2
<1>15. Batched(b, i) /\ Sampled(b, i) /\ Sound(b.x)
  BY <1>4, <1>6, <1>9, <1>12 DEF Batched, Sampled
<1>16. Going(a, D) /\ i \in Idx
  OBVIOUS
<1>17. Going(b, D \cup {i})
  BY ONLY <1>12, <1>13, <1>14, <1>15, <1>16, GoesOn
<1>18. Becomes(a, b, i, t, << >>, << >>, a.x.cell)
  BY Zenon, <1>9, <1>12 DEF Becomes, y
<1>19. Returns(a, b, i, r, J)
  BY Zenon, <1>6, <1>12, <1>18 DEF Returns
<1> QED BY Zenon, <1>17, <1>19 DEF J

Moved(x, s, J, K) == [x EXCEPT !.slots[s].Inputs = J, !.kv[s] = K]
Carrying(a, y) == [a EXCEPT !.x = y]

(* A shift changes one slot. *)
LEMMA ShiftedMeans ==
    ASSUME NEW a, a \in AccType, NEW s, s \in Idx, NEW keep, NEW d,
           NEW J, J = Without(a.x.slots[s].Inputs, keep, d), NEW K, K = Without(a.x.kv[s], keep, d)
    PROVE  Shifted(a, s, keep, d) = Carrying(a, Moved(a.x, s, J, K))
<1> DEFINE b == [a EXCEPT !.x.slots[s].Inputs = J, !.x.kv[s] = K]
<1>1. Shifted(a, s, keep, d) = b
  BY DEF Shifted, AccType, SrvType
<1>2. b = Carrying(a, Moved(a.x, s, J, K))
  BY DEF AccType, SrvType, Moved, Carrying
<1> QED BY <1>1, <1>2

(* A shift keeps what is known, also of the sequence that is shifted. *)
LEMMA ShiftedGoes ==
    ASSUME Ready, NEW a, NEW D, Going(a, D), NEW i \in Idx \ D, Used(a.x, i), NEW r, r = Who(a.x, i),
           Len(a.x.slots[r.slot].Inputs) + 1 > NumCtx,
           NEW d, d = ShiftDiscard(a.x, r.slot, r.numKeep),
           NEW b, b = Shifted(a, r.slot, r.numKeep, d)
    PROVE  /\ Going(b, D) /\ Used(b.x, i) /\ Who(b.x, i) = r /\ b.x.seqs = a.x.seqs /\ b.ins = a.ins
           /\ Becomes(a, b, i, r, Without(Inp(a.x, i), r.numKeep, d), Without(a.x.kv[r.slot], r.numKeep, d), a.x.cell)
<1> DEFINE q == a.x.seqs[i]
           s == r.slot
           I == Inp(a.x, i)
           J == Without(I, r.numKeep, d)
           K == Without(a.x.kv[s], r.numKeep, d)
           y == Updated(a.x, i, r, J, K, a.x.cell, a.x.tok)
<1>1. /\ a \in AccType /\ a.x \in SrvType /\ Almost(a.x, i) /\ q \in Req /\ r \in SeqType /\ s \in Idx
      /\ r = a.x.seq[q] /\ I = a.x.slots[s].Inputs
  BY WaitingIs
<1>2. r.pending = << >> /\ r.inputs # << >> /\ a.seqs[i] = q
  BY WaitingIs
<1>3. a.x.kv[s] \in Seq(CellIds) /\ Len(a.x.kv[s]) = Len(I)
  BY WaitingIs
<1>4. /\ r.numKeep \in Nat /\ d \in Nat /\ 1 <= d /\ Len(I) = NumCtx /\ r.numKeep + d <= NumCtx
      /\ J \in Seq(InputSet) /\ Len(J) = NumCtx - d
  BY ShiftIs
<1>5. Complete(q, J, << >>, r.inputs, r.prompt, r.numPredicted, r.numKeep)
  BY ShiftIs
<1>6. K \in Seq(CellIds) /\ Len(K) = NumCtx - d
  <2>1. \A u \in Seq(CellIds) : \A k, e \in Nat : k + e <= Len(u) =>
            Without(u, k, e) \in Seq(CellIds) /\ Len(Without(u, k, e)) = Len(u) - e
    <3> SUFFICES ASSUME NEW u \in Seq(CellIds), NEW k \in Nat, NEW e \in Nat, k + e <= Len(u)
                 PROVE  Without(u, k, e) \in Seq(CellIds) /\ Len(Without(u, k, e)) = Len(u) - e
      OBVIOUS
    <3> QED BY ONLY u \in Seq(CellIds), k \in Nat, e \in Nat, k + e <= Len(u), WithoutIs
  <2>2. Len(a.x.kv[s]) = NumCtx
    BY <1>3, <1>4
  <2>3. /\ a.x.kv[s] \in Seq(CellIds) /\ r.numKeep \in Nat /\ d \in Nat
        /\ r.numKeep + d <= Len(a.x.kv[s])
    BY <1>3, <1>4, <2>2
  <2>4. K \in Seq(CellIds) /\ Len(K) = Len(a.x.kv[s]) - d
    BY ONLY <2>1, <2>3
  <2> QED BY <2>2, <2>4
<1> HIDE DEF J, K
<1>7. Whole(q, r, J)
  BY <1>2, <1>5 DEF Whole
<1>8. Len(J) \in Nat /\ Len(J) <= Len(K) /\ Len(K) <= NumCtx /\ Len(K) = Len(J) + Len(r.pending)
  <2>1. NumCtx \in Nat /\ d \in Nat /\ d <= NumCtx
    BY <1>4, Numbers
  <2>2. Len(r.pending) = 0
    BY <1>2
  <2> QED BY <1>4, <1>6, <2>1, <2>2
<1>9. Updates(a.x, i, r, J, K, a.x.cell, a.x.tok)
  <2>1. a.x.cell \in [CellIds -> Keys] /\ a.x.tok \in [Req -> Seq(TokVals)]
    BY Zenon, <1>1 DEF SrvType
  <2> QED BY Zenon, <1>1, <1>4, <1>6, <1>8, <2>1 DEF Updates
<1>10. /\ Sound(y) /\ y.seqs = a.x.seqs /\ Used(y, i) /\ Who(y, i) = r
       /\ \A j \in Idx : Used(a.x, j) /\ j # i => Who(y, j) = Who(a.x, j)
  <2> HIDE DEF y
  <2>1. y = Updated(a.x, i, r, J, K, a.x.cell, a.x.tok)
    BY DEF y
  <2>2. i \in Idx
    OBVIOUS
  <2>3. /\ y.seqs = a.x.seqs /\ Used(y, i) /\ Who(y, i) = r
        /\ \A j \in Idx : Used(a.x, j) /\ j # i => Who(y, j) = Who(a.x, j)
        /\ Len(K) = Len(J) + Len(r.pending) /\ Whole(a.x.seqs[i], r, J) => Sound(y)
    BY ONLY Ready, <1>9, <2>1, <2>2, UpdateSound
  <2> QED BY <1>7, <1>8, <2>3
<1>11. b = Carrying(a, y)
  <2>1. b = Carrying(a, Moved(a.x, s, J, K))
    <3>1. J = Without(a.x.slots[s].Inputs, r.numKeep, d) /\ K = Without(a.x.kv[s], r.numKeep, d)
          /\ a \in AccType /\ s \in Idx
      BY Zenon, <1>1 DEF J, K
    <3>2. Shifted(a, s, r.numKeep, d) = Carrying(a, Moved(a.x, s, J, K))
      BY ONLY <3>1, ShiftedMeans
    <3> QED BY <3>2
  <2>2. Moved(a.x, s, J, K) = y
    <3>1. [a.x.seq EXCEPT ![q] = r] = a.x.seq
      BY Zenon, <1>1 DEF SrvType
    <3> QED BY Zenon, <1>1, <3>1 DEF Updated, SrvType, Moved
  <2> QED BY <2>1, <2>2
<1> HIDE DEF y
<1>12. y \in SrvType
  BY <1>10 DEF Sound
<1>13. b \in AccType /\ b.x = y /\ b.seqs = a.seqs /\ b.ins = a.ins /\ b.outs = a.outs
  BY Zenon, <1>1, <1>11, <1>12 DEF AccType, Carrying
<1>a. a \in AccType /\ Len(a.ins) <= BatchSize
  BY DEF Going
<1>14. Len(b.ins) <= BatchSize /\ Len(a.outs) <= Len(b.outs) /\ (b.ins = << >> => a.ins = << >>)
  BY ONLY <1>13, <1>a DEF AccType
<1>15. \A j \in Idx \ {i} : Used(b.x, j) =>
         /\ Used(a.x, j) /\ b.x.seqs[j] = a.x.seqs[j] /\ b.seqs[j] = a.seqs[j]
         /\ Who(b.x, j).inputs = Who(a.x, j).inputs /\ Who(b.x, j).pending = Who(a.x, j).pending
         /\ Who(b.x, j).iBatch = Who(a.x, j).iBatch
  <2>1. \A j \in Idx : Used(b.x, j) <=> Used(a.x, j)
    BY <1>10, <1>13 DEF Used
  <2> QED BY <1>10, <1>13, <2>1
<1>16. Batched(b, i) /\ Sampled(b, i) /\ Sound(b.x) /\ Waits(b, i)
  BY <1>2, <1>10, <1>13 DEF Batched, Sampled, Waits
<1>17. Going(a, D) /\ i \in Idx /\ b \in AccType
  BY <1>13
<1>18. Going(b, D \cup {i})
  BY ONLY <1>14, <1>15, <1>16, <1>17, GoesOn
<1>19. Going(b, D)
  BY <1>16, <1>18 DEF Going
<1>20. Becomes(a, b, i, r, J, K, a.x.cell)
  BY Zenon, <1>9, <1>13 DEF Becomes, y
<1>21. Used(b.x, i) /\ Who(b.x, i) = r /\ b.x.seqs = a.x.seqs
  BY <1>10, <1>13
<1> QED BY Zenon, <1>13, <1>19, <1>20, <1>21 DEF J, K

NewIns(a, r, new) == a.ins \o [j \in 1 .. Len(new) |-> [inp |-> r.inputs[j], cell |-> new[j]]]
NewOuts(a, q, r, new) == IF Len(new) = Len(r.inputs) THEN Append(a.outs, <<q, r.numPredicted + 1>>) ELSE a.outs
NewResume(a, i, new) == IF Len(new) = 0 /\ a.resume = -1 THEN i ELSE a.resume
NewCells(x, new) == [c \in CellIds |-> IF c \in Range(new) THEN Pending ELSE x.cell[c]]
NewSeq(a, r, new) ==
    [r EXCEPT !.pending = SubSeq(r.inputs, 1, Len(new)),
              !.inputs = SubSeq(r.inputs, Len(new) + 1, Len(r.inputs)),
              !.iBatch = IF Len(new) = 0 THEN r.iBatch ELSE Len(a.outs) + 1]
Taken(x, q, s, t, K, C) == [x EXCEPT !.kv[s] = K, !.cell = C, !.seq[q] = t]
Filling(a, y, N, O, R) == [a EXCEPT !.x = y, !.ins = N, !.outs = O, !.resume = R]

(* Adding inputs to the batch changes the sequence, its slot and the cells. *)
LEMMA FillMeans ==
    ASSUME NEW a, a \in AccType, NEW i, NEW q, NEW new
    PROVE  Fill(a, i, q, new) =
              Filling(a, Taken(a.x, q, a.x.seq[q].slot, NewSeq(a, a.x.seq[q], new),
                               a.x.kv[a.x.seq[q].slot] \o new, NewCells(a.x, new)),
                      NewIns(a, a.x.seq[q], new), NewOuts(a, q, a.x.seq[q], new), NewResume(a, i, new))
<1> DEFINE r == a.x.seq[q]
           s == r.slot
           N == NewIns(a, r, new)
           O == NewOuts(a, q, r, new)
           R == NewResume(a, i, new)
           C == NewCells(a.x, new)
           t == NewSeq(a, r, new)
           K == a.x.kv[s] \o new
           b == [a EXCEPT !.ins = N, !.outs = O, !.resume = R, !.x.kv[s] = K, !.x.cell = C, !.x.seq[q] = t]
<1>1. Fill(a, i, q, new) = b
  BY DEF Fill, NewIns, NewOuts, NewResume, NewCells, NewSeq
<1> HIDE DEF N, O, R, C, t, K
<1>2. b = Filling(a, Taken(a.x, q, s, t, K, C), N, O, R)
  BY Zenon DEF AccType, SrvType, Filling, Taken
<1> QED BY Zenon, <1>1, <1>2 DEF N, O, R, C, t, K
(* Inputs that are added to a batch *)
LEMMA NewInsIs ==
    ASSUME NEW a, a \in AccType, NEW r, r \in SeqType, NEW new, new \in Seq(CellIds),
           NEW take \in Nat, take = Len(new), NEW n \in Nat, n = Len(a.ins), take <= Len(r.inputs)
    PROVE  NewIns(a, r, new) \in Seq(Entry) /\ Len(NewIns(a, r, new)) = n + take
<1> DEFINE e == [j \in 1 .. Len(new) |-> [inp |-> r.inputs[j], cell |-> new[j]]]
<1>1. \A j \in 1 .. take : [inp |-> r.inputs[j], cell |-> new[j]] \in Entry
  <2> SUFFICES ASSUME NEW j \in 1 .. take PROVE [inp |-> r.inputs[j], cell |-> new[j]] \in Entry
    OBVIOUS
  <2>1. r.inputs \in Seq(InputSet)
    BY DEF SeqType
  <2>2. r.inputs[j] \in InputSet
    <3>1. \A s \in Seq(InputSet) : j <= Len(s) => s[j] \in InputSet
      OBVIOUS
    <3>2. j <= Len(r.inputs)
      <4>1. \A m \in Nat : take <= m => j <= m
        OBVIOUS
      <4>2. Len(r.inputs) \in Nat
        BY <2>1
      <4> QED BY <4>1, <4>2
    <3> QED BY <2>1, <3>1, <3>2
  <2>3. new[j] \in CellIds
    OBVIOUS
  <2> QED BY <2>2, <2>3 DEF Entry
<1>2. e = [j \in 1 .. take |-> [inp |-> r.inputs[j], cell |-> new[j]]]
  OBVIOUS
<1>3. e \in [1 .. take -> Entry]
  BY <1>1, <1>2
<1> HIDE DEF e
<1>4. e \in Seq(Entry) /\ Len(e) = take
  BY <1>3
<1>5. a.ins \in Seq(Entry)
  BY DEF AccType
<1>6. a.ins \o e \in Seq(Entry) /\ Len(a.ins \o e) = Len(a.ins) + Len(e)
  <2>1. \A s, t \in Seq(Entry) : s \o t \in Seq(Entry) /\ Len(s \o t) = Len(s) + Len(t)
    OBVIOUS
  <2> QED BY ONLY <1>4, <1>5, <2>1
<1>7. NewIns(a, r, new) = a.ins \o e
  BY DEF NewIns, e
<1> QED BY <1>4, <1>6, <1>7

(* The output that is asked for when all inputs are in the batch *)
LEMMA NewOutsIs ==
    ASSUME NEW a, a \in AccType, NEW r, r \in SeqType, NEW q \in Req, NEW new
    PROVE  /\ NewOuts(a, q, r, new) \in Seq(Pieces) /\ Len(a.outs) <= Len(NewOuts(a, q, r, new))
           /\ Len(a.outs) \in Nat
           /\ Len(new) = Len(r.inputs) => Len(a.outs) + 1 \in 1 .. Len(NewOuts(a, q, r, new))
<1>1. a.outs \in Seq(Pieces) /\ Len(a.outs) \in Nat
  BY DEF AccType
<1>2. <<q, r.numPredicted + 1>> \in Pieces
  BY DEF SeqType, Pieces
<1>3. \A o \in Seq(Pieces) : \A p \in Pieces :
         Append(o, p) \in Seq(Pieces) /\ Len(Append(o, p)) = Len(o) + 1 /\ Len(o) \in Nat
  OBVIOUS
<1>4. CASE Len(new) = Len(r.inputs)
  <2>1. NewOuts(a, q, r, new) = Append(a.outs, <<q, r.numPredicted + 1>>)
    BY <1>4 DEF NewOuts
  <2>2. NewOuts(a, q, r, new) \in Seq(Pieces) /\ Len(NewOuts(a, q, r, new)) = Len(a.outs) + 1
    BY <1>1, <1>2, <1>3, <2>1
  <2> QED BY <1>1, <2>2
<1>5. CASE Len(new) # Len(r.inputs)
  <2>1. NewOuts(a, q, r, new) = a.outs
    BY <1>5 DEF NewOuts
  <2> QED BY <1>1, <1>5, <2>1
<1> QED BY <1>4, <1>5

(* t is r after take of its m inputs went to the batch of a. *)
TakesFrom(a, r, m, take, t) ==
    /\ t \in SeqType /\ t.slot = r.slot /\ t.prompt = r.prompt /\ t.numPredicted = r.numPredicted
    /\ t.numKeep = r.numKeep /\ t.pending = SubSeq(r.inputs, 1, take)
    /\ t.inputs = SubSeq(r.inputs, take + 1, m) /\ Len(t.pending) = take /\ Len(t.inputs) = m - take
    /\ take # 0 => t.iBatch = Len(a.outs) + 1

(* The sequence after some of its inputs have become pending *)
LEMMA NewSeqIs ==
    ASSUME NEW a, a \in AccType, NEW r, r \in SeqType, NEW new, NEW m \in Nat, m = Len(r.inputs),
           NEW take \in 0 .. m, take = Len(new), NEW t, t = NewSeq(a, r, new)
    PROVE  TakesFrom(a, r, m, take, t)
<1> DEFINE P == SubSeq(r.inputs, 1, take)
           R == SubSeq(r.inputs, take + 1, m)
           B == IF take = 0 THEN r.iBatch ELSE Len(a.outs) + 1
<1>1. r.inputs \in Seq(InputSet) /\ r.iBatch \in Nat /\ Len(a.outs) \in Nat
  BY DEF SeqType, AccType
<1>2. \A s \in Seq(InputSet) : Len(s) = m =>
         /\ SubSeq(s, 1, take) \in Seq(InputSet) /\ Len(SubSeq(s, 1, take)) = take
         /\ SubSeq(s, take + 1, m) \in Seq(InputSet) /\ Len(SubSeq(s, take + 1, m)) = m - take
  <2> SUFFICES ASSUME NEW s \in Seq(InputSet), Len(s) = m
               PROVE  /\ SubSeq(s, 1, take) \in Seq(InputSet) /\ Len(SubSeq(s, 1, take)) = take
                      /\ SubSeq(s, take + 1, m) \in Seq(InputSet) /\ Len(SubSeq(s, take + 1, m)) = m - take
    OBVIOUS
  <2>1. SubSeq(s, 1, take) \in Seq(InputSet) /\ Len(SubSeq(s, 1, take)) = take - 1 + 1
    BY PartIs
  <2>2. SubSeq(s, take + 1, m) \in Seq(InputSet) /\ Len(SubSeq(s, take + 1, m)) = m - (take + 1) + 1
    BY PartIs
  <2> QED BY <2>1, <2>2
<1>3. P \in Seq(InputSet) /\ Len(P) = take /\ R \in Seq(InputSet) /\ Len(R) = m - take
  BY <1>1, <1>2
<1>4. B \in Nat
  BY <1>1
<1>5. t = [r EXCEPT !.pending = P, !.inputs = R, !.iBatch = B]
  BY DEF NewSeq
<1> HIDE DEF P, R, B
<1>6. /\ t \in SeqType /\ t.slot = r.slot /\ t.prompt = r.prompt /\ t.numPredicted = r.numPredicted
      /\ t.numKeep = r.numKeep /\ t.pending = P /\ t.inputs = R /\ t.iBatch = B
  BY <1>3, <1>4, <1>5 DEF SeqType
<1> QED BY <1>3, <1>6 DEF P, R, B, TakesFrom

\* The first inputs of r are in the batch, in the cells new.
Fills(a, b, i, r, new) ==
    /\ b.ins = NewIns(a, r, new) /\ new \in Seq(CellIds)
    /\ \E t : \E take \in 0 .. Len(r.inputs) :
          /\ Becomes(a, b, i, t, Inp(a.x, i), a.x.kv[r.slot] \o new, NewCells(a.x, new))
          /\ TakesFrom(a, r, Len(r.inputs), take, t) /\ Len(new) = take /\ Unowned(a.x, new, take)

(* The inputs of a sequence that fit are added to the batch. *)
LEMMA FillGoes ==
    ASSUME Ready, NEW a, NEW D, Going(a, D), NEW i \in Idx \ D, Used(a.x, i), NEW r, r = Who(a.x, i),
           NEW b, b = Fill(a, i, a.x.seqs[i], Fresh(a, r))
    PROVE  Going(b, D \cup {i}) /\ Fills(a, b, i, r, Fresh(a, r))
<1> DEFINE q == a.x.seqs[i]
           s == r.slot
           I == Inp(a.x, i)
           new == Fresh(a, r)
           t == NewSeq(a, r, new)
           K == a.x.kv[s] \o new
           C == NewCells(a.x, new)
           N == NewIns(a, r, new)
           O == NewOuts(a, q, r, new)
           R == NewResume(a, i, new)
           m == Len(r.inputs)
           l == Len(I)
           n == Len(a.ins)
           y == Updated(a.x, i, t, I, K, C, a.x.tok)
<1>1. /\ a \in AccType /\ a.x \in SrvType /\ Almost(a.x, i) /\ q \in Req /\ r \in SeqType /\ s \in Idx
      /\ r = a.x.seq[q] /\ I = a.x.slots[s].Inputs
  BY WaitingIs
<1>2. r.pending = << >> /\ r.inputs # << >> /\ a.seqs[i] = q
  BY WaitingIs
<1>3. a.x.kv[s] \in Seq(CellIds) /\ Len(a.x.kv[s]) = l /\ I \in Seq(InputSet) /\ l \in Nat /\ l <= NumCtx
  BY WaitingIs
<1>4. Complete(q, I, << >>, r.inputs, r.prompt, r.numPredicted, r.numKeep)
  BY WaitingIs
<1>5. m \in Nat /\ m # 0 /\ n \in Nat /\ n <= BatchSize /\ r.inputs \in Seq(InputSet)
  <2>1. r.inputs \in Seq(InputSet) /\ a.ins \in Seq(Entry)
    BY Zenon, <1>1 DEF SeqType, AccType
  <2>2. \A S : \A u \in Seq(S) : Len(u) \in Nat /\ (u # << >> => Len(u) # 0)
    OBVIOUS
  <2>3. n <= BatchSize
    BY DEF Going
  <2> QED BY <1>2, <2>1, <2>2, <2>3
<1> HIDE DEF m, l, n
<1>6. PICK take \in 0 .. m : /\ new \in Seq(CellIds) /\ Len(new) = take /\ Unowned(a.x, new, take)
                             /\ n + take <= BatchSize /\ l + take <= NumCtx
  <2>1. \A p \in Idx : Len(a.x.kv[p]) <= NumCtx
    BY Zenon, <1>1, <1>3 DEF Almost, Fits
  <2>2. n = Len(a.ins) /\ l = Len(a.x.slots[r.slot].Inputs) /\ Len(a.x.kv[r.slot]) = l /\ m = Len(r.inputs)
    BY Zenon, <1>1, <1>3 DEF n, l, m
  <2>3. a.x \in SrvType /\ r \in SeqType /\ n \in Nat /\ l \in Nat /\ m \in Nat /\ n <= BatchSize /\ l <= NumCtx
    BY Zenon, <1>1, <1>3, <1>5
  <2> QED BY ONLY Zenon, Ready, <2>1, <2>2, <2>3, FreshIs
<1> HIDE DEF new
<1>7. /\ t \in SeqType /\ t.slot = s /\ t.prompt = r.prompt /\ t.numPredicted = r.numPredicted
      /\ t.numKeep = r.numKeep /\ t.pending = SubSeq(r.inputs, 1, take)
      /\ t.inputs = SubSeq(r.inputs, take + 1, m) /\ Len(t.pending) = take /\ Len(t.inputs) = m - take
      /\ (take # 0 => t.iBatch = Len(a.outs) + 1) /\ TakesFrom(a, r, m, take, t)
  <2> HIDE DEF t, m, new
  <2>1. t = NewSeq(a, r, new) /\ m = Len(r.inputs) /\ take \in 0 .. m /\ take = Len(new) /\ a \in AccType
        /\ r \in SeqType /\ m \in Nat
    BY Zenon, <1>1, <1>5, <1>6 DEF t, m
  <2>2. TakesFrom(a, r, m, take, t)
    BY ONLY Zenon, <2>1, NewSeqIs
  <2> QED BY ONLY Zenon, <2>2 DEF TakesFrom, s
<1> HIDE DEF t
<1>8. Whole(q, t, I)
  <2>1. Complete(q, I, t.pending, t.inputs, r.prompt, r.numPredicted, r.numKeep)
    <3>1. t.inputs = SubSeq(r.inputs, take + 1, Len(r.inputs)) /\ take \in 0 .. Len(r.inputs)
      BY <1>7 DEF m
    <3> QED BY <1>3, <1>4, <1>5, <1>7, <3>1, CompleteTake
  <2> QED BY <1>7, <2>1 DEF Whole
<1>9. K \in Seq(CellIds) /\ Len(K) = l + take
  <2>1. \A u, v \in Seq(CellIds) : u \o v \in Seq(CellIds) /\ Len(u \o v) = Len(u) + Len(v)
    OBVIOUS
  <2>2. K \in Seq(CellIds) /\ Len(K) = Len(a.x.kv[s]) + Len(new)
    BY ONLY Zenon, <1>3, <1>6, <2>1
  <2> QED BY <1>3, <1>6, <2>2
<1>10. C \in [CellIds -> Keys]
  <2>1. a.x.cell \in [CellIds -> Keys] /\ Pending \in Keys
    BY Zenon, <1>1 DEF SrvType, Keys
  <2> QED BY <2>1 DEF NewCells
<1> HIDE DEF K, C
<1> HIDE DEF I
<1>11. Updates(a.x, i, t, I, K, C, a.x.tok)
  <2>1. a.x.tok \in [Req -> Seq(TokVals)]
    BY Zenon, <1>1 DEF SrvType
  <2>2. Len(I) <= Len(K) /\ Len(K) <= NumCtx
    BY <1>3, <1>6, <1>9 DEF l
  <2> QED BY Zenon, <1>1, <1>3, <1>7, <1>9, <1>10, <2>1, <2>2 DEF Updates
<1>12. /\ Sound(y) /\ y.seqs = a.x.seqs /\ Used(y, i) /\ Who(y, i) = t
       /\ \A j \in Idx : Used(a.x, j) /\ j # i => Who(y, j) = Who(a.x, j)
  <2> HIDE DEF y
  <2>1. y = Updated(a.x, i, t, I, K, C, a.x.tok)
    BY DEF y
  <2>2. i \in Idx
    OBVIOUS
  <2>3. /\ y.seqs = a.x.seqs /\ Used(y, i) /\ Who(y, i) = t
        /\ \A j \in Idx : Used(a.x, j) /\ j # i => Who(y, j) = Who(a.x, j)
        /\ Len(K) = Len(I) + Len(t.pending) /\ Whole(a.x.seqs[i], t, I) => Sound(y)
    BY ONLY Ready, <1>11, <2>1, <2>2, UpdateSound
  <2>4. Len(K) = Len(I) + Len(t.pending)
    BY <1>7, <1>9 DEF l
  <2> QED BY <1>8, <2>3, <2>4
<1>13. b = Filling(a, y, N, O, R)
  <2>1. b = Filling(a, Taken(a.x, q, s, t, K, C), N, O, R)
    BY Zenon, <1>1, FillMeans DEF t, K, C, new
  <2>2. Taken(a.x, q, s, t, K, C) = y
    <3>1. [a.x.slots EXCEPT ![s] = [a.x.slots[s] EXCEPT !.Inputs = I]] = a.x.slots
      BY Zenon, <1>1 DEF SrvType, SlotType
    <3> QED BY Zenon, <1>1, <1>7, <3>1 DEF Updated, SrvType, Taken
  <2> QED BY <2>1, <2>2
<1> HIDE DEF y
<1>14. y \in SrvType
  BY <1>12 DEF Sound
<1>15. N \in Seq(Entry) /\ Len(N) = n + take
  <2>1. /\ a \in AccType /\ r \in SeqType /\ new \in Seq(CellIds) /\ take \in Nat /\ take = Len(new)
        /\ n \in Nat /\ n = Len(a.ins) /\ take <= Len(r.inputs)
    <3>1. n \in Nat /\ n = Len(a.ins) /\ m = Len(r.inputs) /\ m \in Nat
      BY <1>5 DEF n, m
    <3>2. take \in Nat /\ take <= m /\ take = Len(new) /\ new \in Seq(CellIds)
      <4>1. take \in 0 .. m /\ m \in Nat /\ take = Len(new) /\ new \in Seq(CellIds)
        BY Zenon, <1>5, <1>6
      <4>2. \A u, v \in Nat : u \in 0 .. v => u \in Nat /\ u <= v
        OBVIOUS
      <4> HIDE DEF m
      <4>3. take \in Nat
        BY ONLY <4>1
      <4> QED BY ONLY <4>1, <4>2, <4>3
    <3>3. a \in AccType /\ r \in SeqType
      BY <1>1
    <3> QED BY ONLY <3>1, <3>2, <3>3
  <2> QED BY ONLY <2>1, NewInsIs
<1>16. /\ O \in Seq(Pieces) /\ Len(a.outs) <= Len(O) /\ Len(a.outs) \in Nat
       /\ Len(new) = Len(r.inputs) => Len(a.outs) + 1 \in 1 .. Len(O)
  BY Zenon, <1>1, NewOutsIs
<1>17. R \in Idx \cup {-1}
  BY <1>1 DEF NewResume, AccType
<1> HIDE DEF N, O, R
<1>18. b \in AccType /\ b.x = y /\ b.seqs = a.seqs /\ b.ins = N /\ b.outs = O
  BY Zenon, <1>1, <1>13, <1>14, <1>15, <1>16, <1>17 DEF AccType, Filling
<1>19. Len(b.ins) <= BatchSize /\ Len(a.outs) <= Len(b.outs) /\ (b.ins = << >> => a.ins = << >> /\ take = 0)
  <2>1. b.ins = << >> => n + take = 0
    BY <1>15, <1>18
  <2>3. n \in Nat /\ take \in Nat /\ n + take <= BatchSize /\ Len(b.ins) = n + take /\ Len(a.outs) <= Len(b.outs)
    <3>1. n \in Nat /\ take \in Nat /\ n + take <= BatchSize
      BY <1>5, <1>6
    <3> QED BY <1>15, <1>16, <1>18, <3>1
  <2>4. n + take = 0 => n = 0 /\ take = 0
    BY ONLY <2>3
  <2>2. n = 0 => a.ins = << >>
    <3>1. a.ins \in Seq(Entry)
      BY <1>1 DEF AccType
    <3> QED BY <3>1 DEF n
  <2> QED BY ONLY <2>1, <2>2, <2>3, <2>4
<1>20. \A j \in Idx \ {i} : Used(b.x, j) =>
         /\ Used(a.x, j) /\ b.x.seqs[j] = a.x.seqs[j] /\ b.seqs[j] = a.seqs[j]
         /\ Who(b.x, j).inputs = Who(a.x, j).inputs /\ Who(b.x, j).pending = Who(a.x, j).pending
         /\ Who(b.x, j).iBatch = Who(a.x, j).iBatch
  <2>1. \A j \in Idx : Used(b.x, j) <=> Used(a.x, j)
    BY <1>12, <1>18 DEF Used
  <2> QED BY <1>12, <1>18, <2>1
<1>21. Batched(b, i)
  <2>1. t.pending # << >> => take # 0
    <3>1. t.pending \in Seq(InputSet)
      BY <1>7 DEF SeqType
    <3> QED BY <1>7, <3>1
  <2> QED BY <1>2, <1>12, <1>18, <1>19, <2>1 DEF Batched
<1>22. Sampled(b, i)
  <2>1. ASSUME t.inputs = << >> PROVE t.pending # << >> /\ t.iBatch \in 1 .. Len(b.outs)
    <3>1. take = m
      BY <1>5, <1>7, <2>1
    <3>2. t.pending # << >>
      BY <1>5, <1>7, <3>1
    <3> QED BY <1>5, <1>6, <1>7, <1>16, <1>18, <3>1, <3>2 DEF m
  <2> QED BY <1>12, <1>18, <2>1 DEF Sampled
<1>23. Going(a, D) /\ i \in Idx /\ b \in AccType /\ Sound(b.x)
  BY <1>12, <1>18
<1>24. Going(b, D \cup {i})
  BY ONLY <1>19, <1>20, <1>21, <1>22, <1>23, GoesOn
<1>25. Becomes(a, b, i, t, I, K, C)
  BY Zenon, <1>11, <1>18 DEF Becomes, y
<1>26. Fills(a, b, i, r, new)
  BY Zenon, <1>6, <1>7, <1>18, <1>25 DEF Fills, I, K, C, N, m, s
<1> QED BY Zenon, <1>24, <1>26 DEF new

(* One place in forwardBatch *)
LEMMA ForwardSeqGoes ==
    ASSUME Ready, NEW a, NEW D, Going(a, D), NEW i \in Idx \ D, NEW b \in ForwardSeq(a, i)
    PROVE  Going(b, D \cup {i})
<1> DEFINE q == a.x.seqs[i]
           r == a.x.seq[q]
           full == Len(a.ins) < BatchSize /\ Len(a.x.slots[r.slot].Inputs) + 1 > NumCtx
           d == ShiftDiscard(a.x, r.slot, r.numKeep)
<1>1. CASE q = None
  <2>1. b = a
    BY <1>1 DEF ForwardSeq
  <2>2. ~Used(a.x, i)
    BY <1>1 DEF Used
  <2> QED BY <2>1, <2>2 DEF Going
<1>2. CASE q # None
  <2>1. Used(a.x, i) /\ r = Who(a.x, i)
    BY <1>2 DEF Used, Who
  <2>2. CASE PastLimit(r) \/ (full /\ ~r.shift)
    <3>1. b \in Dropped(a, i)
      BY Zenon, <1>2, <2>2 DEF ForwardSeq
    <3> QED BY <2>1, <3>1, DroppedGoes
  <2>3. CASE ~(PastLimit(r) \/ (full /\ ~r.shift)) /\ full /\ ~CanShift(a.x, r.slot, r.numKeep, d)
    <3>1. b = Reprocess(a, i, q, r.numKeep, d)
      BY Zenon, <1>2, <2>3 DEF ForwardSeq
    <3> QED BY Zenon, <2>1, <2>3, <3>1, ReprocessGoes
  <2>4. CASE ~(PastLimit(r) \/ (full /\ ~r.shift)) /\ ~(full /\ ~CanShift(a.x, r.slot, r.numKeep, d))
    <3> DEFINE c == IF full THEN Shifted(a, r.slot, r.numKeep, d) ELSE a
    <3>1. b = Fill(c, i, q, Fresh(c, r))
      BY Zenon, <1>2, <2>4 DEF ForwardSeq
    <3>2. Going(c, D) /\ Used(c.x, i) /\ Who(c.x, i) = r /\ c.x.seqs[i] = q
      <4>1. CASE full
        <5>1. Going(Shifted(a, r.slot, r.numKeep, d), D) /\ Used(Shifted(a, r.slot, r.numKeep, d).x, i)
              /\ Who(Shifted(a, r.slot, r.numKeep, d).x, i) = r /\ Shifted(a, r.slot, r.numKeep, d).x.seqs = a.x.seqs
          BY <2>1, <4>1, ShiftedGoes
        <5> QED BY Zenon, <4>1, <5>1
      <4>2. CASE ~full
        BY <2>1, <4>2
      <4> QED BY Zenon, <4>1, <4>2
    <3> HIDE DEF c, r, q
    <3> QED BY <3>1, <3>2, FillGoes
  <2> QED BY Zenon, <2>2, <2>3, <2>4
<1> QED BY <1>1, <1>2

(* The places are taken in turn, each once. *)
LEMMA OrderIs ==
    ASSUME Ready, srv.nextSeq \in Idx
    PROVE  /\ DOMAIN Order = 1 .. Parallel /\ \A j \in 1 .. Parallel : Order[j] \in Idx
           /\ \A j, k \in 1 .. Parallel : Order[j] = Order[k] => j = k
<1>1. Parallel \in Nat \ {0} /\ Idx = 0 .. Parallel - 1
  BY Numbers DEF Idx

<1> DEFINE P == Parallel
           s == srv.nextSeq
           at(j) == IF s + j - 1 < P THEN s + j - 1 ELSE s + j - 1 - P
<1>3. P \in Nat \ {0} /\ s \in 0 .. P - 1
  BY <1>1
<1>4. DOMAIN Order = 1 .. P /\ \A j \in 1 .. P : Order[j] = (s + j - 1) % P
  BY DEF Order
<1> HIDE DEF P, s
<1>5. \A j \in 1 .. P : s + j - 1 \in 0 .. 2 * P - 1
  BY ONLY <1>3
<1>2. \A m \in 0 .. 2 * P - 1 : m % P = IF m < P THEN m ELSE m - P
  BY ONLY <1>3
<1>6. \A j \in 1 .. P : Order[j] = at(j)
  <2> SUFFICES ASSUME NEW j \in 1 .. P PROVE Order[j] = at(j)
    OBVIOUS
  <2> DEFINE m == s + j - 1
  <2>1. m \in 0 .. 2 * P - 1 /\ Order[j] = m % P
    BY <1>4, <1>5
  <2>2. at(j) = IF m < P THEN m ELSE m - P
    BY ONLY <1>3, j \in 1 .. P
  <2> HIDE DEF m, at
  <2> QED BY ONLY <1>2, <2>1, <2>2
<1>7. \A j \in 1 .. P : at(j) \in 0 .. P - 1
  BY ONLY <1>3
<1>8. \A j, k \in 1 .. P : at(j) = at(k) => j = k
  BY ONLY <1>3
<1> HIDE DEF at
<1>9. \A j \in 1 .. P : Order[j] \in 0 .. P - 1
  BY ONLY <1>6, <1>7
<1>10. \A j, k \in 1 .. P : Order[j] = Order[k] => j = k
  BY ONLY <1>6, <1>8
<1> QED BY <1>1, <1>4, <1>9, <1>10 DEF P

FwdOp(par, k, A) == ForwardOne(A, k)
FwdIn == INSTANCE FoldInduction WITH Op <- FwdOp

\* What forwardBatch starts from.
Start == [x |-> srv, ins |-> << >>, outs |-> << >>, seqs |-> srv.seqs, resume |-> -1]

(* The loop of forwardBatch over the places *)
LEMMA ForwardGoes ==
    ASSUME Ready, Going(Start, {}), NEW a \in FoldLeft(ForwardOne, {Start}, Order)
    PROVE  Going(a, Idx)
<1> DEFINE D(j) == {Order[m] : m \in 1 .. j}
           J == [j \in 0 .. Parallel |-> SUBSET {c \in AccType : Going(c, D(j))}]
           n == Parallel
<1>0. Start.x = srv
  BY DEF Start
<1>1. srv.nextSeq \in Idx
  BY <1>0 DEF Going, Sound, SrvType
<1>2. /\ n \in Nat /\ DOMAIN Order = 1 .. n /\ \A j \in 1 .. n : Order[j] \in Idx
      /\ \A j, k \in 1 .. n : Order[j] = Order[k] => j = k
  BY <1>1, OrderIs, Numbers
<1>3. {Start} \in J[0]
  <2>1. D(0) = {} /\ 0 \in 0 .. n
    BY <1>2
  <2>2. Start \in AccType
    BY DEF Going
  <2> HIDE DEF D
  <2> QED BY <2>1, <2>2
<1>4. ASSUME NEW j \in 1 .. n, NEW A \in J[j - 1] PROVE FwdOp(0, Order[j], A) \in J[j]
  <2>1. j - 1 \in 0 .. n /\ j \in 0 .. n
    BY <1>2
  <2>2. \A c \in A : Going(c, D(j - 1))
    BY <1>4, <2>1
  <2>3. Order[j] \in Idx \ D(j - 1) /\ D(j) = D(j - 1) \cup {Order[j]}
    <3>1. 1 .. j = (1 .. j - 1) \cup {j} /\ j \notin 1 .. j - 1 /\ (1 .. j - 1) \subseteq 1 .. n
      BY <1>2
    <3> QED BY <1>2, <3>1
  <2> HIDE DEF D
  <2>4. \A c \in A : \A b \in ForwardSeq(c, Order[j]) : Going(b, D(j))
    BY <2>2, <2>3, ForwardSeqGoes
  <2>5. \A b \in FwdOp(0, Order[j], A) : Going(b, D(j))
    <3> DEFINE k == Order[j]
    <3> HIDE DEF k
    <3>1. \A b \in ForwardOne(A, k) : \E c \in A : b \in ForwardSeq(c, k)
      BY Zenon DEF ForwardOne
    <3> QED BY <2>4, <3>1 DEF FwdOp, k
  <2>6. \A b \in FwdOp(0, Order[j], A) : b \in AccType /\ Going(b, D(j))
    BY <2>5 DEF Going
  <2> QED BY <2>1, <2>6
<1>5. FwdIn!LeftFold(0, {Start}, Order) \in J[n]
  <2>1. \A j \in 1 .. n : \A A \in J[j - 1] : FwdOp(0, Order[j], A) \in J[j]
    BY <1>4
  <2> HIDE DEF J, n
  <2>2. FwdIn!WellOrdered /\ FwdIn!Ranked(1 .. n)
    <3>1. IsFiniteSet(1 .. n)
      BY <1>2, FS_Interval
    <3> QED BY <3>1, LeastNatural, FiniteRanks DEF FwdIn!WellOrdered, FwdIn!Ranked
  <2> QED BY ONLY <1>2, <1>3, <2>1, <2>2, FwdIn!FoldLeftInduction
<1>6. FoldLeft(ForwardOne, {Start}, Order) = FwdIn!LeftFold(0, {Start}, Order)
  BY DEF FwdIn!LeftFold, FwdOp, FoldLeft, MapThenFoldSet, FwdIn!MapThenFoldSet, Max, FwdIn!Top
<1>7. Going(a, D(n))
  <2>1. n \in 0 .. n
    BY <1>2
  <2> HIDE DEF D
  <2> QED BY <1>5, <1>6, <2>1
<1>8. Going(a, Idx)
  <2>1. D(n) \subseteq Idx
    BY <1>2
  <2> QED BY <1>7, <2>1 DEF Going
<1> QED BY <1>8

-----------------------------------------------------------------------------
(***************************************************************************)
(* The inductive invariant.  Beside the state under mu: only the newest    *)
(* batch may wait to be computed, and then it is the pending one; an       *)
(* output row is that of a token asked for; and inputs are pending only    *)
(* for the batch that waits, which has a row for each sequence all of      *)
(* whose inputs are pending.                                               *)
(***************************************************************************)
Latest(f) == f[Len(f)]
RowsOf(b) == \A i \in Idx : b.next[i] # None => b.rows[i] \in 1 .. Len(b.outs)
Flying(f, l) ==
    /\ f \in Seq(BatchType) /\ l \in {"nil", "flying", "done"}
    /\ l = "flying" => f # << >>
    /\ \A k \in DOMAIN f : RowsOf(f[k]) /\ (f[k].st = "built" => k = Len(f) /\ l = "flying")
Awaits(x, f, l) ==
    \A i \in Idx : Used(x, i) =>
        /\ Who(x, i).pending # << >> => l = "flying" /\ Latest(f).st = "built" /\ Latest(f).seqs[i] = x.seqs[i]
        /\ Who(x, i).inputs = << >> => Who(x, i).pending # << >> /\ Who(x, i).iBatch \in 1 .. Len(Latest(f).outs)

Stages == {"new", "waiting", "admit", "stream", "done"}
Around == hpc \in [Req -> Stages] /\ gone \in SUBSET Req /\ down \in BOOLEAN /\ early \in BOOLEAN
Inv == Ready /\ Around /\ Sound(srv) /\ Flying(flight, last) /\ Awaits(srv, flight, last)

(* The sets of places, slots and values depend on the configuration only. *)
LEMMA SameTypes ==
    ASSUME conf' = conf
    PROVE  Idx' = Idx /\ CellIds' = CellIds /\ SrvType' = SrvType /\ BatchType' = BatchType
<1>1. Idx' = Idx /\ CellIds' = CellIds
  BY DEF Idx, CellIds, Parallel
<1>2. Entry' = Entry
  BY <1>1 DEF Entry
<1>3. Keys' = Keys
  BY <1>1, <1>2 DEF Keys, Val
<1>4. SeqType' = SeqType
  BY <1>1 DEF SeqType
<1>5. SrvType' = SrvType
  BY <1>1, <1>3, <1>4 DEF SrvType
<1>6. BatchType' = BatchType
  BY <1>1, <1>2 DEF BatchType
<1> QED BY <1>1, <1>5, <1>6

(* So do the parts of the invariant that are not about the handlers. *)
LEMMA SameParts ==
    ASSUME conf' = conf
    PROVE  /\ Slotted(srv') => Slotted(srv)'
           /\ Listed(srv') => Listed(srv)'
           /\ Filled(srv') => Filled(srv)'
           /\ Flying(flight', last') => Flying(flight, last)'
           /\ Awaits(srv', flight', last') => Awaits(srv, flight, last)'
           /\ Free(srv)' = Free(srv')
<1>1. Idx' = Idx /\ BatchType' = BatchType
  BY SameTypes
<1>2. Slotted(srv') => Slotted(srv)'
  BY <1>1 DEF Slotted, Used, Who
<1>3. Listed(srv') => Listed(srv)'
  BY <1>1 DEF Listed
<1>4. Filled(srv') => Filled(srv)'
  BY <1>1 DEF Filled, Fits, Cached, Used, Who, Inp
<1>5. Flying(flight', last') => Flying(flight, last)'
  BY <1>1 DEF Flying, RowsOf
<1>6. Awaits(srv', flight', last') => Awaits(srv, flight, last)'
  BY <1>1 DEF Awaits, Latest, Used, Who
<1>7. Free(srv)' = Free(srv')
  BY <1>1 DEF Free
<1> QED BY <1>2, <1>3, <1>4, <1>5, <1>6, <1>7

(* A step that leaves the handlers where they are *)
LEMMA SameHandlers ==
    ASSUME Inv, conf' = conf, hpc' = hpc, gone' \in SUBSET Req, down' \in BOOLEAN, early' \in BOOLEAN,
           Sound(srv'), Flying(flight', last'), Awaits(srv', flight', last')
    PROVE  Inv'
<1>1. Idx' = Idx /\ SrvType' = SrvType
  BY SameTypes
<1>2. Slotted(srv)' /\ Listed(srv)' /\ Filled(srv)' /\ Flying(flight, last)' /\ Awaits(srv, flight, last)'
  BY SameParts DEF Sound, Placed
<1>3. Seated(srv)' /\ Queued(srv)'
  BY <1>1 DEF Sound, Placed, Seated, Queued, Used, New
<1>4. Admitted' = Admitted /\ Free(srv)' = Free(srv')
  BY SameParts DEF Admitted
<1>5. Counted(srv)'
  BY <1>4 DEF Sound, Placed, Counted
<1>6. srv' \in SrvType
  BY DEF Sound
<1>7. Sound(srv)'
  BY <1>1, <1>2, <1>3, <1>5, <1>6 DEF Sound, Placed
<1>8. Ready' /\ Around'
  BY <1>4 DEF Inv, Ready, Around
<1> QED BY <1>2, <1>7, <1>8 DEF Inv
-----------------------------------------------------------------------------
(* The steps of the loop *)

(* Forgetting what no slot owns leaves the rest of the state alone. *)
LEMMA TidyIs ==
    ASSUME NEW x \in SrvType
    PROVE  /\ Tidy(x) \in SrvType /\ Tidy(x).seqs = x.seqs /\ Tidy(x).seq = x.seq /\ Tidy(x).slots = x.slots
           /\ Tidy(x).lru = x.lru /\ Tidy(x).kv = x.kv /\ Tidy(x).sem = x.sem /\ Tidy(x).ch = x.ch
<1> DEFINE C == [c \in CellIds |-> IF c \in Owned(x) THEN x.cell[c] ELSE None]
<1>1. Tidy(x) = [x EXCEPT !.cell = C]
  BY DEF Tidy
<1>2. None \in Keys
  BY DEF Keys
<1>3. C \in [CellIds -> Keys]
  BY <1>2 DEF SrvType
<1> HIDE DEF C
<1> QED BY <1>1, <1>3 DEF SrvType

(* Before a batch is built no inputs are pending, and every sequence has some. *)
LEMMA StartGoes ==
    ASSUME Inv, PendingStarted
    PROVE  Going(Start, {})
<1>1. Sound(srv) /\ srv \in SrvType /\ Ready
  BY DEF Inv, Sound
<1>2. ~(last = "flying" /\ Latest(flight).st = "built")
  BY DEF PendingStarted, Latest
<1>3. ASSUME NEW i \in Idx, Used(srv, i) PROVE Who(srv, i).pending = << >> /\ Who(srv, i).inputs # << >>
  BY <1>2, <1>3 DEF Inv, Awaits
<1>4. Start.x = srv /\ Start.ins = << >> /\ Start.outs = << >> /\ Start.seqs = srv.seqs /\ Start.resume = -1
  BY DEF Start
<1>5. Start \in AccType
  <2>1. << >> \in Seq(Entry) /\ << >> \in Seq(Pieces) /\ srv.seqs \in [Idx -> Req \cup {None}] /\ -1 \in Idx \cup {-1}
    BY <1>1 DEF SrvType
  <2> QED BY <1>1, <2>1 DEF Start, AccType
<1>6. Len(Start.ins) <= BatchSize
  BY <1>1, <1>4, Numbers
<1>7. \A i \in Idx : Used(Start.x, i) => Batched(Start, i) /\ Sampled(Start, i) /\ Waits(Start, i)
  BY <1>3, <1>4 DEF Batched, Sampled, Waits
<1> QED BY <1>1, <1>4, <1>5, <1>6, <1>7 DEF Going

Resumed(a) == IF a.resume # -1 THEN a.resume ELSE (Order[Parallel] + 1) % Parallel
NewBatch(a) ==
    [st |-> "built", ready |-> last # "flying", seqs |-> a.seqs, ins |-> a.ins,
     outs |-> a.outs, next |-> [i \in Idx |-> None], rows |-> [i \in Idx |-> 0]]

(* The state after a batch was built *)
LEMMA BuiltSound ==
    ASSUME Ready, NEW a, Going(a, Idx), srv.nextSeq \in Idx, NEW y, y = [Tidy(a.x) EXCEPT !.nextSeq = Resumed(a)]
    PROVE  Sound(y) /\ y.seqs = a.x.seqs /\ y.seq = a.x.seq
<1>1. a.x \in SrvType /\ Sound(a.x) /\ a.resume \in Idx \cup {-1}
  BY DEF Going, AccType
<1>2. Resumed(a) \in Idx
  <2>1. Parallel \in Nat \ {0} /\ Order[Parallel] \in Idx
    BY Numbers, OrderIs
  <2> DEFINE o == Order[Parallel]
             P == Parallel
  <2>2. o \in Nat /\ P \in Nat \ {0} /\ Idx = 0 .. P - 1
    BY <2>1 DEF Idx
  <2> HIDE DEF o, P
  <2>3. (o + 1) % P \in 0 .. P - 1
    BY <2>2
  <2> QED BY <1>1, <2>2, <2>3 DEF Resumed, o, P
<1> DEFINE z == Tidy(a.x)
           n == Resumed(a)
<1>3. /\ z \in SrvType /\ z.seqs = a.x.seqs /\ z.seq = a.x.seq /\ z.slots = a.x.slots
      /\ z.lru = a.x.lru /\ z.kv = a.x.kv /\ z.sem = a.x.sem /\ z.ch = a.x.ch
  BY <1>1, TidyIs
<1>4. y = [z EXCEPT !.nextSeq = n]
  OBVIOUS
<1> HIDE DEF z, n
<1>5. n \in Idx
  BY <1>2 DEF n
<1>6. /\ y \in SrvType /\ y.seqs = z.seqs /\ y.seq = z.seq /\ y.slots = z.slots
      /\ y.lru = z.lru /\ y.kv = z.kv /\ y.sem = z.sem /\ y.ch = z.ch
  BY <1>3, <1>4, <1>5 DEF SrvType
<1>7. /\ y \in SrvType /\ y.seqs = a.x.seqs /\ y.seq = a.x.seq /\ y.slots = a.x.slots
      /\ y.lru = a.x.lru /\ y.kv = a.x.kv /\ y.sem = a.x.sem /\ y.ch = a.x.ch
  BY ONLY <1>3, <1>6
<1>8. Sound(y)
  BY ONLY <1>1, <1>7, SoundOfSame
<1> QED BY ONLY <1>7, <1>8

(* The new batch is the latest. *)
LEMMA BatchFlies ==
    ASSUME Ready, Flying(flight, last), PendingStarted, NEW a, Going(a, Idx), NEW b, b = NewBatch(a)
    PROVE  Flying(Append(flight, b), "flying") /\ Latest(Append(flight, b)) = b
<1>1. b \in BatchType
  <2>1. [i \in Idx |-> None] \in [Idx -> Pieces \cup {None}] /\ [i \in Idx |-> 0] \in [Idx -> Nat]
    OBVIOUS
  <2>2. a.seqs \in [Idx -> Req \cup {None}] /\ a.ins \in Seq(Entry) /\ a.outs \in Seq(Pieces)
    BY DEF Going, AccType
  <2> QED BY <2>1, <2>2 DEF NewBatch, BatchType
<1>2. RowsOf(b) /\ b.st = "built"
  BY DEF RowsOf, NewBatch
<1>3. flight \in Seq(BatchType) /\ \A k \in DOMAIN flight : RowsOf(flight[k]) /\ flight[k].st # "built"
  BY DEF Flying, PendingStarted
<1> HIDE DEF Flying, PendingStarted
<1> DEFINE f == Append(flight, b)
<1>4. /\ f \in Seq(BatchType) /\ Len(f) = Len(flight) + 1 /\ f[Len(f)] = b /\ f # << >>
      /\ \A k \in DOMAIN f : k = Len(f) \/ (k \in DOMAIN flight /\ f[k] = flight[k])
  BY <1>1, <1>3
<1> HIDE DEF f
<1>5. \A k \in DOMAIN f : RowsOf(f[k]) /\ (f[k].st = "built" => k = Len(f))
  BY <1>2, <1>3, <1>4
<1>6. Flying(f, "flying") /\ Latest(f) = b
  BY <1>4, <1>5 DEF Flying, Latest
<1> QED BY <1>6 DEF f

(* A batch that was built: what is pending is in it. *)
LEMMA ForwardBatchInv ==
    ASSUME Inv, ForwardBatch
    PROVE  Inv'
<1>1. Ready /\ Around /\ Flying(flight, last) /\ PendingStarted /\ srv.nextSeq \in Idx
  BY DEF Inv, ForwardBatch, Sound, SrvType
<1>2. PICK a \in FoldLeft(ForwardOne, {Start}, Order) :
        /\ srv' = [Tidy(a.x) EXCEPT !.nextSeq = Resumed(a)]
        /\ IF a.ins = << >>
           THEN /\ last' = "nil"
                /\ early' = (early \/ (last = "flying" /\ \E i \in Idx : a.x.seqs[i] # None))
                /\ flight' = flight
           ELSE flight' = Append(flight, NewBatch(a)) /\ last' = "flying" /\ early' = early
        /\ conf' = conf /\ hpc' = hpc /\ gone' = gone /\ down' = down
  BY DEF ForwardBatch, Start, Resumed, NewBatch
<1>3. Going(a, Idx)
  BY <1>1, StartGoes, ForwardGoes
<1>4. Sound(srv') /\ srv'.seqs = a.x.seqs /\ srv'.seq = a.x.seq
  BY <1>1, <1>2, <1>3, BuiltSound
<1>5. \A i \in Idx : /\ Used(srv', i) <=> Used(a.x, i)
                     /\ Who(srv', i) = Who(a.x, i)
  BY <1>4 DEF Used, Who
<1>6. \A i \in Idx : Used(a.x, i) => Batched(a, i) /\ Sampled(a, i)
  BY <1>3 DEF Going
<1>7. gone' \in SUBSET Req /\ down' \in BOOLEAN /\ early' \in BOOLEAN
  BY <1>1, <1>2 DEF Around
<1>8. Flying(flight', last') /\ Awaits(srv', flight', last')
  <2>1. CASE a.ins = << >>
    <3>1. last' = "nil" /\ flight' = flight
      BY <1>2, <2>1
    <3>2. Flying(flight, "nil")
      BY <1>1 DEF Flying, PendingStarted
    <3>3. Awaits(srv', flight, "nil")
      BY <1>5, <1>6, <2>1 DEF Awaits, Batched, Sampled
    <3> QED BY <3>1, <3>2, <3>3
  <2>2. CASE a.ins # << >>
    <3>1. last' = "flying" /\ flight' = Append(flight, NewBatch(a))
      BY <1>2, <2>2
    <3>2. Flying(flight', "flying") /\ Latest(flight') = NewBatch(a)
      BY <1>1, <1>3, <3>1, BatchFlies
    <3>3. Latest(flight').st = "built" /\ Latest(flight').seqs = a.seqs /\ Latest(flight').outs = a.outs
      BY <3>2 DEF NewBatch
    <3>4. Awaits(srv', flight', "flying")
      BY <1>4, <1>5, <1>6, <3>3 DEF Awaits, Batched, Sampled
    <3> QED BY <3>1, <3>2, <3>4
  <2> QED BY <2>1, <2>2
<1> QED BY <1>2, <1>4, <1>7, <1>8, SameHandlers
\* The parts of what the first section of computeBatch makes of the state
ReadOf(b, c) == Val(srv.tok, (CHOOSE e \in Range(b.ins) : e.cell = c).inp)
CellsAfter(b) == [c \in CellIds |-> IF srv.cell[c] = Pending THEN ReadOf(b, c) ELSE srv.cell[c]]
SlotAfter(G, s) ==
    IF \E q \in G : srv.seq[q].slot = s
    THEN [srv.slots[s] EXCEPT !.Inputs =
             srv.slots[s].Inputs \o srv.seq[CHOOSE q \in G : srv.seq[q].slot = s].pending]
    ELSE srv.slots[s]
SeqAfter(G, S, q) ==
    IF q \in S THEN [srv.seq[q] EXCEPT !.pending = << >>, !.inputs = <<Place(q)>>,
                                       !.numPredicted = srv.seq[q].numPredicted + 1]
    ELSE IF q \in G THEN [srv.seq[q] EXCEPT !.pending = << >>] ELSE srv.seq[q]
TokAfter(S, q) == IF q \in S THEN Append(srv.tok[q], Zero) ELSE srv.tok[q]
Gathering(b, G, S) ==
    [srv EXCEPT !.cell = CellsAfter(b), !.slots = [s \in Idx |-> SlotAfter(G, s)],
                !.seq = [q \in Req |-> SeqAfter(G, S, q)], !.tok = [q \in Req |-> TokAfter(S, q)]]

(* The first section of computeBatch *)
LEMMA GatherMeans ==
    ASSUME NEW k, Gather(k)
    PROVE  /\ flight[k].st = "built" /\ srv' = Gathering(flight[k], Mine(flight[k]), Samplers(flight[k]))
           /\ flight' = [flight EXCEPT ![k] = Computing(flight[k], Samplers(flight[k]))]
           /\ conf' = conf /\ hpc' = hpc /\ gone' = gone /\ last' = last /\ early' = early /\ down' = down
<1> DEFINE b == flight[k]
           G == Mine(b)
           S == Samplers(b)
<1>1. /\ srv' = Gathered(b, G, S) /\ b.st = "built" /\ flight' = [flight EXCEPT ![k] = Computing(b, S)]
      /\ conf' = conf /\ hpc' = hpc /\ gone' = gone /\ last' = last /\ early' = early /\ down' = down
  BY DEF Gather
<1> HIDE DEF G, S, b
<1>2. Gathered(b, G, S) = Gathering(b, G, S)
  BY DEF Gathered, Gathering, CellsAfter, ReadOf, SlotAfter, SeqAfter, TokAfter
<1> QED BY <1>1, <1>2 DEF b, G, S
(* The sequences of a batch that are still there have their places. *)
LEMMA MineIs ==
    ASSUME Sound(srv), NEW b
    PROVE  /\ Samplers(b) \subseteq Mine(b) /\ Mine(b) \subseteq Req
           /\ \A q \in Mine(b) : \E i \in Idx : Used(srv, i) /\ srv.seqs[i] = q /\ b.seqs[i] = q
           /\ \A i \in Idx : Used(srv, i) => (srv.seqs[i] \in Mine(b) <=> b.seqs[i] = srv.seqs[i])
           /\ \A q \in Mine(b) : q \in Samplers(b) <=> srv.seq[q].inputs = << >>
<1>1. srv \in SrvType /\ Seated(srv)
  BY DEF Sound, Placed
<1>2. \A q \in Mine(b) : \E i \in Idx : Used(srv, i) /\ srv.seqs[i] = q /\ b.seqs[i] = q
  BY DEF Mine, Gathers, Used
<1>3. Mine(b) \subseteq Req
  BY <1>1, <1>2 DEF Used, SrvType
<1>4. ASSUME NEW i \in Idx, Used(srv, i) PROVE srv.seqs[i] \in Mine(b) <=> b.seqs[i] = srv.seqs[i]
  <2>1. b.seqs[i] = srv.seqs[i] => srv.seqs[i] \in Mine(b)
    BY <1>4 DEF Mine, Gathers, Used
  <2>2. srv.seqs[i] \in Mine(b) => b.seqs[i] = srv.seqs[i]
    <3> SUFFICES ASSUME srv.seqs[i] \in Mine(b) PROVE b.seqs[i] = srv.seqs[i]
      OBVIOUS
    <3>1. PICK j \in Idx : Used(srv, j) /\ srv.seqs[j] = srv.seqs[i] /\ b.seqs[j] = srv.seqs[i]
      BY <1>2
    <3>2. j = i
      BY <1>1, <3>1 DEF Seated
    <3> QED BY <3>1, <3>2
  <2> QED BY <2>1, <2>2
<1> QED BY <1>2, <1>3, <1>4 DEF Samplers

\* The sequence r of q has become t, which waits for its next token.
Asks(q, r, t) == t.inputs = << <<q, r.numPredicted + 1>> >> /\ t.numPredicted = r.numPredicted + 1

(* The sequence of a request after the first section of computeBatch *)
LEMMA SeqAfterIs ==
    ASSUME srv \in SrvType, NEW G, NEW S, S \subseteq G, NEW q \in Req
    PROVE  /\ SeqAfter(G, S, q) \in SeqType /\ SeqAfter(G, S, q).slot = srv.seq[q].slot
           /\ SeqAfter(G, S, q).prompt = srv.seq[q].prompt /\ SeqAfter(G, S, q).numKeep = srv.seq[q].numKeep
           /\ q \notin G => SeqAfter(G, S, q) = srv.seq[q]
           /\ q \in G => SeqAfter(G, S, q).pending = << >>
           /\ q \in G \ S => /\ SeqAfter(G, S, q).inputs = srv.seq[q].inputs
                             /\ SeqAfter(G, S, q).numPredicted = srv.seq[q].numPredicted
           /\ q \in S => Asks(q, srv.seq[q], SeqAfter(G, S, q))
<1> DEFINE r == srv.seq[q]
           t == SeqAfter(G, S, q)
           n == r.numPredicted + 1
           R == << <<q, n>> >>
<1>1. r \in SeqType
  BY DEF SrvType
<1>2. n \in Nat /\ R \in Seq(InputSet) /\ << >> \in Seq(InputSet)
  <2>1. n \in Nat
    BY <1>1 DEF SeqType
  <2>2. <<q, n>> \in InputSet
    BY <2>1 DEF InputSet
  <2> QED BY <2>1, <2>2
<1>3. t = IF q \in S THEN [r EXCEPT !.pending = << >>, !.inputs = R, !.numPredicted = n]
          ELSE IF q \in G THEN [r EXCEPT !.pending = << >>] ELSE r
  BY DEF SeqAfter, Place
<1> HIDE DEF t, r, R, n
<1>4. CASE q \in S
  <2>1. t = [r EXCEPT !.pending = << >>, !.inputs = R, !.numPredicted = n]
    BY <1>3, <1>4
  <2>2. /\ t \in SeqType /\ t.slot = r.slot /\ t.prompt = r.prompt /\ t.numKeep = r.numKeep
        /\ t.pending = << >> /\ t.inputs = R /\ t.numPredicted = n
    BY <1>1, <1>2, <2>1 DEF SeqType
  <2>3. Asks(q, r, t)
    BY <2>2 DEF Asks, R, n
  <2> QED BY <1>4, <2>2, <2>3 DEF t, r
<1>5. CASE q \notin S /\ q \in G
  <2>1. t = [r EXCEPT !.pending = << >>]
    BY <1>3, <1>5
  <2>2. /\ t \in SeqType /\ t.slot = r.slot /\ t.prompt = r.prompt /\ t.numKeep = r.numKeep
        /\ t.pending = << >> /\ t.inputs = r.inputs /\ t.numPredicted = r.numPredicted
    BY <1>1, <1>2, <2>1 DEF SeqType
  <2> QED BY <1>5, <2>2 DEF t, r
<1>6. CASE q \notin G
  <2>1. t = r
    BY <1>3, <1>6
  <2> QED BY <1>1, <1>6, <2>1 DEF t, r
<1> QED BY <1>4, <1>5, <1>6

(* A slot after the first section of computeBatch *)
LEMMA SlotAfterIs ==
    ASSUME Sound(srv), NEW b, NEW G, G = Mine(b), NEW s \in Idx
    PROVE  /\ SlotAfter(G, s) \in SlotType /\ SlotAfter(G, s).InUse = srv.slots[s].InUse
           /\ \A i \in Idx : Used(srv, i) /\ Who(srv, i).slot = s =>
                 SlotAfter(G, s).Inputs = IF srv.seqs[i] \in G THEN Inp(srv, i) \o Who(srv, i).pending ELSE Inp(srv, i)
           /\ SlotAfter(G, s) = srv.slots[s] \/ \E i \in Idx : Used(srv, i) /\ Who(srv, i).slot = s /\ srv.seqs[i] \in G
<1>1. srv \in SrvType /\ Slotted(srv)
  BY DEF Sound, Placed
<1>2. G \subseteq Req /\ \A q \in G : \E i \in Idx : Used(srv, i) /\ srv.seqs[i] = q
  BY MineIs
<1> DEFINE u == srv.slots[s]
<1>3. u \in SlotType
  BY <1>1 DEF SrvType
<1>4. CASE \E q \in G : srv.seq[q].slot = s
  <2> DEFINE p == CHOOSE q \in G : srv.seq[q].slot = s
  <2>1. p \in G /\ srv.seq[p].slot = s
    BY <1>4
  <2>2. SlotAfter(G, s) = [u EXCEPT !.Inputs = u.Inputs \o srv.seq[p].pending]
    BY <1>4 DEF SlotAfter
  <2> HIDE DEF p
  <2>3. PICK j \in Idx : Used(srv, j) /\ srv.seqs[j] = p
    BY <1>2, <2>1
  <2>4. Who(srv, j) = srv.seq[p] /\ Who(srv, j).slot = s
    BY <2>1, <2>3 DEF Who
  <2>5. srv.seq[p].pending \in Seq(InputSet) /\ u.Inputs \in Seq(InputSet)
    BY <1>1, <1>2, <1>3, <2>1 DEF SrvType, SeqType, SlotType
  <2>6. u.Inputs \o srv.seq[p].pending \in Seq(InputSet)
    BY <2>5
  <2> DEFINE J == u.Inputs \o srv.seq[p].pending
  <2>7. SlotAfter(G, s) = [u EXCEPT !.Inputs = J] /\ J \in Seq(InputSet)
    BY <2>2, <2>6
  <2> HIDE DEF J
  <2>8. SlotAfter(G, s) \in SlotType /\ SlotAfter(G, s).InUse = u.InUse /\ SlotAfter(G, s).Inputs = J
    BY <1>3, <2>7 DEF SlotType
  <2>9. ASSUME NEW i \in Idx, Used(srv, i), Who(srv, i).slot = s
        PROVE  srv.seqs[i] \in G /\ J = Inp(srv, i) \o Who(srv, i).pending
    <3>1. i = j
      BY <1>1, <2>3, <2>4, <2>9 DEF Slotted
    <3> QED BY <2>1, <2>3, <2>4, <2>9, <3>1 DEF Inp, J
  <2> QED BY <2>1, <2>3, <2>4, <2>8, <2>9
<1>5. CASE ~\E q \in G : srv.seq[q].slot = s
  <2>1. SlotAfter(G, s) = u
    BY <1>5 DEF SlotAfter
  <2>2. ASSUME NEW i \in Idx, Used(srv, i), Who(srv, i).slot = s
        PROVE  srv.seqs[i] \notin G /\ u.Inputs = Inp(srv, i)
    BY <1>5, <2>2 DEF Who, Inp
  <2> QED BY <1>3, <2>1, <2>2
<1> QED BY <1>4, <1>5
(* The state after the first section of computeBatch has its type. *)
LEMMA GatheringType ==
    ASSUME Ready, Sound(srv), NEW b \in BatchType, NEW G, G = Mine(b), NEW S, S = Samplers(b), NEW y, y = Gathering(b, G, S)
    PROVE  /\ y \in SrvType /\ y.seqs = srv.seqs /\ y.sem = srv.sem /\ y.lru = srv.lru /\ y.kv = srv.kv
           /\ y.ch = srv.ch /\ \A s \in Idx : y.slots[s] = SlotAfter(G, s)
           /\ \A q \in Req : y.seq[q] = SeqAfter(G, S, q)
<1>1. srv \in SrvType /\ S \subseteq G
  BY MineIs DEF Sound
<1> DEFINE C == CellsAfter(b)
           L == [s \in Idx |-> SlotAfter(G, s)]
           Q == [q \in Req |-> SeqAfter(G, S, q)]
           T == [q \in Req |-> TokAfter(S, q)]
<1>2. C \in [CellIds -> Keys]
  <2>1. ASSUME NEW c \in CellIds PROVE ReadOf(b, c) \in Keys
    <3>1. Range(b.ins) \in SUBSET Entry
      BY RangeIs DEF BatchType
    <3>2. srv.tok \in [Req -> Seq(TokVals)]
      BY <1>1 DEF SrvType
    <3> DEFINE E == Range(b.ins)
               k == <<srv.tok, E, c>>
    <3> HIDE DEF E
    <3>3. k \in [Req -> Seq(TokVals)] \X (SUBSET Entry) \X CellIds /\ k[1] = srv.tok /\ k[2] = E /\ k[3] = c
      BY <3>1, <3>2 DEF E
    <3> HIDE DEF k
    <3>4. ReadOf(b, c) = Val(k[1], (CHOOSE e \in k[2] : e.cell = k[3]).inp)
      BY <3>3 DEF ReadOf, E
    <3> QED BY <3>3, <3>4 DEF Keys
  <2>2. srv.cell \in [CellIds -> Keys]
    BY <1>1 DEF SrvType
  <2> QED BY <2>1, <2>2 DEF CellsAfter
<1>3. L \in [Idx -> SlotType]
  BY SlotAfterIs
<1>4. Q \in [Req -> SeqType]
  BY <1>1, SeqAfterIs
<1>5. T \in [Req -> Seq(TokVals)]
  <2>1. ASSUME NEW q \in Req PROVE TokAfter(S, q) \in Seq(TokVals)
    <3>1. srv.tok[q] \in Seq(TokVals) /\ Zero \in TokVals
      BY <1>1 DEF SrvType, TokVals
    <3>2. Append(srv.tok[q], Zero) \in Seq(TokVals)
      BY <3>1
    <3> QED BY <3>1, <3>2 DEF TokAfter
  <2> QED BY <2>1
<1>6. y = [srv EXCEPT !.cell = C, !.slots = L, !.seq = Q, !.tok = T]
  BY DEF Gathering
<1>7. (\A s \in Idx : L[s] = SlotAfter(G, s)) /\ (\A q \in Req : Q[q] = SeqAfter(G, S, q))
  OBVIOUS
<1> HIDE DEF C, L, Q, T
<1>8. /\ y \in SrvType /\ y.seqs = srv.seqs /\ y.sem = srv.sem /\ y.lru = srv.lru /\ y.kv = srv.kv
      /\ y.ch = srv.ch /\ y.slots = L /\ y.seq = Q
  BY ONLY <1>1, <1>2, <1>3, <1>4, <1>5, <1>6 DEF SrvType
<1> QED BY <1>7, <1>8

(* The first section keeps the invariant, and leaves nothing pending. *)
LEMMA GatheringSound ==
    ASSUME Inv, NEW b \in BatchType, b = Latest(flight), NEW G, G = Mine(b), NEW S, S = Samplers(b),
           NEW y, y = Gathering(b, G, S)
    PROVE  /\ Sound(y)
           /\ \A i \in Idx : Used(y, i) => Who(y, i).pending = << >> /\ Who(y, i).inputs # << >>
<1>1. Ready /\ Sound(srv) /\ srv \in SrvType /\ Placed(srv) /\ Filled(srv) /\ Awaits(srv, flight, last)
  BY DEF Inv, Sound
<1>2. /\ y \in SrvType /\ y.seqs = srv.seqs /\ y.sem = srv.sem /\ y.lru = srv.lru /\ y.kv = srv.kv
      /\ y.ch = srv.ch /\ \A s \in Idx : y.slots[s] = SlotAfter(G, s)
      /\ \A q \in Req : y.seq[q] = SeqAfter(G, S, q)
  BY <1>1, GatheringType
<1>3. /\ S \subseteq G /\ G \subseteq Req
      /\ \A q \in G : \E i \in Idx : Used(srv, i) /\ srv.seqs[i] = q /\ b.seqs[i] = q
      /\ \A i \in Idx : Used(srv, i) => (srv.seqs[i] \in G <=> b.seqs[i] = srv.seqs[i])
      /\ \A q \in G : q \in S <=> srv.seq[q].inputs = << >>
  BY <1>1, MineIs
<1>4. \A i \in Idx : Used(y, i) <=> Used(srv, i)
  BY <1>2 DEF Used
<1>5. ASSUME NEW i \in Idx, Used(srv, i)
      PROVE  /\ srv.seqs[i] \in Req /\ Who(srv, i) \in SeqType /\ Who(srv, i).slot \in Idx
             /\ Who(y, i) = SeqAfter(G, S, srv.seqs[i]) /\ Who(y, i).slot = Who(srv, i).slot
             /\ Inp(srv, i) \in Seq(InputSet)
             /\ Inp(y, i) = IF srv.seqs[i] \in G THEN Inp(srv, i) \o Who(srv, i).pending ELSE Inp(srv, i)
  <2>1. srv.seqs[i] \in Req /\ Who(srv, i) \in SeqType /\ Who(srv, i).slot \in Idx
    BY <1>1, <1>5 DEF SrvType, SeqType, Used, Who
  <2>2. Who(y, i) = SeqAfter(G, S, srv.seqs[i])
    BY <1>2, <2>1 DEF Who
  <2>3. Who(y, i).slot = Who(srv, i).slot
    BY <1>1, <1>3, <2>1, <2>2, SeqAfterIs DEF Who
  <2>4. Inp(y, i) = SlotAfter(G, Who(srv, i).slot).Inputs
    BY <1>2, <2>1, <2>3 DEF Inp
  <2>5. Inp(y, i) = IF srv.seqs[i] \in G THEN Inp(srv, i) \o Who(srv, i).pending ELSE Inp(srv, i)
    BY <1>1, <1>5, <2>1, <2>4, SlotAfterIs
  <2>6. Inp(srv, i) \in Seq(InputSet)
    BY <1>1, <2>1 DEF Inp, SrvType, SlotType
  <2> QED BY <2>1, <2>2, <2>3, <2>5, <2>6
<1>6. \A s \in Idx : y.slots[s].InUse = srv.slots[s].InUse
  BY <1>1, <1>2, SlotAfterIs
<1>7. Placed(y)
  <2>1. Seated(y)
    BY <1>1, <1>2, <1>4 DEF Placed, Seated
  <2>2. Slotted(y)
    <3>1. \A i \in Idx : Used(y, i) => Who(y, i).slot = Who(srv, i).slot /\ Who(srv, i).slot \in Idx
      BY <1>4, <1>5
    <3> QED BY <1>1, <1>4, <1>6, <3>1 DEF Placed, Slotted
  <2>3. Listed(y) /\ Counted(y)
    BY <1>1, <1>2 DEF Placed, Listed, Counted, Free
  <2>4. Queued(y)
    <3>1. \A q \in Req : hpc[q] \in {"waiting", "admit"} => q \notin G
      BY <1>1, <1>3 DEF Placed, Seated
    <3>2. \A q \in Req : q \notin G => y.seq[q] = srv.seq[q]
      BY <1>1, <1>2, <1>3, SeqAfterIs
    <3> QED BY <1>1, <3>1, <3>2 DEF Placed, Queued
  <2> QED BY <2>1, <2>2, <2>3, <2>4 DEF Placed
<1>8. ASSUME NEW i \in Idx, Used(srv, i)
      PROVE  /\ Who(y, i).pending = << >> /\ Who(y, i).inputs # << >>
             /\ Len(Inp(y, i)) = Len(Inp(srv, i)) + Len(Who(srv, i).pending)
             /\ Whole(y.seqs[i], Who(y, i), Inp(y, i))
  <2> DEFINE q == srv.seqs[i]
             r == Who(srv, i)
             t == Who(y, i)
             I == Inp(srv, i)
  <2>1. q \in Req /\ r \in SeqType /\ r = srv.seq[q] /\ I \in Seq(InputSet) /\ t = SeqAfter(G, S, q)
    BY <1>5, <1>8 DEF Who
  <2>2. /\ t.prompt = r.prompt /\ t.numKeep = r.numKeep
        /\ q \notin G => t = r
        /\ q \in G => t.pending = << >>
        /\ q \in G \ S => t.inputs = r.inputs /\ t.numPredicted = r.numPredicted
        /\ q \in S => Asks(q, r, t)
    BY <1>1, <1>3, <2>1, SeqAfterIs
  <2>3. Inp(y, i) = IF q \in G THEN I \o r.pending ELSE I
    BY <1>5, <1>8
  <2>4. Complete(q, I, r.pending, r.inputs, r.prompt, r.numPredicted, r.numKeep) /\ Len(I) + Len(r.pending) <= NumCtx
    BY <1>1, <1>5, <1>8 DEF Filled, Whole, Cached, Fits
  <2>5. /\ r.pending # << >> => q \in G
        /\ r.inputs = << >> => r.pending # << >>
    BY <1>1, <1>3, <1>8 DEF Awaits
  <2>7. y.seqs[i] = q
    BY <1>2
  <2> HIDE DEF q, r, t, I
  <2>6. /\ r.pending \in Seq(InputSet) /\ r.inputs \in Seq(InputSet) /\ r.prompt \in Seq(Toks)
        /\ r.numPredicted \in Nat /\ r.numKeep \in Nat
    BY <2>1 DEF SeqType
  <2>8. CASE q \notin G
    <3>1. t = r /\ Inp(y, i) = I /\ r.pending = << >> /\ r.inputs # << >>
      BY <2>2, <2>3, <2>5, <2>8
    <3>2. Len(I) = Len(I) + Len(r.pending)
      BY <2>1, <3>1
    <3>3. Whole(q, t, I)
      BY <2>4, <3>1 DEF Whole
    <3> QED BY <2>7, <3>1, <3>2, <3>3 DEF t, r, I
  <2>9. CASE q \in G
    <3> DEFINE J == I \o r.pending
    <3>1. Inp(y, i) = J
      BY <2>3, <2>9
    <3>2. J \in Seq(InputSet) /\ Len(J) = Len(I) + Len(r.pending)
      BY <2>1, <2>6, JoinIs
    <3>3. Complete(q, J, << >>, r.inputs, r.prompt, r.numPredicted, r.numKeep)
      BY <1>1, <2>1, <2>4, <2>6, CompleteMoved
    <3> HIDE DEF J
    <3>4. t.pending = << >>
      BY <2>2, <2>9
    <3>5. CASE q \in S
      <4>1. r.inputs = << >>
        BY <1>3, <2>1, <2>9, <3>5
      <4>2. Complete(q, J, << >>, << <<q, r.numPredicted + 1>> >>, r.prompt, r.numPredicted + 1, r.numKeep)
        BY <1>1, <2>4, <2>6, <3>2, <3>3, <4>1, CompleteNext
      <4>3. Whole(q, t, J)
        BY <2>2, <3>4, <3>5, <4>2 DEF Whole, Asks
      <4>4. t.inputs # << >>
        BY <2>2, <3>5 DEF Asks
      <4> QED BY <2>7, <3>1, <3>2, <3>4, <4>3, <4>4 DEF t, r, I
    <3>6. CASE q \notin S
      <4>1. r.inputs # << >> /\ t.inputs = r.inputs /\ t.numPredicted = r.numPredicted
        BY <1>3, <2>1, <2>2, <2>9, <3>6
      <4>2. Whole(q, t, J)
        BY <2>2, <3>3, <3>4, <4>1 DEF Whole
      <4> QED BY <2>7, <3>1, <3>2, <3>4, <4>1, <4>2 DEF t, r, I
    <3> QED BY <3>5, <3>6
  <2> QED BY <2>8, <2>9
<1>9. \A i \in Idx : Used(y, i) => Cached(y, i) /\ Whole(y.seqs[i], Who(y, i), Inp(y, i))
  <2> SUFFICES ASSUME NEW i \in Idx, Used(y, i) PROVE Cached(y, i) /\ Whole(y.seqs[i], Who(y, i), Inp(y, i))
    OBVIOUS
  <2>1. Used(srv, i)
    BY <1>4
  <2>2. /\ Who(y, i).pending = << >> /\ Len(Inp(y, i)) = Len(Inp(srv, i)) + Len(Who(srv, i).pending)
        /\ Whole(y.seqs[i], Who(y, i), Inp(y, i)) /\ Who(y, i).slot = Who(srv, i).slot
    BY <1>5, <1>8, <2>1
  <2>3. Len(srv.kv[Who(srv, i).slot]) = Len(Inp(srv, i)) + Len(Who(srv, i).pending)
    BY <1>1, <2>1 DEF Filled, Cached
  <2>4. Len(Who(y, i).pending) = 0 /\ Len(Inp(y, i)) \in Nat
    BY <1>5, <2>1, <2>2 DEF SeqType
  <2>5. Len(y.kv[Who(y, i).slot]) = Len(Inp(y, i)) + Len(Who(y, i).pending)
    <3>1. y.kv[Who(y, i).slot] = srv.kv[Who(srv, i).slot]
      BY <1>2, <2>2
    <3> QED BY ONLY <3>1, <2>2, <2>3, <2>4
  <2> QED BY <2>2, <2>5 DEF Cached
<1>10. \A s \in Idx : Fits(y, s)
  <2> SUFFICES ASSUME NEW s \in Idx PROVE Fits(y, s)
    OBVIOUS
  <2>1. Fits(srv, s) /\ y.kv[s] = srv.kv[s] /\ y.slots[s] = SlotAfter(G, s)
    BY <1>1, <1>2 DEF Filled
  <2>2. CASE y.slots[s] = srv.slots[s]
    BY <2>1, <2>2 DEF Fits
  <2>3. CASE \E i \in Idx : Used(srv, i) /\ Who(srv, i).slot = s
    <3>1. PICK i \in Idx : Used(srv, i) /\ Who(srv, i).slot = s
      BY <2>3
    <3>2. Inp(y, i) = y.slots[s].Inputs
      BY <1>5, <3>1 DEF Inp
    <3>3. Len(srv.kv[s]) = Len(Inp(srv, i)) + Len(Who(srv, i).pending)
      BY <1>1, <3>1 DEF Filled, Cached
    <3>4. Len(Inp(y, i)) = Len(srv.kv[s])
      BY <1>8, <3>1, <3>3
    <3>5. Len(srv.kv[s]) \in Nat
      BY <1>1 DEF SrvType
    <3> QED BY <2>1, <3>2, <3>4, <3>5 DEF Fits
  <2> QED BY <1>1, <2>1, <2>2, <2>3, SlotAfterIs
<1>11. Filled(y)
  BY <1>1, <1>2, <1>9, <1>10 DEF Filled
<1>12. Sound(y)
  BY <1>2, <1>7, <1>11 DEF Sound
<1> QED BY <1>4, <1>8, <1>12
(* A batch that is computed has a row for every token it asks for. *)
LEMMA ComputingIs ==
    ASSUME Inv, NEW b \in BatchType, b = Latest(flight), NEW S, S = Samplers(b), NEW c, c = Computing(b, S)
    PROVE  c \in BatchType /\ RowsOf(c) /\ c.st = "computing"
<1>1. Ready /\ Sound(srv) /\ srv \in SrvType /\ Awaits(srv, flight, last)
  BY DEF Inv, Sound
<1> DEFINE N == [i \in Idx |-> IF srv.seqs[i] \in S THEN Place(srv.seqs[i]) ELSE None]
           W == [i \in Idx |-> IF srv.seqs[i] \in S THEN srv.seq[srv.seqs[i]].iBatch ELSE 0]
<1>2. S \subseteq Req /\ \A q \in S : srv.seq[q].inputs = << >>
  BY <1>1, MineIs
<1>3. ASSUME NEW i \in Idx, srv.seqs[i] \in S
      PROVE  /\ Place(srv.seqs[i]) \in Pieces /\ srv.seq[srv.seqs[i]].iBatch \in 1 .. Len(b.outs)
             /\ srv.seq[srv.seqs[i]].iBatch \in Nat
  <2>1. srv.seqs[i] \in Req /\ srv.seq[srv.seqs[i]] \in SeqType
    BY <1>1, <1>2, <1>3 DEF SrvType
  <2>2. Used(srv, i) /\ Who(srv, i).inputs = << >> /\ Who(srv, i) = srv.seq[srv.seqs[i]]
    BY <1>2, <1>3, <2>1, ArgsAssumption DEF Used, Who
  <2>3. Who(srv, i).iBatch \in 1 .. Len(b.outs)
    BY <1>1, <2>2 DEF Awaits
  <2>4. srv.seq[srv.seqs[i]].numPredicted + 1 \in Nat /\ srv.seq[srv.seqs[i]].iBatch \in Nat
    <3>1. \A r \in SeqType : r.numPredicted + 1 \in Nat /\ r.iBatch \in Nat
      BY ONLY DEF SeqType
    <3> QED BY ONLY <2>1, <3>1
  <2>5. Place(srv.seqs[i]) \in Pieces
    BY <2>1, <2>4 DEF Place, Pieces
  <2> QED BY <2>2, <2>3, <2>4, <2>5
<1>4. N \in [Idx -> Pieces \cup {None}] /\ W \in [Idx -> Nat]
  BY <1>3
<1>5. \A i \in Idx : N[i] # None => W[i] \in 1 .. Len(b.outs)
  BY <1>3
<1>6. c = [b EXCEPT !.st = "computing", !.next = N, !.rows = W]
  BY DEF Computing
<1> HIDE DEF N, W
<1>7. c \in BatchType /\ c.st = "computing" /\ c.next = N /\ c.rows = W /\ c.outs = b.outs
  BY ONLY <1>4, <1>6, b \in BatchType DEF BatchType
<1> QED BY <1>5, <1>7 DEF RowsOf

(* The first section of computeBatch *)
LEMMA GatherInv ==
    ASSUME Inv, NEW k \in 1 .. Len(flight), Gather(k)
    PROVE  Inv'
<1>1. Flying(flight, last) /\ flight \in Seq(BatchType) /\ Around
  BY DEF Inv, Flying
<1> DEFINE b == flight[k]
           G == Mine(b)
           S == Samplers(b)
           c == Computing(b, S)
<1>2. /\ b.st = "built" /\ srv' = Gathering(b, G, S) /\ flight' = [flight EXCEPT ![k] = c]
      /\ conf' = conf /\ hpc' = hpc /\ gone' = gone /\ last' = last /\ early' = early /\ down' = down
  BY GatherMeans
<1>3. k \in DOMAIN flight /\ k = Len(flight) /\ last = "flying" /\ b \in BatchType /\ b = Latest(flight)
  BY <1>1, <1>2 DEF Flying, Latest
<1>4. /\ Sound(srv')
      /\ \A i \in Idx : Used(srv', i) => Who(srv', i).pending = << >> /\ Who(srv', i).inputs # << >>
  BY <1>2, <1>3, GatheringSound
<1>5. c \in BatchType /\ RowsOf(c) /\ c.st = "computing"
  BY <1>3, ComputingIs
<1> HIDE DEF b, G, S, c
<1>6. Flying(flight', last')
  <2>1. /\ flight' \in Seq(BatchType) /\ Len(flight') = Len(flight) /\ DOMAIN flight' = DOMAIN flight
        /\ flight' # << >> /\ flight'[k] = c /\ \A j \in DOMAIN flight : j # k => flight'[j] = flight[j]
    BY <1>1, <1>2, <1>3, <1>5
  <2>2. \A j \in DOMAIN flight' : RowsOf(flight'[j]) /\ flight'[j].st # "built"
    BY <1>1, <1>3, <1>5, <2>1 DEF Flying
  <2> QED BY <1>2, <1>3, <2>1, <2>2 DEF Flying
<1>7. Awaits(srv', flight', last')
  BY <1>4 DEF Awaits
<1>8. gone' \in SUBSET Req /\ down' \in BOOLEAN /\ early' \in BOOLEAN
  BY <1>1, <1>2 DEF Around
<1> QED BY <1>2, <1>4, <1>6, <1>7, <1>8, SameHandlers
(* Sampling a token of one sequence *)
LEMMA DecodeMeans ==
    ASSUME NEW x, NEW b, NEW i, NEW o, NEW z \in DecodeOne(x, b, i, o), z # Panicked,
           NEW y, y = Decoded(x, b, i, o)
    PROVE  /\ ~(Len(x.slots[x.seq[x.seqs[i]].slot].Inputs) < o.cut)
           /\ \/ o.kind \in {"eos", "stop"} /\ z \in RemoveSequence(y, i)
              \/ o.kind = "hold" /\ z = y
              \/ o.kind = "send" /\ \E f \in FlushPending(y, x.seqs[i]) : z = f.x \/ z \in RemoveSequence(f.x, i)
              \/ o.kind \notin {"eos", "stop", "hold", "send"}
<1> DEFINE n == Len(x.slots[x.seq[x.seqs[i]].slot].Inputs)
<1>1. DecodeOne(x, b, i, o) =
        IF n < o.cut THEN {Panicked}
        ELSE CASE o.kind \in {"eos", "stop"} -> RemoveSequence(y, i)
               [] o.kind = "hold" -> {y}
               [] o.kind = "send" -> UNION {IF f.ok THEN {f.x} ELSE RemoveSequence(f.x, i) : f \in FlushPending(y, x.seqs[i])}
  BY DEF DecodeOne
<1> HIDE DEF n
<1>2. ~(n < o.cut)
  BY <1>1
<1>3. CASE o.kind \in {"eos", "stop"}
  BY <1>1, <1>2, <1>3 DEF n
<1>4. CASE o.kind = "hold"
  BY <1>1, <1>2, <1>4 DEF n
<1>5. CASE o.kind = "send"
  <2>1. z \in UNION {IF f.ok THEN {f.x} ELSE RemoveSequence(f.x, i) : f \in FlushPending(y, x.seqs[i])}
    BY <1>1, <1>2, <1>5
  <2>2. PICK f \in FlushPending(y, x.seqs[i]) : z \in IF f.ok THEN {f.x} ELSE RemoveSequence(f.x, i)
    BY <2>1
  <2>3. z = f.x \/ z \in RemoveSequence(f.x, i)
    BY <2>2
  <2> QED BY <1>2, <1>5, <2>3 DEF n
<1> QED BY <1>2, <1>3, <1>4, <1>5 DEF n
\* What a step of the second section keeps: the invariant, and the inputs of
\* the sequences that go on.
Stays(x, y, j) ==
    /\ Used(x, j) /\ y.seqs[j] = x.seqs[j] /\ Who(y, j).inputs = Who(x, j).inputs
    /\ Who(y, j).pending = Who(x, j).pending /\ Who(y, j).iBatch = Who(x, j).iBatch
Kept(x, y) == Sound(y) /\ \A j \in Idx : Used(y, j) => Stays(x, y, j)

\* A token of the sequence at the place i of x is sampled for the batch b.
Samples(x, b, i, o) ==
    /\ Sound(x) /\ i \in Idx /\ Used(x, i) /\ b \in BatchType /\ RowsOf(b) /\ b.next[i] # None
    /\ o \in Outcomes(x, x.seqs[i]) /\ ~(Len(x.slots[x.seq[x.seqs[i]].slot].Inputs) < o.cut)

(* An outcome has a token, and cuts at most what is held. *)
LEMMA OutcomeIs ==
    ASSUME NEW x, NEW q, Len(x.seq[q].held) \in Nat, NEW o \in Outcomes(x, q)
    PROVE  /\ o.tok \in TokVals /\ o.kind \in {"eos", "stop", "hold", "send"} /\ o.cut \in 0 .. Len(x.seq[q].held)
           /\ o.kind \in {"hold", "send"} => o.cut = 0
<1>1. CASE o = [tok |-> Eos, kind |-> "eos", cut |-> 0]
  BY <1>1 DEF TokVals
<1>2. CASE o \in {p \in [tok : Toks, kind : {"send", "hold", "stop"}, cut : 0 .. Len(x.seq[q].held)] :
                   p.kind \in Kinds[p.tok] /\ (p.kind # "stop" => p.cut = 0)}
  BY <1>2 DEF TokVals
<1> QED BY <1>1, <1>2 DEF Outcomes

(* The text held after a token was sampled *)
LEMMA HeldIs ==
    ASSUME NEW held \in Seq(Pieces), NEW piece \in Pieces, NEW o, o.cut \in 0 .. Len(held)
    PROVE  HeldAfter(held, piece, o) \in Seq(Pieces)
<1>1. Append(held, piece) \in Seq(Pieces) /\ SubSeq(held, 1, Len(held) - o.cut) \in Seq(Pieces)
  OBVIOUS
<1> QED BY <1>1 DEF HeldAfter

(* Replacing an element that may be there *)
LEMMA ReplacedType ==
    ASSUME NEW S, NEW v \in Seq(S), NEW m, NEW e \in S
    PROVE  [v EXCEPT ![m] = e] \in Seq(S)
<1>1. CASE m \in 1 .. Len(v)
  BY <1>1
<1>2. CASE m \notin 1 .. Len(v)
  <2>1. v = [j \in 1 .. Len(v) |-> v[j]]
    OBVIOUS
  <2>2. [v EXCEPT ![m] = e] = v
    BY <1>2, <2>1
  <2> QED BY Zenon, <2>2
<1> QED BY <1>1, <1>2

\* y is x after the sequence r at the place i has h held, with I in its slot.
Noted(x, y, i, r, h, I) ==
    \E t, k : /\ Updates(x, i, t, I, x.kv[r.slot], x.cell, k) /\ y = Updated(x, i, t, I, x.kv[r.slot], x.cell, k)
              /\ t = [r EXCEPT !.held = h]

(* The token that was sampled changes one sequence and its slot. *)
LEMMA DecodedIs ==
    ASSUME Ready, NEW x, NEW b, NEW i, NEW o, Samples(x, b, i, o), NEW y, y = Decoded(x, b, i, o),
           NEW r, r = Who(x, i), NEW h, h = HeldAfter(r.held, b.outs[b.rows[i]], o),
           NEW I, I = SubSeq(Inp(x, i), 1, Len(Inp(x, i)) - o.cut)
    PROVE  Noted(x, y, i, r, h, I)
<1> USE DEF Samples
<1>1. x \in SrvType /\ Almost(x, i) /\ \A s \in Idx : Fits(x, s)
  BY SoundIsAlmost DEF Sound, Filled
<1> DEFINE q == x.seqs[i]
           s == r.slot
           p == b.next[i]
<1>2. q \in Req /\ r \in SeqType /\ r = x.seq[q] /\ s \in Idx /\ r.held \in Seq(Pieces)
  BY <1>1 DEF SrvType, SeqType, Used, Who
<1>3. o.tok \in TokVals /\ o.cut \in 0 .. Len(r.held)
  <2>1. Len(x.seq[q].held) \in Nat
    BY <1>2
  <2> QED BY <1>2, <2>1, OutcomeIs
<1>4. b.outs[b.rows[i]] \in Pieces /\ p \in Pieces
  BY DEF BatchType, RowsOf
<1>5. h \in Seq(Pieces)
  BY <1>2, <1>3, <1>4, HeldIs
<1> DEFINE t == [r EXCEPT !.held = h]
           w == [x.tok[p[1]] EXCEPT ![p[2]] = o.tok]
           k == [x.tok EXCEPT ![p[1]] = w]
           K == x.kv[s]
<1>6. t \in SeqType /\ t.slot = s
  BY Zenon, <1>2, <1>5 DEF SeqType
<1>7. Inp(x, i) = x.slots[s].Inputs /\ Inp(x, i) \in Seq(InputSet) /\ K \in Seq(CellIds)
      /\ Len(Inp(x, i)) <= Len(K) /\ Len(K) <= NumCtx
  BY Zenon, <1>1, <1>2 DEF Inp, SrvType, SlotType, Fits
<1>8. I \in Seq(InputSet) /\ Len(I) <= Len(K)
  <2>1. ~(Len(Inp(x, i)) < o.cut)
    BY Zenon, <1>2, <1>7
  <2> DEFINE J == Inp(x, i)
             n == Len(J) - o.cut
  <2>2. J \in Seq(InputSet) /\ n \in 0 .. Len(J) /\ I = SubSeq(J, 1, n)
    <3>1. J \in Seq(InputSet) /\ Len(J) \in Nat /\ Len(r.held) \in Nat
      <4>1. \A S : \A u \in Seq(S) : Len(u) \in Nat
        OBVIOUS
      <4>2. J \in Seq(InputSet) /\ r.held \in Seq(Pieces)
        BY Zenon, <1>2, <1>7 DEF J, SeqType
      <4> HIDE DEF J, n, K, q, s, p
      <4> QED BY ONLY Zenon, <4>1, <4>2
    <3>2. n \in 0 .. Len(J)
      BY ONLY <1>3, <2>1, <3>1
    <3> QED BY <3>1, <3>2
  <2>3. Len(J) <= Len(K) /\ K \in Seq(CellIds)
    BY <1>7
  <2> HIDE DEF J, n, K
  <2>4. I \in Seq(InputSet) /\ Len(I) = n
    BY ONLY <2>2, PartIs
  <2> QED BY <2>2, <2>3, <2>4
<1>9. k \in [Req -> Seq(TokVals)]
  <2>1. p[1] \in Req
    BY <1>4 DEF Pieces
  <2>2. x.tok \in [Req -> Seq(TokVals)] /\ x.tok[p[1]] \in Seq(TokVals)
    BY <1>1, <2>1 DEF SrvType
  <2>3. w \in Seq(TokVals)
    BY <1>3, <2>2, ReplacedType
  <2> HIDE DEF w
  <2> QED BY <2>1, <2>2, <2>3
<1>10. x.cell \in [CellIds -> Keys]
  BY <1>1 DEF SrvType
<1>11. y = [x EXCEPT !.tok = k, !.seq = [x.seq EXCEPT ![q] = t],
                     !.slots = [x.slots EXCEPT ![s] = [x.slots[s] EXCEPT !.Inputs = I]]]
  BY Zenon, <1>2, <1>7 DEF Decoded
<1> HIDE DEF k, t, K, q, s
<1>12. Updates(x, i, t, I, K, x.cell, k)
  BY Zenon, <1>1, <1>6, <1>7, <1>8, <1>9, <1>10 DEF Updates, s
<1>13. y = Updated(x, i, t, I, K, x.cell, k)
  <2> DEFINE A == [x.seq EXCEPT ![q] = t]
             B == [x.slots EXCEPT ![s] = [x.slots[s] EXCEPT !.Inputs = I]]
             C == [x.kv EXCEPT ![s] = K]
  <2>1. C = x.kv
    BY <1>1 DEF SrvType, K
  <2>2. Updated(x, i, t, I, K, x.cell, k) = [x EXCEPT !.seq = A, !.slots = B, !.kv = C, !.cell = x.cell, !.tok = k]
    BY Zenon, <1>6 DEF Updated, q
  <2>3. y = [x EXCEPT !.tok = k, !.seq = A, !.slots = B]
    BY <1>11
  <2> HIDE DEF A, B, C
  <2> QED BY ONLY <1>1, <2>1, <2>2, <2>3 DEF SrvType
<1>14. \E tt, kk : Updates(x, i, tt, I, K, x.cell, kk) /\ y = Updated(x, i, tt, I, K, x.cell, kk)
                   /\ tt = [r EXCEPT !.held = h]
  BY <1>12, <1>13 DEF t
<1> QED BY Zenon, <1>14 DEF K, s, Noted
(* It keeps the invariant, but for a slot that is cut at a stop sequence. *)
LEMMA DecodedSound ==
    ASSUME Ready, NEW x, NEW b, NEW i, NEW o, Samples(x, b, i, o), NEW y, y = Decoded(x, b, i, o)
    PROVE  /\ Almost(y, i) /\ Used(y, i) /\ y.seqs = x.seqs
           /\ \A j \in Idx : Used(x, j) => Stays(x, y, j)
           /\ o.kind \in {"hold", "send"} => Sound(y)
<1> DEFINE r == Who(x, i)
           h == HeldAfter(r.held, b.outs[b.rows[i]], o)
           I == SubSeq(Inp(x, i), 1, Len(Inp(x, i)) - o.cut)
           K == x.kv[r.slot]
<1>0. i \in Idx /\ Used(x, i) /\ Sound(x) /\ x \in SrvType /\ o \in Outcomes(x, x.seqs[i])
  BY DEF Samples, Sound
<1>n. Noted(x, y, i, r, h, I)
  BY DecodedIs
<1> HIDE DEF h, I, r
<1>1. PICK t, k : /\ Updates(x, i, t, I, K, x.cell, k) /\ y = Updated(x, i, t, I, K, x.cell, k)
                  /\ t = [r EXCEPT !.held = h]
  BY ONLY <1>n DEF Noted
<1> HIDE DEF K
<1>2. x.seqs[i] \in Req /\ r \in SeqType /\ r = x.seq[x.seqs[i]] /\ r.slot \in Idx
  BY <1>0 DEF Used, SrvType, SeqType, Who, r
<1>3. /\ t.slot = r.slot /\ t.pending = r.pending /\ t.inputs = r.inputs /\ t.prompt = r.prompt
      /\ t.numPredicted = r.numPredicted /\ t.numKeep = r.numKeep /\ t.iBatch = r.iBatch
  BY <1>1, <1>2 DEF SeqType
<1>4. /\ Almost(y, i) /\ y.seqs = x.seqs /\ Used(y, i) /\ Who(y, i) = t /\ Inp(y, i) = I /\ y.kv[t.slot] = K
      /\ \A j \in Idx : Used(x, j) /\ j # i => Who(y, j) = Who(x, j)
      /\ Len(K) = Len(I) + Len(t.pending) /\ Whole(x.seqs[i], t, I) => Sound(y)
  <2>1. Updates(x, i, t, I, K, x.cell, k) /\ y = Updated(x, i, t, I, K, x.cell, k)
    BY <1>1
  <2> QED BY ONLY Ready, <1>0, <2>1, UpdateSound
<1>5. ASSUME NEW j \in Idx, Used(x, j) PROVE Stays(x, y, j)
  <2>1. CASE j = i
    BY <1>0, <1>3, <1>4, <2>1 DEF Stays, r
  <2>2. CASE j # i
    BY <1>4, <1>5, <2>2 DEF Stays
  <2> QED BY <2>1, <2>2
<1>6. ASSUME o.kind \in {"hold", "send"} PROVE Sound(y)
  <2>1. o.cut = 0
    <3>1. x.seq[x.seqs[i]].held \in Seq(Pieces)
      BY <1>2 DEF SeqType
    <3>2. Len(x.seq[x.seqs[i]].held) \in Nat
      BY <3>1
    <3> QED BY <1>0, <1>6, <3>2, OutcomeIs
  <2>2. Inp(x, i) \in Seq(InputSet)
    BY <1>0, <1>2 DEF Inp, SrvType, SlotType, r
  <2>3. I = Inp(x, i)
    <3> DEFINE J == Inp(x, i)
    <3>1. J \in Seq(InputSet) /\ I = SubSeq(J, 1, Len(J) - o.cut)
      BY <2>2 DEF I
    <3> HIDE DEF J
    <3>2. Len(J) \in Nat /\ Len(J) - o.cut = Len(J) /\ SubSeq(J, 1, Len(J)) = J
      BY <2>1, <3>1
    <3> QED BY ONLY <3>1, <3>2 DEF J
  <2>4. Cached(x, i) /\ Whole(x.seqs[i], r, Inp(x, i))
    BY <1>0 DEF Sound, Filled, r
  <2>5. Whole(x.seqs[i], t, I)
    BY <1>3, <2>3, <2>4, WholeOfSame
  <2>6. Len(K) = Len(I) + Len(t.pending)
    BY <1>3, <2>3, <2>4 DEF Cached, K, r
  <2> QED BY <1>4, <2>5, <2>6
<1> QED BY <1>4, <1>5, <1>6

(* The end of one sequence leaves the others as they are. *)
LEMMA RemovedStays ==
    ASSUME Ready, NEW x, NEW i \in Idx, Almost(x, i), Used(x, i), NEW y \in RemoveSequence(x, i)
    PROVE  Sound(y) /\ \A j \in Idx : Used(y, j) => Stays(x, y, j)
<1>1. /\ Sound(y) /\ y.seqs = [x.seqs EXCEPT ![i] = None]
      /\ \A j \in Idx : Used(y, j) => /\ Used(x, j) /\ y.seqs[j] = x.seqs[j]
                                      /\ Who(y, j).inputs = Who(x, j).inputs
                                      /\ Who(y, j).pending = Who(x, j).pending
                                      /\ Who(y, j).iBatch = Who(x, j).iBatch
  BY RemoveSound
<1> QED BY <1>1 DEF Stays

(* One sequence in the second section of computeBatch *)
LEMMA DecodeOneKept ==
    ASSUME Ready, NEW x, NEW b, NEW i, NEW o, Sound(x), i \in Idx, Used(x, i), b \in BatchType, RowsOf(b),
           b.next[i] # None, o \in Outcomes(x, x.seqs[i]), NEW z \in DecodeOne(x, b, i, o), z # Panicked
    PROVE  Kept(x, z)
<1> DEFINE y == Decoded(x, b, i, o)
<1>1. /\ ~(Len(x.slots[x.seq[x.seqs[i]].slot].Inputs) < o.cut)
      /\ \/ o.kind \in {"eos", "stop"} /\ z \in RemoveSequence(y, i)
         \/ o.kind = "hold" /\ z = y
         \/ o.kind = "send" /\ \E f \in FlushPending(y, x.seqs[i]) : z = f.x \/ z \in RemoveSequence(f.x, i)
         \/ o.kind \notin {"eos", "stop", "hold", "send"}
  BY DecodeMeans
<1>2. /\ Almost(y, i) /\ Used(y, i) /\ y.seqs = x.seqs
      /\ \A j \in Idx : Used(x, j) => Stays(x, y, j)
      /\ o.kind \in {"hold", "send"} => Sound(y)
  BY Zenon, <1>1, DecodedSound DEF Samples
<1> HIDE DEF y
<1>3. o.kind \in {"eos", "stop", "hold", "send"}
  <2>1. x.seq[x.seqs[i]].held \in Seq(Pieces)
    BY DEF Sound, SrvType, SeqType, Used
  <2>2. Len(x.seq[x.seqs[i]].held) \in Nat
    <3>1. \A u \in Seq(Pieces) : Len(u) \in Nat
      OBVIOUS
    <3> QED BY ONLY <2>1, <3>1
  <2> QED BY <2>2, OutcomeIs
<1>4. \A j \in Idx : Used(y, j) => Used(x, j)
  BY <1>2 DEF Used
<1>5. CASE z \in RemoveSequence(y, i)
  <2>1. Sound(z) /\ \A j \in Idx : Used(z, j) => Stays(y, z, j)
    BY <1>2, <1>5, RemovedStays
  <2> QED BY <1>2, <1>4, <2>1 DEF Kept, Stays
<1>6. CASE o.kind = "hold" /\ z = y
  BY <1>2, <1>4, <1>6 DEF Kept
<1>7. CASE o.kind = "send" /\ \E f \in FlushPending(y, x.seqs[i]) : z = f.x \/ z \in RemoveSequence(f.x, i)
  <2>1. PICK f \in FlushPending(y, y.seqs[i]) : z = f.x \/ z \in RemoveSequence(f.x, i)
    BY <1>2, <1>7
  <2> DEFINE w == f.x
  <2>2. Sound(y)
    BY <1>2, <1>7
  <2>3. /\ Almost(w, i) /\ w.seqs = y.seqs /\ Sound(w)
        /\ \A p \in Req : w.seq[p].inputs = y.seq[p].inputs /\ w.seq[p].pending = y.seq[p].pending
                          /\ w.seq[p].iBatch = y.seq[p].iBatch
    BY <1>2, <2>2, FlushSound
  <2> HIDE DEF w
  <2>4. \A j \in Idx : Used(w, j) => Stays(y, w, j)
    <3>1. \A j \in Idx : Used(w, j) => Used(y, j) /\ y.seqs[j] \in Req
      BY <2>2, <2>3 DEF Used, Sound, SrvType
    <3> QED BY <2>3, <3>1 DEF Stays, Who
  <2>5. Used(w, i)
    BY <1>2, <2>3 DEF Used
  <2>6. \A j \in Idx : Used(w, j) => Stays(x, w, j)
    BY <1>2, <1>4, <2>4 DEF Stays
  <2>7. CASE z = w
    BY <2>3, <2>6, <2>7 DEF Kept
  <2>8. CASE z \in RemoveSequence(w, i)
    <3>1. Sound(z) /\ \A j \in Idx : Used(z, j) => Stays(w, z, j)
      BY <2>3, <2>5, <2>8, RemovedStays
    <3> QED BY <2>6, <3>1 DEF Kept, Stays
  <2> QED BY <2>1, <2>7, <2>8 DEF w
<1> QED BY <1>1, <1>3, <1>5, <1>6, <1>7
(* One place in the second section *)
LEMMA DecodeSeqKept ==
    ASSUME Ready, NEW x, Sound(x), NEW b \in BatchType, RowsOf(b), NEW i \in Idx, NEW z \in DecodeSeq(x, b, i), z # Panicked
    PROVE  Kept(x, z)
<1>1. CASE z = x
  BY <1>1 DEF Kept, Stays
<1>2. CASE Used(x, i) /\ b.next[i] # None /\ \E o \in Outcomes(x, x.seqs[i]) : z \in DecodeOne(x, b, i, o)
  BY <1>2, DecodeOneKept
<1> QED BY <1>1, <1>2 DEF DecodeSeq, Used

(* The relation composes. *)
LEMMA KeptTwice ==
    ASSUME NEW x, NEW y, NEW z, Kept(x, y), Kept(y, z)
    PROVE  Kept(x, z)
BY DEF Kept, Stays

DecOp(b, i, X) == DecodePlace(b, X, i)
DecIn == INSTANCE FoldInduction WITH Op <- DecOp

(* The second section keeps the invariant, unless it panics. *)
LEMMA DecodeKept ==
    ASSUME Ready, Sound(srv), NEW b \in BatchType, RowsOf(b), NEW x \in DecodeAll(b), x # Panicked
    PROVE  Kept(srv, x)
<1> DEFINE P == {y \in SrvType \cup {Panicked} : y # Panicked => Kept(srv, y)}
           n == Parallel
           J == [j \in 0 .. n |-> SUBSET P]
           s == [j \in 1 .. n |-> j - 1]
<1>1. n \in Nat /\ Idx = 0 .. n - 1
  BY Numbers DEF Idx
<1>2. DOMAIN s = 1 .. n /\ \A j \in 1 .. n : s[j] \in Idx
  BY <1>1
<1>3. {srv} \in J[0]
  <2>1. Kept(srv, srv) /\ srv \in SrvType
    BY DEF Kept, Stays, Sound
  <2> QED BY <1>1, <2>1
<1>4. ASSUME NEW j \in 1 .. n, NEW X \in J[j - 1] PROVE DecOp(b, s[j], X) \in J[j]
  <2>1. j - 1 \in 0 .. n /\ j \in 0 .. n /\ s[j] \in Idx
    BY <1>1, <1>2
  <2>2. X \subseteq P
    BY <2>1
  <2> DEFINE i == s[j]
  <2> HIDE DEF i
  <2>3. ASSUME NEW z \in DecodePlace(b, X, i) PROVE z \in P
    <3>1. PICK y \in X : z \in DecodeSeq(y, b, i)
      BY <2>3 DEF DecodePlace
    <3>2. CASE z = Panicked
      BY <3>2
    <3>3. CASE z # Panicked
      <4>1. y # Panicked
        BY <3>1, <3>3 DEF DecodeSeq
      <4>2. Kept(srv, y) /\ Sound(y)
        BY <2>2, <3>1, <4>1 DEF Kept
      <4>3. Kept(y, z)
        BY <2>1, <3>1, <3>3, <4>2, DecodeSeqKept DEF i
      <4>4. Kept(srv, z) /\ z \in SrvType
        BY <4>2, <4>3, KeptTwice DEF Kept, Sound
      <4> QED BY <4>4
    <3> QED BY <3>2, <3>3
  <2> HIDE DEF P
  <2> QED BY <2>1, <2>3 DEF DecOp, i
<1>5. DecIn!LeftFold(b, {srv}, s) \in J[n]
  <2>1. \A j \in 1 .. n : \A X \in J[j - 1] : DecOp(b, s[j], X) \in J[j]
    BY <1>4
  <2> HIDE DEF J, n, s
  <2>2. DecIn!WellOrdered /\ DecIn!Ranked(1 .. n)
    <3>1. IsFiniteSet(1 .. n)
      BY <1>1, FS_Interval
    <3> QED BY <3>1, LeastNatural, FiniteRanks DEF DecIn!WellOrdered, DecIn!Ranked
  <2> QED BY ONLY <1>1, <1>2, <1>3, <2>1, <2>2, DecIn!FoldLeftInduction
<1>6. DecodeAll(b) = DecIn!LeftFold(b, {srv}, s)
  BY DEF DecodeAll, DecIn!LeftFold, DecOp, FoldLeft, MapThenFoldSet, DecIn!MapThenFoldSet, Max, DecIn!Top
<1>7. x \in P
  <2>1. n \in 0 .. n
    BY <1>1
  <2> HIDE DEF P
  <2> QED BY <1>5, <1>6, <2>1
<1> QED BY <1>7
(* A sequence without its k-th element *)
LEMMA RemoveAtIs ==
    ASSUME NEW S, NEW s \in Seq(S), NEW k \in 1 .. Len(s)
    PROVE  /\ RemoveAt(s, k) \in Seq(S) /\ Len(RemoveAt(s, k)) = Len(s) - 1
           /\ \A p \in 1 .. Len(s) - 1 : RemoveAt(s, k)[p] = s[IF p < k THEN p ELSE p + 1]
<1>1. k - 1 \in Nat /\ k - 1 + 1 <= Len(s) /\ 1 \in Nat /\ (k - 1) + 1 + 1 = k + 1
  OBVIOUS
<1>2. RemoveAt(s, k) = Without(s, k - 1, 1)
  BY <1>1 DEF RemoveAt, Without
<1>3. /\ Without(s, k - 1, 1) \in Seq(S) /\ Len(Without(s, k - 1, 1)) = Len(s) - 1
      /\ \A p \in 1 .. Len(s) - 1 : Without(s, k - 1, 1)[p] = s[Origin(p, k - 1, 1)]
  BY <1>1, WithoutIs
<1>4. \A p \in 1 .. Len(s) - 1 : Origin(p, k - 1, 1) = IF p < k THEN p ELSE p + 1
  BY DEF Origin
<1> QED BY <1>2, <1>3, <1>4

(* A batch that is done leaves the others in flight. *)
LEMMA DoneFlies ==
    ASSUME Flying(flight, last), NEW k \in 1 .. Len(flight), flight[k].st = "computing",
           NEW rest, rest = IF k < Len(flight) THEN [flight EXCEPT ![k + 1].ready = TRUE] ELSE flight,
           NEW f, f = RemoveAt(rest, k), NEW l, l = IF k = Len(flight) /\ last = "flying" THEN "done" ELSE last
    PROVE  /\ Flying(f, l)
           /\ last = "flying" /\ Latest(flight).st = "built" =>
                 /\ l = "flying" /\ Latest(f).st = "built" /\ Latest(f).seqs = Latest(flight).seqs
                 /\ Latest(f).outs = Latest(flight).outs
<1>1. flight \in Seq(BatchType) /\ last \in {"nil", "flying", "done"}
  BY DEF Flying
<1>2. /\ rest \in Seq(BatchType) /\ Len(rest) = Len(flight)
      /\ \A j \in 1 .. Len(flight) : /\ rest[j].st = flight[j].st /\ rest[j].seqs = flight[j].seqs
                                     /\ rest[j].outs = flight[j].outs /\ rest[j].next = flight[j].next
                                     /\ rest[j].rows = flight[j].rows
  <2>1. CASE k < Len(flight)
    <3> DEFINE c == [flight[k + 1] EXCEPT !.ready = TRUE]
               m == k + 1
    <3>1. m \in 1 .. Len(flight) /\ flight[m] \in BatchType
      BY <1>1, <2>1
    <3>2. /\ c \in BatchType /\ c.st = flight[m].st /\ c.seqs = flight[m].seqs /\ c.outs = flight[m].outs
          /\ c.next = flight[m].next /\ c.rows = flight[m].rows
      BY <3>1 DEF BatchType
    <3>3. rest = [flight EXCEPT ![m] = c]
      BY <2>1
    <3> HIDE DEF c, m
    <3>4. /\ rest \in Seq(BatchType) /\ Len(rest) = Len(flight) /\ rest[m] = c
          /\ \A j \in 1 .. Len(flight) : j # m => rest[j] = flight[j]
      BY ONLY <1>1, <3>1, <3>2, <3>3
    <3> QED BY ONLY <3>2, <3>4
  <2>2. CASE ~(k < Len(flight))
    BY <1>1, <2>2
  <2> QED BY <2>1, <2>2
<1> DEFINE n == Len(flight)
           from(p) == IF p < k THEN p ELSE p + 1
<1>3. n \in Nat \ {0} /\ k \in 1 .. n /\ DOMAIN flight = 1 .. n
  BY <1>1
<1>4. f \in Seq(BatchType) /\ Len(f) = n - 1 /\ \A p \in 1 .. n - 1 : f[p] = rest[from(p)]
  <2>1. rest \in Seq(BatchType) /\ Len(rest) = n /\ k \in 1 .. Len(rest) /\ f = RemoveAt(rest, k)
    BY <1>2, <1>3
  <2> HIDE DEF n
  <2>2. /\ f \in Seq(BatchType) /\ Len(f) = Len(rest) - 1
        /\ \A p \in 1 .. Len(rest) - 1 : f[p] = rest[IF p < k THEN p ELSE p + 1]
    BY ONLY <2>1, RemoveAtIs
  <2> QED BY ONLY <2>1, <2>2
<1>5. DOMAIN f = 1 .. n - 1
  BY <1>4
<1>s. \A j \in 1 .. n : /\ rest[j].st = flight[j].st /\ rest[j].seqs = flight[j].seqs
                        /\ rest[j].outs = flight[j].outs /\ rest[j].next = flight[j].next
                        /\ rest[j].rows = flight[j].rows
  BY <1>2
<1> HIDE DEF n
<1>6. \A p \in 1 .. n - 1 : from(p) \in 1 .. n /\ (from(p) = n => p = n - 1)
  BY ONLY <1>3
<1>7. k < n => from(n - 1) = n
  BY ONLY <1>3
<1> HIDE DEF from
<1>8. \A p \in 1 .. n - 1 : /\ f[p].st = flight[from(p)].st /\ f[p].seqs = flight[from(p)].seqs
                            /\ f[p].outs = flight[from(p)].outs /\ f[p].next = flight[from(p)].next
                            /\ f[p].rows = flight[from(p)].rows
  BY ONLY <1>s, <1>4, <1>6
<1>9. \A j \in 1 .. n : RowsOf(flight[j]) /\ (flight[j].st = "built" => j = n /\ last = "flying")
  BY <1>3 DEF Flying, n
<1>10. \A p \in 1 .. n - 1 : RowsOf(f[p])
  <2> SUFFICES ASSUME NEW p \in 1 .. n - 1 PROVE RowsOf(f[p])
    OBVIOUS
  <2>1. RowsOf(flight[from(p)])
    BY <1>6, <1>9
  <2> QED BY <1>8, <2>1 DEF RowsOf
<1>11. ASSUME NEW p \in 1 .. n - 1, f[p].st = "built" PROVE p = n - 1 /\ l = "flying"
  <2>1. from(p) = n /\ last = "flying" /\ flight[n].st = "built"
    BY <1>6, <1>8, <1>9, <1>11
  <2>2. k # n
    BY <2>1
  <2> QED BY <1>6, <2>1, <2>2 DEF n
<1>12. l \in {"nil", "flying", "done"} /\ (l = "flying" => f # << >>)
  <2>1. l = "flying" => k < n
    BY <1>3 DEF n
  <2>2. k < n => Len(f) # 0
    BY <1>3, <1>4
  <2>3. Len(<< >>) = 0
    OBVIOUS
  <2> QED BY <1>1, <2>1, <2>2, <2>3
<1>13. Flying(f, l)
  BY <1>4, <1>5, <1>10, <1>11, <1>12 DEF Flying
<1>14. ASSUME last = "flying", Latest(flight).st = "built"
       PROVE  /\ l = "flying" /\ Latest(f).st = "built" /\ Latest(f).seqs = Latest(flight).seqs
              /\ Latest(f).outs = Latest(flight).outs
  <2>1. Latest(flight) = flight[n] /\ k # n
    BY <1>14 DEF Latest, n
  <2>2. k < n /\ n - 1 \in 1 .. n - 1
    BY <1>3, <2>1
  <2>3. Latest(f) = f[n - 1] /\ from(n - 1) = n
    BY <1>4, <1>7, <2>2 DEF Latest
  <2> QED BY <1>8, <1>14, <2>1, <2>2, <2>3 DEF n
<1> QED BY <1>13, <1>14

(* The second section of computeBatch *)
LEMMA DecodeInv ==
    ASSUME Inv, NEW k \in 1 .. Len(flight), Decode(k)
    PROVE  Inv'
<1>1. Ready /\ Around /\ Sound(srv) /\ Flying(flight, last) /\ Awaits(srv, flight, last) /\ flight \in Seq(BatchType)
  BY DEF Inv, Flying
<1> DEFINE b == flight[k]
           rest == IF k < Len(flight) THEN [flight EXCEPT ![k + 1].ready = TRUE] ELSE flight
<1>2. /\ b.st = "computing" /\ flight' = RemoveAt(rest, k)
      /\ last' = IF k = Len(flight) /\ last = "flying" THEN "done" ELSE last
      /\ conf' = conf /\ hpc' = hpc /\ gone' = gone /\ early' = early
  BY DEF Decode
<1>3. PICK x \in DecodeAll(b) : srv' = (IF x = Panicked THEN srv ELSE x) /\ down' = (x = Panicked)
  BY DEF Decode
<1>4. b \in BatchType /\ RowsOf(b)
  BY <1>1 DEF Flying
<1>5. /\ Flying(flight', last')
      /\ last = "flying" /\ Latest(flight).st = "built" =>
            /\ last' = "flying" /\ Latest(flight').st = "built" /\ Latest(flight').seqs = Latest(flight).seqs
            /\ Latest(flight').outs = Latest(flight).outs
  <2> DEFINE f == flight'
             l == last'
  <2>1. f = RemoveAt(rest, k) /\ l = IF k = Len(flight) /\ last = "flying" THEN "done" ELSE last
    BY <1>2
  <2> HIDE DEF f, l
  <2>2. /\ Flying(f, l)
        /\ last = "flying" /\ Latest(flight).st = "built" =>
              /\ l = "flying" /\ Latest(f).st = "built" /\ Latest(f).seqs = Latest(flight).seqs
              /\ Latest(f).outs = Latest(flight).outs
    BY <1>1, <1>2, <2>1, DoneFlies
  <2> QED BY <2>2 DEF f, l
<1>6. Kept(srv, srv')
  <2>1. CASE x = Panicked
    BY <1>1, <1>3, <2>1 DEF Kept, Stays
  <2>2. CASE x # Panicked
    BY <1>1, <1>3, <1>4, <2>2, DecodeKept
  <2> QED BY <2>1, <2>2
<1> HIDE DEF b, rest
<1>7. Awaits(srv', flight', last')
  <2> SUFFICES ASSUME NEW i \in Idx, Used(srv', i)
               PROVE  /\ Who(srv', i).pending # << >> =>
                            last' = "flying" /\ Latest(flight').st = "built" /\ Latest(flight').seqs[i] = srv'.seqs[i]
                      /\ Who(srv', i).inputs = << >> =>
                            Who(srv', i).pending # << >> /\ Who(srv', i).iBatch \in 1 .. Len(Latest(flight').outs)
    BY DEF Awaits
  <2>1. Stays(srv, srv', i)
    BY <1>6 DEF Kept
  <2>2. /\ Who(srv, i).pending # << >> => last = "flying" /\ Latest(flight).st = "built" /\ Latest(flight).seqs[i] = srv.seqs[i]
        /\ Who(srv, i).inputs = << >> => Who(srv, i).pending # << >> /\ Who(srv, i).iBatch \in 1 .. Len(Latest(flight).outs)
    BY <1>1, <2>1 DEF Awaits, Stays
  <2> QED BY <1>5, <2>1, <2>2 DEF Stays
<1>8. gone' \in SUBSET Req /\ down' \in BOOLEAN /\ early' \in BOOLEAN
  BY <1>1, <1>2, <1>3 DEF Around
<1>9. Sound(srv')
  BY <1>6 DEF Kept
<1> QED BY <1>2, <1>5, <1>7, <1>8, <1>9, SameHandlers
-----------------------------------------------------------------------------
(* The steps of the handlers *)

\* The handler of q moves on to v, and at most the sequence of q, its permit
\* and tokens change.
MovesOn(q, v) ==
    /\ v \in Stages /\ hpc' = [hpc EXCEPT ![q] = v]
    /\ conf' = conf /\ gone' = gone /\ last' = last /\ flight' = flight /\ early' = early /\ down' = down
    /\ srv' \in SrvType /\ srv'.seqs = srv.seqs /\ srv'.slots = srv.slots /\ srv'.kv = srv.kv
    /\ srv'.lru = srv.lru /\ srv'.ch = srv.ch /\ \A p \in Req \ {q} : srv'.seq[p] = srv.seq[p]
    /\ v \in {"waiting", "admit"} => New(srv'.seq[q])
    /\ (\A i \in Idx : srv.seqs[i] # q) \/ (srv'.seq[q] = srv.seq[q] /\ v = "done")

(* Requests between a permit and a place, after the handler of q moved on *)
LEMMA AdmittedIs ==
    ASSUME Inv, NEW q \in Req, NEW v, MovesOn(q, v)
    PROVE  Admitted' = IF v = "admit" THEN Admitted \cup {q} ELSE Admitted \ {q}
BY DEF Inv, Around, Admitted, MovesOn

(* Such a step keeps the invariant, if it does the number of permits. *)
LEMMA MovesOnInv ==
    ASSUME Inv, NEW q \in Req, NEW v, MovesOn(q, v), IsFiniteSet(Admitted'),
           srv'.sem + Cardinality(Admitted') = Cardinality(Free(srv))
    PROVE  Inv'
<1> USE DEF MovesOn
<1>1. Around /\ Ready /\ Sound(srv) /\ Flying(flight, last) /\ Awaits(srv, flight, last)
  BY DEF Inv
<1>2. Slotted(srv) /\ Seated(srv) /\ Listed(srv) /\ Queued(srv) /\ Filled(srv) /\ srv \in SrvType
  BY <1>1 DEF Sound, Placed
<1>3. \A i \in Idx : /\ Used(srv', i) <=> Used(srv, i)
                     /\ Used(srv, i) => srv.seqs[i] \in Req /\ Who(srv', i) = Who(srv, i) /\ Inp(srv', i) = Inp(srv, i)
  <2>1. \A i \in Idx : Used(srv', i) <=> Used(srv, i)
    BY DEF Used
  <2>2. \A i \in Idx : Used(srv, i) => srv.seqs[i] \in Req
    BY <1>2 DEF Used, SrvType
  <2>3. \A i \in Idx : Used(srv, i) => Who(srv', i) = Who(srv, i)
    BY <2>2 DEF Who
  <2> QED BY <2>1, <2>2, <2>3 DEF Inp
<1>4. Slotted(srv')
  BY <1>2, <1>3 DEF Slotted
<1>5. Listed(srv')
  BY <1>2 DEF Listed
<1>6. Filled(srv')
  <2>1. \A s \in Idx : Fits(srv', s)
    BY <1>2 DEF Filled, Fits
  <2>2. \A i \in Idx : Used(srv', i) => Cached(srv', i) /\ Whole(srv'.seqs[i], Who(srv', i), Inp(srv', i))
    BY <1>2, <1>3 DEF Filled, Cached
  <2> QED BY <1>2, <2>1, <2>2 DEF Filled
<1>7. Awaits(srv', flight', last')
  BY <1>1, <1>3 DEF Awaits
<1>8. Flying(flight', last')
  BY <1>1
<1>9. Slotted(srv)' /\ Listed(srv)' /\ Filled(srv)' /\ Flying(flight, last)' /\ Awaits(srv, flight, last)'
  BY <1>4, <1>5, <1>6, <1>7, <1>8, SameParts
<1>10. Idx' = Idx /\ SrvType' = SrvType
  BY SameTypes
<1>11. hpc \in [Req -> Stages] /\ hpc'[q] = v /\ \A p \in Req \ {q} : hpc'[p] = hpc[p]
  BY <1>1 DEF Around
<1>12. Seated(srv)'
  <2>1. \A i \in Idx : Used(srv, i) => hpc'[srv.seqs[i]] \in {"stream", "done"}
    BY <1>2, <1>3, <1>11 DEF Seated
  <2> QED BY <1>2, <1>3, <1>10, <2>1 DEF Seated, Used
<1>13. Queued(srv)'
  <2>1. \A p \in Req : hpc'[p] \in {"waiting", "admit"} => New(srv'.seq[p])
    BY <1>2, <1>11 DEF Queued
  <2> QED BY <2>1 DEF Queued, New
<1>14. Counted(srv)'
  <2>1. Free(srv)' = Free(srv)
    BY SameParts DEF Free
  <2> QED BY <2>1 DEF Counted
<1>15. Sound(srv)'
  BY <1>9, <1>10, <1>12, <1>13, <1>14 DEF Sound, Placed
<1>16. Ready' /\ Around'
  BY <1>1 DEF Ready, Around
<1> QED BY <1>9, <1>15, <1>16 DEF Inv

(* What is known of a request whose handler is not at a place *)
LEMMA NotSeated ==
    ASSUME Inv, NEW q \in Req, hpc[q] \in {"new", "waiting", "admit"}
    PROVE  /\ srv \in SrvType /\ Ready /\ hpc \in [Req -> Stages] /\ IsFiniteSet(Admitted)
           /\ \A i \in Idx : srv.seqs[i] # q
           /\ srv.sem + Cardinality(Admitted) = Cardinality(Free(srv)) /\ srv.sem \in Nat /\ Cardinality(Admitted) \in Nat
<1>1. srv \in SrvType /\ Ready /\ Placed(srv) /\ hpc \in [Req -> Stages]
  BY DEF Inv, Sound, Around
<1>2. \A i \in Idx : srv.seqs[i] # q
  <2> SUFFICES ASSUME NEW i \in Idx, srv.seqs[i] = q PROVE FALSE
    OBVIOUS
  <2>1. Used(srv, i)
    BY <1>1, Numbers DEF Used
  <2> QED BY <1>1, <2>1 DEF Placed, Seated
<1> QED BY <1>1, <1>2, Numbers DEF Placed, Counted, SrvType, Ready

SetSeq(x, q, t) == [x EXCEPT !.seq[q] = t]

(* A sequence that is at no place may change. *)
LEMMA SeqChange ==
    ASSUME NEW x \in SrvType, NEW q \in Req, NEW t \in SeqType, NEW y, y = SetSeq(x, q, t)
    PROVE  /\ y \in SrvType /\ y.seqs = x.seqs /\ y.slots = x.slots /\ y.kv = x.kv /\ y.sem = x.sem
           /\ y.lru = x.lru /\ y.ch = x.ch /\ y.seq[q] = t /\ \A p \in Req \ {q} : y.seq[p] = x.seq[p]
<1> DEFINE Q == [x.seq EXCEPT ![q] = t]
<1>1. Q \in [Req -> SeqType] /\ Q[q] = t /\ \A p \in Req \ {q} : Q[p] = x.seq[p]
  BY DEF SrvType
<1>2. y = [x EXCEPT !.seq = Q]
  BY DEF SetSeq
<1> HIDE DEF Q
<1> QED BY <1>1, <1>2 DEF SrvType
(* NewSequence: the prompt fits into the context. *)
LEMMA TruncatedIs ==
    ASSUME Ready, NEW q \in Req, NEW c \in Calls[q]
    PROVE  Truncated(c) \in SeqType /\ New(Truncated(c))
<1> DEFINE n == Len(c.prompt)
           S == {IF c.numKeep < 0 THEN n ELSE c.numKeep, NumCtx - 1}
           keep == Min(S)
           T == IF n > NumCtx THEN Without(c.prompt, keep, n - NumCtx) ELSE c.prompt
<1>1. c.prompt \in Seq(Toks) /\ c.prompt # << >> /\ c.numKeep \in Int /\ c.numPredict \in Int /\ c.shift \in BOOLEAN
  BY ArgsAssumption
<1>2. n \in Nat /\ n # 0 /\ NumCtx \in Nat \ {0}
  BY <1>1, Numbers
<1>3. keep \in 0 .. NumCtx - 1
  <2>1. S \in SUBSET Nat /\ S # {} /\ NumCtx - 1 \in S
    BY <1>1, <1>2
  <2> HIDE DEF S
  <2>2. keep \in S /\ keep <= NumCtx - 1
    BY <2>1, MinIs
  <2> HIDE DEF keep
  <2> QED BY ONLY <1>2, <2>1, <2>2
<1> HIDE DEF keep
<1>4. T \in Seq(Toks) /\ T # << >> /\ Len(T) <= NumCtx
  <2>1. CASE n > NumCtx
    <3> DEFINE d == n - NumCtx
    <3>1. d \in Nat /\ keep \in Nat /\ keep + d <= n /\ n - d = NumCtx
      BY <1>2, <1>3, <2>1
    <3>2. T = Without(c.prompt, keep, d)
      BY <2>1
    <3> HIDE DEF d, T
    <3>3. Without(c.prompt, keep, d) \in Seq(Toks) /\ Len(Without(c.prompt, keep, d)) = n - d
      BY <1>1, <3>1, WithoutIs
    <3> HIDE DEF n
    <3>4. T \in Seq(Toks) /\ Len(T) = NumCtx
      BY ONLY <3>1, <3>2, <3>3
    <3>5. T # << >>
      BY ONLY <1>2, <3>4
    <3> QED BY <1>2, <3>4, <3>5
  <2>2. CASE ~(n > NumCtx)
    <3>1. T = c.prompt
      BY <2>2
    <3> HIDE DEF T
    <3> QED BY <1>1, <1>2, <2>2, <3>1
  <2> QED BY <2>1, <2>2
<1> DEFINE t == Truncated(c)
<1>5. t = [NoSeq EXCEPT !.prompt = T, !.numKeep = keep, !.shift = c.shift, !.numPredict = c.numPredict]
  BY DEF Truncated, keep
<1> HIDE DEF T, n, t
<1>6. NoSeq \in SeqType /\ NoSeq.pending = << >> /\ NoSeq.numPredicted = 0
  BY NoSeqType DEF NoSeq
<1>7. t \in SeqType /\ t.prompt = T /\ t.pending = NoSeq.pending /\ t.numPredicted = NoSeq.numPredicted
  BY ONLY <1>1, <1>3, <1>4, <1>5, <1>6 DEF SeqType
<1>8. New(t)
  BY <1>4, <1>6, <1>7 DEF New
<1> QED BY <1>7, <1>8 DEF t

(* A request arrives. *)
LEMMA ArriveInv ==
    ASSUME Inv, NEW q \in Req, Arrive(q)
    PROVE  Inv'
<1>1. hpc[q] = "new" /\ UNCHANGED <<conf, gone, got, last, flight, early, down>>
  BY DEF Arrive
<1>2. /\ srv \in SrvType /\ Ready /\ hpc \in [Req -> Stages] /\ IsFiniteSet(Admitted)
      /\ \A i \in Idx : srv.seqs[i] # q
      /\ srv.sem + Cardinality(Admitted) = Cardinality(Free(srv))
  BY <1>1, NotSeated
<1>3. q \notin Admitted
  BY <1>1 DEF Admitted
<1>4. CASE hpc' = [hpc EXCEPT ![q] = "done"] /\ srv' = srv
  <2>2. MovesOn(q, "done")
    BY <1>1, <1>2, <1>4 DEF MovesOn, Stages
  <2>1. Admitted' = Admitted
    BY <1>3, <2>2, AdmittedIs
  <2> QED BY <1>2, <1>4, <2>1, <2>2, MovesOnInv
<1>5. CASE \E c \in Calls[q] : hpc' = [hpc EXCEPT ![q] = "waiting"] /\ srv' = [srv EXCEPT !.seq[q] = Truncated(c)]
  <2>1. PICK c \in Calls[q] : hpc' = [hpc EXCEPT ![q] = "waiting"] /\ srv' = [srv EXCEPT !.seq[q] = Truncated(c)]
    BY <1>5
  <2>3. Truncated(c) \in SeqType /\ New(Truncated(c))
    BY <1>2, TruncatedIs
  <2> DEFINE t == Truncated(c)
             y == srv'
  <2>4. y = SetSeq(srv, q, t)
    BY <2>1 DEF SetSeq
  <2> HIDE DEF t, y
  <2>5. /\ y \in SrvType /\ y.seqs = srv.seqs /\ y.slots = srv.slots /\ y.kv = srv.kv /\ y.sem = srv.sem
        /\ y.lru = srv.lru /\ y.ch = srv.ch /\ y.seq[q] = t /\ \A p \in Req \ {q} : y.seq[p] = srv.seq[p]
    BY <1>2, <2>3, <2>4, SeqChange DEF t
  <2>6. MovesOn(q, "waiting")
    BY <1>1, <1>2, <2>1, <2>3, <2>5 DEF MovesOn, Stages, t, y
  <2>2. Admitted' = Admitted
    BY <1>3, <2>6, AdmittedIs
  <2> QED BY <1>2, <2>2, <2>5, <2>6, MovesOnInv DEF y
<1> QED BY <1>4, <1>5 DEF Arrive

(* A request gets a permit, or gives up. *)
LEMMA AcquireInv ==
    ASSUME Inv, NEW q \in Req, Acquire(q)
    PROVE  Inv'
<1>1. hpc[q] = "waiting" /\ UNCHANGED <<conf, gone, got, last, flight, early, down>>
  BY DEF Acquire
<1>2. /\ srv \in SrvType /\ Ready /\ hpc \in [Req -> Stages] /\ IsFiniteSet(Admitted)
      /\ \A i \in Idx : srv.seqs[i] # q
      /\ srv.sem + Cardinality(Admitted) = Cardinality(Free(srv)) /\ srv.sem \in Nat /\ Cardinality(Admitted) \in Nat
  BY <1>1, NotSeated
<1>3. q \notin Admitted
  BY <1>1 DEF Admitted
<1>4. CASE srv.sem > 0 /\ srv' = [srv EXCEPT !.sem = srv.sem - 1] /\ hpc' = [hpc EXCEPT ![q] = "admit"]
  <2>3. New(srv.seq[q])
    BY <1>1 DEF Inv, Sound, Placed, Queued
  <2> DEFINE m == srv.sem - 1
  <2>4. m \in Nat /\ srv' = [srv EXCEPT !.sem = m]
    BY <1>2, <1>4
  <2> HIDE DEF m
  <2>5. /\ srv' \in SrvType /\ srv'.seqs = srv.seqs /\ srv'.slots = srv.slots /\ srv'.kv = srv.kv /\ srv'.sem = m
        /\ srv'.lru = srv.lru /\ srv'.ch = srv.ch /\ srv'.seq = srv.seq
    BY <1>2, <2>4 DEF SrvType
  <2>6. MovesOn(q, "admit")
    BY <1>1, <1>2, <1>4, <2>3, <2>5 DEF MovesOn, Stages
  <2>1. Admitted' = Admitted \cup {q}
    BY <2>6, AdmittedIs
  <2>2. IsFiniteSet(Admitted') /\ Cardinality(Admitted') = Cardinality(Admitted) + 1
    BY <1>2, <1>3, <2>1, FS_AddElement
  <2>7. srv'.sem + Cardinality(Admitted') = Cardinality(Free(srv))
    BY <1>2, <2>2, <2>5 DEF m
  <2> QED BY <2>2, <2>6, <2>7, MovesOnInv
<1>5. CASE srv' = [srv EXCEPT !.seq[q] = NoSeq] /\ hpc' = [hpc EXCEPT ![q] = "done"]
  <2> DEFINE y == srv'
             t == NoSeq
  <2>2. t \in SeqType /\ y = SetSeq(srv, q, t)
    BY <1>2, <1>5, NoSeqType DEF SetSeq
  <2> HIDE DEF t, y
  <2>3. /\ y \in SrvType /\ y.seqs = srv.seqs /\ y.slots = srv.slots /\ y.kv = srv.kv /\ y.sem = srv.sem
        /\ y.lru = srv.lru /\ y.ch = srv.ch /\ \A p \in Req \ {q} : y.seq[p] = srv.seq[p]
    BY <1>2, <2>2, SeqChange
  <2>4. MovesOn(q, "done")
    BY <1>1, <1>2, <1>5, <2>3 DEF MovesOn, Stages, y
  <2>1. Admitted' = Admitted
    BY <1>3, <2>4, AdmittedIs
  <2> QED BY <1>2, <2>1, <2>3, <2>4, MovesOnInv DEF y
<1> QED BY <1>4, <1>5 DEF Acquire

(* The handler sends a response on, or leaves its loop. *)
LEMMA StreamInv ==
    ASSUME Inv, NEW q \in Req, Stream(q)
    PROVE  Inv'
<1>1. hpc[q] = "stream" /\ UNCHANGED <<conf, gone, queue, last, flight, early, down>>
  BY DEF Stream
<1>2. Ready /\ Around /\ Sound(srv) /\ srv \in SrvType /\ Flying(flight, last) /\ Awaits(srv, flight, last)
  BY DEF Inv, Sound
<1>3. CASE srv.ch[q] # << >> /\ srv' = [srv EXCEPT !.ch[q] = Tail(srv.ch[q])] /\ hpc' = hpc
  <2> DEFINE h == [srv.ch EXCEPT ![q] = Tail(srv.ch[q])]
  <2>1. srv.ch[q] \in Seq(Seq(Pieces)) /\ Len(srv.ch[q]) <= RespCap /\ srv.ch \in [Req -> Seq(Seq(Pieces))]
    BY <1>2 DEF SrvType, Sound, Filled
  <2>2. Tail(srv.ch[q]) \in Seq(Seq(Pieces)) /\ Len(Tail(srv.ch[q])) <= RespCap
    <3>1. Tail(srv.ch[q]) \in Seq(Seq(Pieces)) /\ Len(Tail(srv.ch[q])) = Len(srv.ch[q]) - 1 /\ Len(srv.ch[q]) \in Nat
      BY <1>3, <2>1
    <3> QED BY <1>2, <2>1, <3>1, Numbers
  <2>3. h \in [Req -> Seq(Seq(Pieces))] /\ \A p \in Req : Len(h[p]) <= RespCap
    BY <1>2, <2>1, <2>2 DEF Sound, Filled
  <2>4. srv' = [srv EXCEPT !.ch = h]
    BY <1>3
  <2> HIDE DEF h
  <2>5. /\ srv' \in SrvType /\ srv'.seqs = srv.seqs /\ srv'.slots = srv.slots /\ srv'.kv = srv.kv /\ srv'.sem = srv.sem
        /\ srv'.lru = srv.lru /\ srv'.seq = srv.seq /\ srv'.ch = h
    BY <1>2, <2>3, <2>4 DEF SrvType
  <2>6. \A i \in Idx : /\ Used(srv', i) <=> Used(srv, i)
                       /\ Who(srv', i) = Who(srv, i) /\ Inp(srv', i) = Inp(srv, i) /\ Cached(srv', i) = Cached(srv, i)
    BY <2>5 DEF Used, Who, Inp, Cached
  <2>7. Placed(srv')
    <3>1. Seated(srv') /\ Slotted(srv')
      BY <1>2, <2>5, <2>6 DEF Sound, Placed, Seated, Slotted
    <3>2. Listed(srv') /\ Counted(srv') /\ Queued(srv')
      BY <1>2, <2>5 DEF Sound, Placed, Listed, Counted, Free, Queued
    <3> QED BY <3>1, <3>2 DEF Placed
  <2>8. Filled(srv')
    BY <1>2, <2>3, <2>5, <2>6 DEF Sound, Filled, Fits
  <2>9. Sound(srv')
    BY <2>5, <2>7, <2>8 DEF Sound
  <2>10. Flying(flight', last') /\ Awaits(srv', flight', last')
    BY <1>1, <1>2, <2>5, <2>6 DEF Awaits
  <2>11. gone' \in SUBSET Req /\ down' \in BOOLEAN /\ early' \in BOOLEAN
    BY <1>1, <1>2 DEF Around
  <2> QED BY <1>1, <1>3, <2>9, <2>10, <2>11, SameHandlers
<1>4. CASE hpc' = [hpc EXCEPT ![q] = "done"] /\ srv' = srv
  <2>1. q \notin Admitted
    BY <1>1 DEF Admitted
  <2>3. MovesOn(q, "done")
    BY <1>1, <1>2, <1>4 DEF MovesOn, Stages
  <2>2. Admitted' = Admitted
    BY <2>1, <2>3, AdmittedIs
  <2>4. IsFiniteSet(Admitted) /\ srv.sem + Cardinality(Admitted) = Cardinality(Free(srv))
    BY <1>2 DEF Ready, Sound, Placed, Counted
  <2> QED BY <1>4, <2>2, <2>3, <2>4, MovesOnInv
<1> QED BY <1>3, <1>4 DEF Stream

(* A client hangs up; or nothing changes. *)
LEMMA IdleInv ==
    ASSUME Inv, UNCHANGED <<conf, hpc, srv, last, flight, early, down>>, gone' \in SUBSET Req
    PROVE  Inv'
BY SameHandlers DEF Inv, Around
(* A common prefix is at most as long as each of the two. *)
LEMMA PrefixIs ==
    ASSUME NEW x, NEW y, Len(x) \in Nat, Len(y) \in Nat
    PROVE  CommonPrefix(x, y) \in Nat /\ CommonPrefix(x, y) <= Len(x) /\ CommonPrefix(x, y) <= Len(y)
<1> DEFINE S == {Len(x), Len(y)}
           m == Min(S)
           N == {n \in 0 .. m : SubSeq(x, 1, n) = SubSeq(y, 1, n)}
<1>1. S \in SUBSET Nat /\ S # {} /\ Len(x) \in S /\ Len(y) \in S
  OBVIOUS
<1>2. CommonPrefix(x, y) = Max(N)
  BY DEF CommonPrefix
<1> HIDE DEF S
<1>3. m \in Nat /\ m <= Len(x) /\ m <= Len(y)
  <2>1. Min(S) \in S /\ Min(S) <= Len(x) /\ Min(S) <= Len(y)
    BY <1>1, MinIs
  <2> QED BY <1>1, <2>1
<1> HIDE DEF m
<1>4. N \in SUBSET (0 .. m)
  OBVIOUS
<1>5. 0 \in N
  <2>1. SubSeq(x, 1, 0) = SubSeq(y, 1, 0)
    <3>1. SubSeq(x, 1, 0) = << >> /\ SubSeq(y, 1, 0) = << >>
      OBVIOUS
    <3> QED BY <3>1
  <2> QED BY <1>3, <2>1
<1> HIDE DEF N
<1>6. Max(N) \in N
  BY <1>3, <1>4, <1>5, MaxIs
<1>7. CommonPrefix(x, y) \in 0 .. m
  BY ONLY <1>2, <1>4, <1>6
<1> DEFINE c == CommonPrefix(x, y)
           a == Len(x)
           b == Len(y)
<1>8. c \in 0 .. m /\ a \in Nat /\ b \in Nat /\ m \in Nat /\ m <= a /\ m <= b
  BY <1>3, <1>7
<1> HIDE DEF c, a, b
<1>9. c \in Nat /\ c <= a /\ c <= b
  BY ONLY <1>8
<1> QED BY <1>9 DEF c, a, b

LongestOf(S, n) == {s \in S : \A t \in S : n[t] <= n[s]}

(* One of some slots has the longest prefix. *)
LEMMA LongestIs ==
    ASSUME Ready, NEW n, \A s \in Idx : n[s] \in 0 .. NumCtx, NEW S \in SUBSET Idx, S # {}
    PROVE  Min(LongestOf(S, n)) \in S
<1> DEFINE V == {n[s] : s \in S}
<1>1. V \in SUBSET (0 .. NumCtx) /\ V # {} /\ NumCtx \in Nat /\ Idx \subseteq Nat
  BY Numbers
<1>2. Max(V) \in V /\ \A v \in V : v <= Max(V)
  <2> HIDE DEF V
  <2> QED BY <1>1, MaxIs
<1>3. PICK s \in S : n[s] = Max(V)
  BY <1>2
<1>4. s \in LongestOf(S, n)
  <2>1. \A t \in S : n[t] \in V
    OBVIOUS
  <2> QED BY <1>2, <1>3, <2>1 DEF LongestOf
<1>5. LongestOf(S, n) \in SUBSET Nat /\ LongestOf(S, n) # {}
  BY <1>1, <1>4 DEF LongestOf
<1>6. Min(LongestOf(S, n)) \in LongestOf(S, n)
  BY <1>5, MinIs
<1> QED BY <1>6 DEF LongestOf

Unused(x) == {s \in Idx : ~x.slots[s].InUse}

(* A request with a permit finds a place and a slot. *)
LEMMA RoomIs ==
    ASSUME Inv, NEW q \in Req, hpc[q] = "admit"
    PROVE  Free(srv) # {} /\ Unused(srv) # {}
<1>1. /\ srv \in SrvType /\ Ready /\ IsFiniteSet(Admitted) /\ Slotted(srv)
      /\ srv.sem + Cardinality(Admitted) = Cardinality(Free(srv)) /\ srv.sem \in Nat /\ Cardinality(Admitted) \in Nat
  BY NotSeated DEF Inv, Sound, Placed
<1>2. Cardinality(Admitted) # 0
  <2>1. q \in Admitted
    BY DEF Admitted
  <2> QED BY <1>1, <2>1, FS_EmptySet
<1>3. Free(srv) # {}
  <2>1. Cardinality(Free(srv)) # 0
    BY <1>1, <1>2
  <2> QED BY <2>1, FS_EmptySet
<1>4. Unused(srv) # {}
  <2> SUFFICES ASSUME Unused(srv) = {} PROVE FALSE
    OBVIOUS
  <2> DEFINE U == Idx \ Free(srv)
             g == [i \in U |-> Who(srv, i).slot]
  <2>1. IsFiniteSet(Idx) /\ Free(srv) \subseteq Idx /\ Cardinality(Idx) \in Nat
    BY <1>1, Numbers DEF Free
  <2>2. IsFiniteSet(U) /\ Cardinality(U) \in Nat /\ Cardinality(U) < Cardinality(Idx)
    <3>1. U \subseteq Idx /\ U # Idx
      BY <1>3, <2>1
    <3> HIDE DEF U
    <3> QED BY <2>1, <3>1, FS_Subset, FS_CardinalityType
  <2>3. \A i \in U : Used(srv, i)
    BY DEF Used, Free
  <2>4. \A s \in Idx : \E i \in U : g[i] = s
    <3> SUFFICES ASSUME NEW s \in Idx PROVE \E i \in U : g[i] = s
      OBVIOUS
    <3>1. PICK i \in Idx : Used(srv, i) /\ Who(srv, i).slot = s
      BY <1>1 DEF Unused, Slotted
    <3>2. i \in U
      BY <3>1 DEF Free, Used
    <3> QED BY <3>1, <3>2
  <2>5. g \in [U -> Idx]
    BY <1>1, <2>3 DEF Used, Who, SrvType, SeqType
  <2> HIDE DEF g, U
  <2>6. g \in Surjection(U, Idx)
    BY <2>4, <2>5 DEF Surjection
  <2>7. Cardinality(Idx) <= Cardinality(U)
    BY <2>2, <2>6, FS_Surjection
  <2> QED BY <2>1, <2>2, <2>7
<1> QED BY <1>3, <1>4

\* What findBestCacheSlot and findLongestCacheSlot return for the request q.
Finds(q, f) ==
    /\ f.slot \in Unused(srv) /\ f.from \in Idx /\ f.numPast \in Nat
    /\ f.numPast <= Len(srv.seq[q].prompt) /\ f.numPast <= Len(srv.slots[f.from].Inputs)

(* The slot that is found is not in use, and has what is to be reused. *)
LEMMA FindIs ==
    ASSUME Inv, NEW q \in Req, hpc[q] = "admit", NEW n, n = CachedPrefixes(srv, srv.seq[q].prompt),
           NEW f, f = Find(srv, n)
    PROVE  Finds(q, f)
<1>1. srv \in SrvType /\ Ready /\ Listed(srv) /\ Filled(srv)
  BY DEF Inv, Sound, Placed
<1> DEFINE T == srv.seq[q].prompt
           len(s) == Len(srv.slots[s].Inputs)
<1>2. T \in Seq(Toks) /\ \A s \in Idx : srv.slots[s].Inputs \in Seq(InputSet) /\ len(s) \in Nat /\ len(s) <= NumCtx
  <2>1. T \in Seq(Toks)
    BY <1>1 DEF SrvType, SeqType
  <2>2. \A s \in Idx : srv.slots[s].Inputs \in Seq(InputSet) /\ srv.kv[s] \in Seq(CellIds) /\ Fits(srv, s)
    BY <1>1 DEF SrvType, SlotType, Filled
  <2>3. \A u \in Seq(InputSet) : Len(u) \in Nat
    OBVIOUS
  <2>4. \A u \in Seq(CellIds) : Len(u) \in Nat
    OBVIOUS
  <2>5. NumCtx \in Nat
    BY <1>1, Numbers
  <2>6. ASSUME NEW s \in Idx PROVE len(s) \in Nat /\ len(s) <= NumCtx
    <3> DEFINE a == len(s)
               b == Len(srv.kv[s])
    <3>1. a \in Nat /\ b \in Nat /\ a <= b /\ b <= NumCtx
      BY <2>2, <2>3, <2>4 DEF Fits
    <3> HIDE DEF a, b
    <3>2. a <= NumCtx
      BY ONLY <3>1, <2>5
    <3> QED BY <3>1, <3>2 DEF a
  <2> QED BY <2>1, <2>2, <2>6
<1>3. \A s \in Idx : n[s] \in Nat /\ n[s] <= len(s) /\ n[s] <= Len(T)
  <2> SUFFICES ASSUME NEW s \in Idx PROVE n[s] \in Nat /\ n[s] <= len(s) /\ n[s] <= Len(T)
    OBVIOUS
  <2> DEFINE V == Vals(srv.tok, srv.slots[s].Inputs)
  <2>1. n[s] = CommonPrefix(V, T)
    BY DEF CachedPrefixes
  <2>2. Len(V) = len(s)
    BY <1>2 DEF Vals
  <2>3. Len(T) \in Nat
    BY <1>2
  <2> HIDE DEF V, T
  <2> QED BY <1>2, <2>1, <2>2, <2>3, PrefixIs
<1> HIDE DEF len, T
<1>4. \A s \in Idx : n[s] \in 0 .. NumCtx
  <2>1. NumCtx \in Nat
    BY <1>1, Numbers
  <2> QED BY ONLY <1>2, <1>3, <2>1
<1> DEFINE free == Unused(srv)
           long == Min(LongestOf(Idx, n))
           best == Min(LongestOf(free, n))
           lasts == {j \in DOMAIN srv.lru : srv.lru[j] \in free}
           oldest == srv.lru[Min(lasts)]
           Use(s, from) == [slot |-> s, numPast |-> n[from], from |-> IF n[from] > 0 THEN from ELSE s]
<1>5. free # {} /\ free \subseteq Idx /\ Idx # {}
  BY <1>1, RoomIs, Numbers DEF Unused
<1>6. long \in Idx /\ best \in free
  <2> HIDE DEF free
  <2> QED BY <1>1, <1>4, <1>5, LongestIs
<1>7. oldest \in free
  <2>1. lasts \in SUBSET Nat /\ lasts # {}
    <3>1. PICK s \in free : TRUE
      BY <1>5
    <3>2. PICK j \in DOMAIN srv.lru : srv.lru[j] = s
      BY <1>1, <1>5, <3>1 DEF Listed
    <3>3. DOMAIN srv.lru \subseteq Nat
      BY <1>1 DEF SrvType
    <3> QED BY <3>1, <3>2, <3>3
  <2>2. Min(lasts) \in lasts
    <3> HIDE DEF lasts
    <3> QED BY <2>1, MinIs
  <2> QED BY <2>2
<1>8. f = IF ~conf.multi THEN Use(best, best)
          ELSE IF n[long] = Len(srv.slots[long].Inputs) /\ long \in free THEN Use(long, long)
          ELSE Use(oldest, long)
  BY Zenon DEF Find, Unused, LongestOf
<1>9. ASSUME NEW s \in free, NEW from \in Idx, f = Use(s, from) PROVE Finds(q, f)
  <2>1. f.slot = s /\ f.numPast = n[from] /\ f.from = IF n[from] > 0 THEN from ELSE s
    BY <1>9
  <2>2. n[from] \in Nat /\ n[from] <= len(from) /\ n[from] <= Len(T) /\ s \in Idx /\ len(s) \in Nat
    BY <1>2, <1>3, <1>5, <1>9
  <2>3. f.from \in Idx /\ n[from] <= len(f.from)
    <3>1. CASE n[from] > 0
      BY <2>1, <2>2, <3>1
    <3>2. CASE ~(n[from] > 0)
      <4>1. n[from] = 0 /\ f.from = s
        BY <2>1, <2>2, <3>2
      <4> QED BY <2>2, <4>1
    <3> QED BY <3>1, <3>2
  <2> QED BY <1>9, <2>1, <2>2, <2>3 DEF Finds, len, T
<1>10. \/ f = Use(best, best)
       \/ f = Use(long, long) /\ long \in free
       \/ f = Use(oldest, long)
  BY <1>8
<1> HIDE DEF long, best, oldest, Use, lasts, free
<1>11. best \in Idx
  BY <1>5, <1>6
<1> QED BY <1>6, <1>7, <1>9, <1>10, <1>11

Past(q, f) == IF f.numPast = Len(srv.seq[q].prompt) THEN f.numPast - 1 ELSE f.numPast
LoadSeq(q, f) ==
    [srv.seq[q] EXCEPT !.slot = f.slot,
                       !.inputs = SubSeq(srv.seq[q].prompt, Past(q, f) + 1, Len(srv.seq[q].prompt))]
LoadSlot(q, f) == [Inputs |-> SubSeq(srv.seq[q].prompt, 1, Past(q, f)), InUse |-> TRUE]
LoadOrder(s) == Append(RemoveAt(srv.lru, CHOOSE j \in DOMAIN srv.lru : srv.lru[j] = s), s)
Loading(q, s, t, S, K, L) ==
    [srv EXCEPT !.seq = [srv.seq EXCEPT ![q] = t], !.slots = [srv.slots EXCEPT ![s] = S],
                !.kv = [srv.kv EXCEPT ![s] = K], !.lru = L]

(* LoadCacheSlot changes a slot, its cells, the sequence and the order of use. *)
LEMMA LoadMeans ==
    ASSUME srv \in SrvType, NEW q \in Req, NEW f, f.slot \in Idx
    PROVE  LoadCacheSlot(srv, q, f) =
              Loading(q, f.slot, LoadSeq(q, f), LoadSlot(q, f), SubSeq(srv.kv[f.from], 1, Past(q, f)), LoadOrder(f.slot))
<1> DEFINE s == f.slot
           S == LoadSlot(q, f)
           L == LoadOrder(s)
           K == SubSeq(srv.kv[f.from], 1, Past(q, f))
           R == SubSeq(srv.seq[q].prompt, Past(q, f) + 1, Len(srv.seq[q].prompt))
           A == [srv.seq EXCEPT ![q] = [srv.seq[q] EXCEPT !.slot = s]]
           B == [A EXCEPT ![q] = [A[q] EXCEPT !.inputs = R]]
           y == [srv EXCEPT !.slots[s] = S, !.lru = L, !.kv[s] = K, !.seq[q].slot = s, !.seq[q].inputs = R]
<1>1. LoadCacheSlot(srv, q, f) = y
  BY DEF LoadCacheSlot, LoadSlot, LoadOrder, Past
<1>2. srv.seq \in [Req -> SeqType]
  BY DEF SrvType
<1>3. B = [srv.seq EXCEPT ![q] = LoadSeq(q, f)]
  <2>1. LoadSeq(q, f) = [srv.seq[q] EXCEPT !.slot = s, !.inputs = R]
    BY DEF LoadSeq
  <2> HIDE DEF s, R
  <2>2. A \in [Req -> SeqType \cup {A[q]}] /\ A[q] = [srv.seq[q] EXCEPT !.slot = s]
    BY <1>2
  <2> QED  BY <1>2, <2>1, <2>2 DEF SeqType
<1>4. y = [srv EXCEPT !.slots = [srv.slots EXCEPT ![s] = S], !.lru = L, !.kv = [srv.kv EXCEPT ![s] = K], !.seq = B]
  <2> HIDE DEF s, S, L, K, R
  <2> QED  BY <1>2 DEF SrvType
<1> HIDE DEF B, S, L, K, s, y
<1>5. y = [srv EXCEPT !.seq = B, !.slots = [srv.slots EXCEPT ![s] = S], !.kv = [srv.kv EXCEPT ![s] = K], !.lru = L]
  BY <1>4 DEF SrvType
<1> QED  BY <1>1, <1>3, <1>5 DEF Loading, S, L, K, s

\* y is the state under mu with the first n inputs of the prompt of q in the
\* slot s and the rest to come.
Loads(q, s, n, y) ==
    /\ y \in SrvType /\ y.sem = srv.sem /\ y.ch = srv.ch
    /\ \A p \in Req \ {q} : y.seq[p] = srv.seq[p]
    /\ \A t \in Idx \ {s} : y.slots[t] = srv.slots[t] /\ y.kv[t] = srv.kv[t]
    /\ y.slots[s].InUse /\ y.slots[s].Inputs = SubSeq(srv.seq[q].prompt, 1, n) /\ Len(y.kv[s]) = n
    /\ y.seq[q].slot = s /\ y.seq[q].inputs = SubSeq(srv.seq[q].prompt, n + 1, Len(srv.seq[q].prompt))
    /\ y.seq[q].pending = srv.seq[q].pending /\ y.seq[q].prompt = srv.seq[q].prompt
    /\ y.seq[q].numPredicted = srv.seq[q].numPredicted
    /\ Listed(y)

(* The slot just loaded is last in the order of use, behind the others. *)
LEMMA OrderLoaded ==
    ASSUME Inv, NEW s \in Idx
    PROVE  LoadOrder(s) \in Seq(Idx) /\ \A t \in Idx : \E j \in DOMAIN LoadOrder(s) : LoadOrder(s)[j] = t
<1> DEFINE l == srv.lru
           c == CHOOSE j \in DOMAIN l : l[j] = s
           u == RemoveAt(l, c)
<1>1. l \in Seq(Idx) /\ \A t \in Idx : \E j \in DOMAIN l : l[j] = t
  BY DEF Inv, Sound, Placed, Listed, SrvType
<1>2. c \in DOMAIN l /\ l[c] = s
  BY <1>1
<1>3. LoadOrder(s) = Append(u, s)
  BY DEF LoadOrder
<1> HIDE DEF l, c, u
<1>4. DOMAIN l = 1 .. Len(l) /\ Len(l) \in Nat
  BY <1>1
<1>5. u \in Seq(Idx) /\ Len(u) = Len(l) - 1 /\ \A p \in 1 .. Len(l) - 1 : u[p] = l[IF p < c THEN p ELSE p + 1]
  BY Zenon, <1>1, <1>2, <1>4, RemoveAtIs DEF u
<1> DEFINE w == Append(u, s)
<1>6. w \in Seq(Idx) /\ Len(w) = Len(l) /\ w[Len(l)] = s /\ \A p \in 1 .. Len(l) - 1 : w[p] = u[p]
  <2>1. \A v \in Seq(Idx) : /\ Append(v, s) \in Seq(Idx) /\ Len(Append(v, s)) = Len(v) + 1 /\ Len(v) \in Nat
                            /\ Append(v, s)[Len(v) + 1] = s /\ \A p \in 1 .. Len(v) : Append(v, s)[p] = v[p]
    OBVIOUS
  <2>2. w \in Seq(Idx) /\ Len(w) = Len(u) + 1 /\ w[Len(u) + 1] = s /\ \A p \in 1 .. Len(u) : w[p] = u[p]
    BY <1>5, <2>1
  <2>3. Len(u) + 1 = Len(l)
    BY <1>4, <1>5
  <2> HIDE DEF w
  <2> QED  BY <1>5, <2>2, <2>3
<1>7. DOMAIN w = 1 .. Len(l)
  BY <1>6
<1> HIDE DEF w
<1>8. ASSUME NEW t \in Idx  PROVE \E j \in DOMAIN w : w[j] = t
  <2>1. PICK j \in DOMAIN l : l[j] = t
    BY <1>1
  <2>2. j \in Nat /\ c \in Nat /\ j \in 1 .. Len(l) /\ c \in 1 .. Len(l)
    BY <1>2, <1>4
  <2>3. CASE j = c
    BY <1>2, <1>6, <1>7, <2>1, <2>2, <2>3, <1>4
  <2>4. CASE j < c
    <3>1. j \in 1 .. Len(l) - 1
      BY <1>4, <2>2, <2>4
    <3>2. w[j] = t
      BY <1>5, <1>6, <2>1, <2>4, <3>1
    <3> QED  BY <1>7, <2>2, <3>2
  <2>5. CASE j > c
    <3>1. j - 1 \in 1 .. Len(l) - 1 /\ ~(j - 1 < c) /\ (j - 1) + 1 = j
      BY <1>4, <2>2, <2>5
    <3>2. w[j - 1] = t
      BY <1>5, <1>6, <2>1, <3>1
    <3>3. j - 1 \in 1 .. Len(l)
      BY <1>4, <3>1
    <3> QED  BY <1>7, <3>2, <3>3
  <2> QED  BY <2>2, <2>3, <2>4, <2>5
<1> QED  BY <1>3, <1>6, <1>8 DEF w

(* LoadCacheSlot: a part of the prompt, and never all of it, is in the slot. *)
LEMMA LoadIs ==
    ASSUME Inv, NEW q \in Req, hpc[q] = "admit", NEW f, Finds(q, f), NEW y, y = LoadCacheSlot(srv, q, f)
    PROVE  y.seqs = srv.seqs /\ \E n \in 0 .. Len(srv.seq[q].prompt) - 1 : Loads(q, f.slot, n, y)
<1> DEFINE r == srv.seq[q]
           T == r.prompt
           n == Past(q, f)
           s == f.slot
           R == SubSeq(T, n + 1, Len(T))
           I == SubSeq(T, 1, n)
           t == LoadSeq(q, f)
           S == LoadSlot(q, f)
           K == SubSeq(srv.kv[f.from], 1, n)
           L == LoadOrder(s)
<1>1. srv \in SrvType /\ r \in SeqType /\ T \in Seq(Toks) /\ T # << >> /\ s \in Idx
  BY DEF Inv, Sound, Placed, Queued, New, SrvType, SeqType, Finds, Unused
<1>2. srv.kv[f.from] \in Seq(CellIds) /\ srv.slots[f.from].Inputs \in Seq(InputSet)
      /\ Len(srv.slots[f.from].Inputs) <= Len(srv.kv[f.from])
  BY <1>1 DEF Inv, Sound, Filled, Fits, Finds, SrvType, SlotType
<1>3. n \in 0 .. Len(T) - 1 /\ n \in 0 .. Len(srv.kv[f.from]) /\ Len(T) \in Nat /\ Len(T) > 0
  <2>1. Len(T) \in Nat /\ Len(T) > 0 /\ Len(srv.kv[f.from]) \in Nat /\ Len(srv.slots[f.from].Inputs) \in Nat
    <3>1. \A A : \A v \in Seq(A) : Len(v) \in Nat /\ (v # << >> => Len(v) > 0)
      OBVIOUS
    <3> HIDE DEF T
    <3> QED  BY ONLY <1>1, <1>2, <3>1
  <2>2. f.numPast \in Nat /\ f.numPast <= Len(T) /\ f.numPast <= Len(srv.slots[f.from].Inputs)
    BY DEF Finds
  <2>3. n = IF f.numPast = Len(T) THEN f.numPast - 1 ELSE f.numPast
    BY DEF Past
  <2>4. Len(srv.slots[f.from].Inputs) <= Len(srv.kv[f.from])
    BY <1>2
  <2> HIDE DEF n, T, r
  <2>5. \A p, u, a, k \in Nat : p <= u /\ p <= a /\ a <= k /\ u > 0 =>
           (IF p = u THEN p - 1 ELSE p) \in 0 .. u - 1 /\ (IF p = u THEN p - 1 ELSE p) \in 0 .. k
    BY ONLY TRUE
  <2> DEFINE u == Len(T)
             k == Len(srv.kv[f.from])
             a == Len(srv.slots[f.from].Inputs)
             p == f.numPast
  <2> HIDE DEF u, k, a, p
  <2>6. u \in Nat /\ u > 0 /\ k \in Nat /\ a \in Nat /\ p \in Nat /\ p <= u /\ p <= a /\ a <= k
    BY ONLY <2>1, <2>2, <2>4 DEF u, k, a, p
  <2>7. n = IF p = u THEN p - 1 ELSE p
    BY ONLY <2>3 DEF p, u
  <2>8. n \in 0 .. u - 1 /\ n \in 0 .. k
    BY ONLY <2>5, <2>6, <2>7
  <2> QED  BY ONLY <2>6, <2>8 DEF u, k
<1>4. R \in Seq(Toks) /\ I \in Seq(Toks)
  <2> HIDE DEF T, n
  <2>1. n \in 0 .. Len(T) /\ n + 1 \in 1 .. Len(T) + 1 /\ Len(T) \in 0 .. Len(T) /\ n + 1 <= Len(T) + 1
        /\ 1 \in 1 .. Len(T) + 1 /\ 1 <= n + 1
    BY <1>3
  <2> QED  BY <1>1, <2>1, PartIs
<1>5. R \in Seq(InputSet) /\ I \in Seq(InputSet)
  <2>1. \A v \in Seq(Toks) : v \in Seq(InputSet)
    BY DEF InputSet
  <2> HIDE DEF R, I
  <2> QED  BY <1>4, <2>1
<1>6. K \in Seq(CellIds) /\ Len(K) = n
  <2> DEFINE C == srv.kv[f.from]
  <2>1. C \in Seq(CellIds) /\ n \in 0 .. Len(C)
    BY <1>2, <1>3
  <2> HIDE DEF n, C
  <2>2. 1 \in 1 .. Len(C) + 1 /\ 1 <= n + 1 /\ n - 1 + 1 = n
    BY <2>1
  <2>3. SubSeq(C, 1, n) \in Seq(CellIds) /\ Len(SubSeq(C, 1, n)) = n
    BY <2>1, <2>2, PartIs
  <2> QED  BY <2>3 DEF C
<1>7. t \in SeqType /\ t.slot = s /\ t.inputs = R /\ t.pending = r.pending /\ t.prompt = r.prompt
      /\ t.numPredicted = r.numPredicted
  <2>1. t = [r EXCEPT !.slot = s, !.inputs = R]
    BY DEF LoadSeq
  <2> HIDE DEF t, r, R, s
  <2> QED  BY <1>1, <1>5, <2>1 DEF SeqType
<1>8. S \in SlotType /\ S.Inputs = I /\ S.InUse
  <2>1. S = [Inputs |-> I, InUse |-> TRUE]
    BY DEF LoadSlot
  <2> HIDE DEF S, I
  <2> QED  BY <1>5, <2>1 DEF SlotType
<1>9. L \in Seq(Idx) /\ \A v \in Idx : \E j \in DOMAIN L : L[j] = v
  BY <1>1, OrderLoaded
<1>10. y = Loading(q, s, t, S, K, L)
  BY <1>1, LoadMeans
<1>11. y.seq[q].slot = s /\ y.seq[q].inputs = R /\ y.seq[q].pending = r.pending /\ y.seq[q].prompt = r.prompt
       /\ y.seq[q].numPredicted = r.numPredicted /\ y.slots[s].InUse /\ y.slots[s].Inputs = I /\ y.kv[s] = K
       /\ y \in SrvType /\ y.seqs = srv.seqs /\ y.sem = srv.sem /\ y.ch = srv.ch /\ y.lru = L
       /\ (\A p \in Req \ {q} : y.seq[p] = srv.seq[p])
       /\ (\A v \in Idx \ {s} : y.slots[v] = srv.slots[v] /\ y.kv[v] = srv.kv[v])
  <2> HIDE DEF r, s, R, I, t, S, K, L
  <2>1. srv \in SrvType /\ s \in Idx /\ t \in SeqType /\ S \in SlotType /\ K \in Seq(CellIds) /\ L \in Seq(Idx)
    BY <1>1, <1>6, <1>7, <1>8, <1>9
  <2>2. y \in SrvType /\ y.seqs = srv.seqs /\ y.sem = srv.sem /\ y.ch = srv.ch /\ y.lru = L
        /\ y.seq = [srv.seq EXCEPT ![q] = t] /\ y.slots = [srv.slots EXCEPT ![s] = S]
        /\ y.kv = [srv.kv EXCEPT ![s] = K]
    BY ONLY <1>10, <2>1, q \in Req DEF Loading, SrvType
  <2>3. srv.seq \in [Req -> SeqType] /\ srv.slots \in [Idx -> SlotType] /\ srv.kv \in [Idx -> Seq(CellIds)]
    BY ONLY <2>1 DEF SrvType
  <2>4. y.seq[q] = t /\ y.slots[s] = S /\ y.kv[s] = K
        /\ (\A p \in Req \ {q} : y.seq[p] = srv.seq[p])
        /\ (\A v \in Idx \ {s} : y.slots[v] = srv.slots[v] /\ y.kv[v] = srv.kv[v])
    BY ONLY <2>1, <2>2, <2>3, q \in Req
  <2> QED  BY ONLY <1>7, <1>8, <2>2, <2>4
<1>12. Listed(y)
  BY <1>9, <1>11 DEF Listed
<1> QED
  <2>1. Loads(q, s, n, y)
    BY <1>6, <1>11, <1>12 DEF Loads
  <2> HIDE DEF n
  <2> QED  BY <1>3, <1>11, <2>1

PutAt(x, m, q) == [x EXCEPT !.seqs[m] = q]

(* The sequence takes the first free place. *)
LEMMA PlaceIs ==
    ASSUME Ready, NEW q \in Req, NEW s, NEW n, NEW y, Loads(q, s, n, y), y.seqs = srv.seqs,
           NEW m \in Idx, NEW z, z = PutAt(Tidy(y), m, q)
    PROVE  Loads(q, s, n, z) /\ z.seqs[m] = q /\ \A j \in Idx \ {m} : z.seqs[j] = srv.seqs[j]
<1> DEFINE w == Tidy(y)
<1>1. y \in SrvType
  BY DEF Loads
<1>2. /\ w \in SrvType /\ w.seqs = srv.seqs /\ w.seq = y.seq /\ w.slots = y.slots
      /\ w.lru = y.lru /\ w.kv = y.kv /\ w.sem = y.sem /\ w.ch = y.ch
  BY <1>1, TidyIs
<1>3. z = [w EXCEPT !.seqs = [w.seqs EXCEPT ![m] = q]]
  BY DEF PutAt
<1> HIDE DEF w
<1>4. z \in SrvType /\ z.seqs = [w.seqs EXCEPT ![m] = q] /\ z.seq = w.seq /\ z.slots = w.slots
      /\ z.lru = w.lru /\ z.kv = w.kv /\ z.sem = w.sem /\ z.ch = w.ch
  BY ONLY <1>2, <1>3, q \in Req, m \in Idx DEF SrvType
<1>5. w.seqs \in [Idx -> Req \cup {None}]
  BY <1>2 DEF SrvType
<1>6. z.seqs[m] = q /\ \A j \in Idx \ {m} : z.seqs[j] = srv.seqs[j]
  BY ONLY <1>2, <1>4, <1>5, m \in Idx
<1>7. z.seq = y.seq /\ z.slots = y.slots /\ z.lru = y.lru /\ z.kv = y.kv /\ z.sem = y.sem /\ z.ch = y.ch /\ z \in SrvType
  BY ONLY <1>2, <1>4
<1>8. Listed(z)
  BY <1>7 DEF Loads, Listed
<1>9. Loads(q, s, n, z)
  BY ONLY Loads(q, s, n, y), <1>7, <1>8 DEF Loads
<1> QED  BY <1>6, <1>9

\* The handler of q has put its sequence into the place m and the slot s.
Seats(q, s, n, m) ==
    /\ q \in Req /\ hpc[q] = "admit" /\ s \in Unused(srv) /\ m \in Free(srv)
    /\ n \in 0 .. Len(srv.seq[q].prompt) - 1 /\ Loads(q, s, n, srv')
    /\ srv'.seqs[m] = q /\ \A j \in Idx \ {m} : srv'.seqs[j] = srv.seqs[j]
    /\ conf' = conf /\ gone' = gone /\ last' = last /\ flight' = flight /\ early' = early /\ down' = down
    /\ hpc' = [hpc EXCEPT ![q] = "stream"]

(* A request is admitted. *)
LEMMA AdmitMeans ==
    ASSUME Inv, NEW q \in Req, Admit(q)
    PROVE  \E s, n, m : Seats(q, s, n, m)
<1>1. hpc[q] = "admit"
  BY DEF Admit
<1> DEFINE k == CachedPrefixes(srv, srv.seq[q].prompt)
           f == Find(srv, k)
           y == LoadCacheSlot(srv, q, f)
           m == Min(Free(srv))
<1>2. srv' = PutAt(Tidy(y), m, q)
  BY DEF Admit, Free, PutAt
<1>3. conf' = conf /\ gone' = gone /\ last' = last /\ flight' = flight /\ early' = early /\ down' = down
      /\ hpc' = [hpc EXCEPT ![q] = "stream"]
  BY DEF Admit
<1> HIDE DEF k
<1>4. Finds(q, f)
  BY <1>1, FindIs DEF k
<1> HIDE DEF f
<1>5. y.seqs = srv.seqs /\ \E n \in 0 .. Len(srv.seq[q].prompt) - 1 : Loads(q, f.slot, n, y)
  BY <1>1, <1>4, LoadIs
<1>6. Ready
  BY DEF Inv
<1>7. m \in Free(srv)
  <2>1. Free(srv) # {} /\ Free(srv) \in SUBSET Nat
    BY <1>1, <1>6, RoomIs, Numbers DEF Free
  <2> QED  BY <2>1, MinIs
<1> HIDE DEF y, m
<1>8. PICK n \in 0 .. Len(srv.seq[q].prompt) - 1 : Loads(q, f.slot, n, y)
  BY <1>5
<1>9. m \in Idx
  BY <1>7 DEF Free
<1>10. Loads(q, f.slot, n, srv') /\ srv'.seqs[m] = q /\ \A j \in Idx \ {m} : srv'.seqs[j] = srv.seqs[j]
  BY <1>2, <1>5, <1>6, <1>8, <1>9, PlaceIs
<1>11. f.slot \in Unused(srv)
  BY <1>4 DEF Finds
<1>12. Seats(q, f.slot, n, m)
  BY ONLY <1>1, <1>3, <1>7, <1>8, <1>10, <1>11, q \in Req DEF Seats
<1> QED  BY <1>12

(* The places, their sequences and their slots after an admission *)
LEMMA SeatsIs ==
    ASSUME Inv, NEW q, NEW s, NEW n, NEW m, Seats(q, s, n, m)
    PROVE  /\ q \in Req /\ s \in Idx /\ m \in Idx /\ ~Used(srv, m) /\ ~srv.slots[s].InUse /\ srv' \in SrvType
           /\ Used(srv', m) /\ srv'.seqs[m] = q /\ Who(srv', m) = srv'.seq[q] /\ Who(srv', m).slot = s
           /\ Inp(srv', m) = srv'.slots[s].Inputs
           /\ \A i \in Idx \ {m} : /\ Used(srv', i) <=> Used(srv, i)
                                   /\ srv'.seqs[i] = srv.seqs[i]
                                   /\ Used(srv, i) => /\ srv.seqs[i] \in Req \ {q} /\ Who(srv', i) = Who(srv, i)
                                                      /\ Who(srv, i).slot \in Idx \ {s} /\ Inp(srv', i) = Inp(srv, i)
<1> USE DEF Seats
<1>1. Loads(q, s, n, srv') /\ Ready /\ Sound(srv)
  BY DEF Inv
<1>2. q \in Req /\ s \in Idx /\ m \in Idx /\ ~Used(srv, m) /\ ~srv.slots[s].InUse
  BY DEF Unused, Free, Used
<1>3. srv' \in SrvType /\ srv \in SrvType /\ Slotted(srv)
  BY <1>1 DEF Loads, Sound, Placed
<1>4. Used(srv', m) /\ srv'.seqs[m] = q
  BY <1>1, Numbers DEF Used
<1>5. Who(srv', m) = srv'.seq[q] /\ Who(srv', m).slot = s /\ Inp(srv', m) = srv'.slots[s].Inputs
  BY <1>1, <1>4 DEF Who, Inp, Loads
<1>6. ASSUME NEW i \in Idx \ {m}
      PROVE  /\ Used(srv', i) <=> Used(srv, i)
             /\ srv'.seqs[i] = srv.seqs[i]
             /\ Used(srv, i) => /\ srv.seqs[i] \in Req \ {q} /\ Who(srv', i) = Who(srv, i)
                                /\ Who(srv, i).slot \in Idx \ {s} /\ Inp(srv', i) = Inp(srv, i)
  <2>1. srv'.seqs[i] = srv.seqs[i] /\ (Used(srv', i) <=> Used(srv, i))
    BY <1>2 DEF Used
  <2>2. SUFFICES ASSUME Used(srv, i)
                 PROVE  /\ srv.seqs[i] \in Req \ {q} /\ Who(srv', i) = Who(srv, i)
                        /\ Who(srv, i).slot \in Idx \ {s} /\ Inp(srv', i) = Inp(srv, i)
    BY <2>1
  <2>3. srv.seqs[i] \in Req \ {q}
    <3>1. srv.seqs[i] # q
      BY <1>2, NotSeated
    <3> QED  BY <1>3, <2>2, <3>1 DEF SrvType, Used
  <2>4. Who(srv', i) = Who(srv, i) /\ Who(srv, i) \in SeqType
    BY <1>1, <1>3, <2>1, <2>3 DEF Who, Loads, SrvType
  <2>5. Who(srv, i).slot \in Idx \ {s}
    BY <1>2, <1>3, <2>2, <2>4 DEF SeqType, Slotted
  <2>6. Inp(srv', i) = Inp(srv, i)
    BY <1>1, <2>4, <2>5 DEF Inp, Loads
  <2> QED  BY <2>3, <2>4, <2>5, <2>6
<1> QED  BY <1>2, <1>3, <1>4, <1>5, <1>6

(* The new sequence has its prompt, less what the cache already has. *)
LEMMA SeatsWhole ==
    ASSUME Inv, NEW q, NEW s, NEW n, NEW m, Seats(q, s, n, m)
    PROVE  /\ Fits(srv', s) /\ Cached(srv', m) /\ Whole(q, Who(srv', m), Inp(srv', m))
           /\ Who(srv', m).pending = << >> /\ Who(srv', m).inputs # << >>
<1> DEFINE T == srv.seq[q].prompt
           r == srv'.seq[q]
           I == srv'.slots[s].Inputs
           R == r.inputs
           keep == r.numKeep
<1>1. q \in Req /\ s \in Idx /\ Who(srv', m) = r /\ Inp(srv', m) = I /\ r.slot = s /\ r \in SeqType
  BY SeatsIs DEF SrvType
<1>2. Loads(q, s, n, srv') /\ n \in 0 .. Len(T) - 1 /\ hpc[q] = "admit"
  BY DEF Seats
<1>3. Ready /\ New(srv.seq[q])
  BY <1>1, <1>2 DEF Inv, Sound, Placed, Queued
<1>4. srv.seq[q] \in SeqType /\ T \in Seq(Toks) /\ Len(T) <= NumCtx
  BY <1>1, <1>3 DEF Inv, Sound, SrvType, SeqType, New
<1>5. I = SubSeq(T, 1, n) /\ R = SubSeq(T, n + 1, Len(T)) /\ Len(srv'.kv[s]) = n
  BY <1>2 DEF Loads
<1>6. r.pending = << >> /\ r.prompt = T /\ r.numPredicted = 0
  BY <1>2, <1>3 DEF Loads, New
<1>7. keep \in Nat
  <2>1. keep \in 0 .. NumCtx - 1 /\ NumCtx \in Nat
    BY <1>1, <1>3, Numbers DEF SeqType
  <2> HIDE DEF keep
  <2> QED  BY <2>1
<1> HIDE DEF T, r, I, R, keep
<1>8. Len(T) \in Nat
  BY <1>4
<1>9. n \in Nat /\ n \in 0 .. Len(T) /\ n < Len(T) /\ n + 1 \in 1 .. Len(T) + 1 /\ n + 1 <= Len(T) + 1 /\ 1 <= n + 1
      /\ Len(T) \in 0 .. Len(T) /\ 1 \in 1 .. Len(T) + 1
  BY <1>2, <1>8
<1>10. Len(I) = n /\ Len(R) = Len(T) - n
  <2>1. Len(I) = n - 1 + 1 /\ Len(R) = Len(T) - (n + 1) + 1
    BY <1>4, <1>5, <1>9, PartIs
  <2> QED  BY <1>8, <1>9, <2>1
<1>11. Complete(q, I, << >>, R, T, 0, keep)
  BY <1>3, <1>4, <1>5, <1>7, <1>9, CompleteLoad
<1>12. Whole(q, r, I)
  BY <1>6, <1>11 DEF Whole, R, keep
<1>13. R # << >>
  <2>1. Len(R) > 0
    BY <1>8, <1>9, <1>10
  <2> QED  BY <2>1
<1>14. NumCtx \in Nat
  BY <1>3, Numbers
<1>15. Fits(srv', s)
  <2>1. n <= NumCtx
    BY <1>4, <1>8, <1>9, <1>14
  <2> QED  BY <1>5, <1>9, <1>10, <2>1 DEF Fits, I
<1>16. Cached(srv', m)
  <2>1. Len(<< >>) = 0
    OBVIOUS
  <2> QED  BY <1>1, <1>5, <1>6, <1>9, <1>10, <2>1 DEF Cached
<1> QED  BY <1>1, <1>6, <1>12, <1>13, <1>15, <1>16 DEF R

(* The permit of an admitted request is that of its place. *)
LEMMA SeatsCounted ==
    ASSUME Inv, NEW q, NEW s, NEW n, NEW m, Seats(q, s, n, m)
    PROVE  IsFiniteSet(Admitted') /\ srv'.sem + Cardinality(Admitted') = Cardinality(Free(srv'))
<1>1. q \in Req /\ m \in Free(srv) /\ hpc[q] = "admit" /\ hpc' = [hpc EXCEPT ![q] = "stream"] /\ hpc \in [Req -> Stages]
      /\ srv'.sem = srv.sem
  BY DEF Inv, Around, Seats, Loads
<1>2. Admitted' = Admitted \ {q} /\ q \in Admitted
  BY <1>1 DEF Admitted
<1>3. Free(srv') = Free(srv) \ {m}
  BY SeatsIs DEF Free, Used
<1>4. IsFiniteSet(Admitted) /\ Ready /\ srv.sem \in Nat /\ srv.sem + Cardinality(Admitted) = Cardinality(Free(srv))
  BY <1>1, NotSeated
<1>5. IsFiniteSet(Free(srv))
  BY <1>4, Numbers, FS_Subset DEF Free
<1>6. IsFiniteSet(Admitted \ {q}) /\ Cardinality(Admitted \ {q}) = Cardinality(Admitted) - 1 /\ Cardinality(Admitted) \in Nat
  BY <1>2, <1>4, FS_RemoveElement, FS_CardinalityType
<1>7. Cardinality(Free(srv) \ {m}) = Cardinality(Free(srv)) - 1 /\ Cardinality(Free(srv)) \in Nat
  BY <1>1, <1>5, FS_RemoveElement, FS_CardinalityType
<1> QED  BY <1>1, <1>2, <1>3, <1>4, <1>6, <1>7

(* A request is admitted: it finds a place and a slot, and takes them. *)
LEMMA AdmitInv ==
    ASSUME Inv, NEW q \in Req, Admit(q)
    PROVE  Inv'
<1>1. PICK s, n, m : Seats(q, s, n, m)
  BY AdmitMeans
<1> DEFINE z == srv'
<1>2. /\ s \in Idx /\ m \in Idx /\ ~Used(srv, m) /\ ~srv.slots[s].InUse /\ z \in SrvType
      /\ Used(z, m) /\ z.seqs[m] = q /\ Who(z, m) = z.seq[q] /\ Who(z, m).slot = s
      /\ Inp(z, m) = z.slots[s].Inputs
      /\ \A i \in Idx \ {m} : /\ Used(z, i) <=> Used(srv, i)
                              /\ z.seqs[i] = srv.seqs[i]
                              /\ Used(srv, i) => /\ srv.seqs[i] \in Req \ {q} /\ Who(z, i) = Who(srv, i)
                                                 /\ Who(srv, i).slot \in Idx \ {s} /\ Inp(z, i) = Inp(srv, i)
  BY <1>1, SeatsIs
<1>3. /\ Fits(z, s) /\ Cached(z, m) /\ Whole(q, Who(z, m), Inp(z, m))
      /\ Who(z, m).pending = << >> /\ Who(z, m).inputs # << >>
  BY <1>1, SeatsWhole
<1>4. /\ conf' = conf /\ gone' = gone /\ last' = last /\ flight' = flight /\ early' = early /\ down' = down
      /\ hpc' = [hpc EXCEPT ![q] = "stream"]
  BY <1>1 DEF Seats
<1>5. /\ z.sem = srv.sem /\ z.ch = srv.ch /\ Listed(z) /\ z.slots[s].InUse
      /\ \A p \in Req \ {q} : z.seq[p] = srv.seq[p]
      /\ \A t \in Idx \ {s} : z.slots[t] = srv.slots[t] /\ z.kv[t] = srv.kv[t]
  BY <1>1 DEF Seats, Loads
<1>6. Around /\ Ready /\ Sound(srv) /\ Flying(flight, last) /\ Awaits(srv, flight, last)
  BY DEF Inv
<1>7. Slotted(srv) /\ Seated(srv) /\ Queued(srv) /\ Filled(srv) /\ srv \in SrvType
  BY <1>6 DEF Sound, Placed
<1>8. IsFiniteSet(Admitted') /\ z.sem + Cardinality(Admitted') = Cardinality(Free(z))
  BY <1>1, SeatsCounted
<1>9. hpc \in [Req -> Stages] /\ hpc'[q] = "stream" /\ \A p \in Req \ {q} : hpc'[p] = hpc[p]
  BY <1>4, <1>6 DEF Around
<1> HIDE DEF z
<1>10. Slotted(z)
  <2>1. \A i \in Idx : Used(z, i) => z.slots[Who(z, i).slot].InUse
    BY <1>2, <1>5, <1>7 DEF Slotted
  <2>2. \A i, j \in Idx : Used(z, i) /\ Used(z, j) /\ Who(z, i).slot = Who(z, j).slot => i = j
    BY <1>2, <1>7 DEF Slotted
  <2>3. ASSUME NEW t \in Idx, z.slots[t].InUse  PROVE \E i \in Idx : Used(z, i) /\ Who(z, i).slot = t
    <3>1. CASE t = s
      BY <1>2, <3>1
    <3>2. CASE t # s
      <4>1. PICK i \in Idx : Used(srv, i) /\ Who(srv, i).slot = t
        BY <1>5, <1>7, <2>3, <3>2 DEF Slotted
      <4> QED  BY <1>2, <4>1
    <3> QED  BY <3>1, <3>2
  <2> QED  BY <2>1, <2>2, <2>3 DEF Slotted
<1>11. Filled(z)
  <2>1. ASSUME NEW t \in Idx  PROVE Fits(z, t)
    <3>1. t # s => z.slots[t] = srv.slots[t] /\ z.kv[t] = srv.kv[t] /\ Fits(srv, t)
      BY <1>5, <1>7 DEF Filled
    <3> QED  BY <1>3, <3>1 DEF Fits
  <2>2. ASSUME NEW i \in Idx, Used(z, i)  PROVE Cached(z, i) /\ Whole(z.seqs[i], Who(z, i), Inp(z, i))
    <3>1. CASE i = m
      BY <1>2, <1>3, <3>1
    <3>2. CASE i # m
      <4>1. Used(srv, i) /\ z.seqs[i] = srv.seqs[i] /\ Who(z, i) = Who(srv, i) /\ Who(srv, i).slot \in Idx \ {s}
            /\ Inp(z, i) = Inp(srv, i)
        BY <1>2, <2>2, <3>2
      <4>2. Cached(srv, i) /\ Whole(srv.seqs[i], Who(srv, i), Inp(srv, i))
        BY <1>7, <4>1 DEF Filled
      <4>3. z.kv[Who(srv, i).slot] = srv.kv[Who(srv, i).slot]
        BY <1>5, <4>1
      <4> QED  BY <4>1, <4>2, <4>3 DEF Cached
    <3> QED  BY <3>1, <3>2
  <2>3. \A p \in Req : Len(z.ch[p]) <= RespCap
    BY <1>5, <1>7 DEF Filled
  <2> QED  BY <2>1, <2>2, <2>3 DEF Filled
<1>12. Awaits(z, flight', last')
  BY <1>2, <1>3, <1>4, <1>6 DEF Awaits
<1>13. Slotted(srv)' /\ Listed(srv)' /\ Filled(srv)' /\ Flying(flight, last)' /\ Awaits(srv, flight, last)' /\ Free(srv)' = Free(z)
  BY <1>4, <1>5, <1>6, <1>10, <1>11, <1>12, SameParts DEF z
<1>14. Idx' = Idx /\ SrvType' = SrvType
  BY <1>4, SameTypes
<1>15. Seated(srv)'
  <2>1. \A i, j \in Idx : Used(z, i) /\ z.seqs[i] = z.seqs[j] => i = j
    BY <1>2, <1>7 DEF Seated, Used
  <2>2. ASSUME NEW i \in Idx, Used(z, i)  PROVE hpc'[z.seqs[i]] \in {"stream", "done"}
    BY <1>2, <1>7, <1>9, <2>2 DEF Seated
  <2> QED  BY <1>14, <2>1, <2>2 DEF Seated, Used, z
<1>16. Queued(srv)'
  <2>1. \A p \in Req : hpc'[p] \in {"waiting", "admit"} => New(z.seq[p])
    BY <1>5, <1>7, <1>9 DEF Queued
  <2> QED  BY <2>1 DEF Queued, New, z
<1>17. Counted(srv)'
  BY <1>8, <1>13 DEF Counted, z
<1>18. Sound(srv)'
  BY <1>2, <1>13, <1>14, <1>15, <1>16, <1>17 DEF Sound, Placed, z
<1>19. Ready' /\ Around'
  BY <1>4, <1>6, <1>8, <1>9 DEF Ready, Around, Stages
<1> QED  BY <1>13, <1>18, <1>19 DEF Inv

-----------------------------------------------------------------------------
(* The theorems *)

(* The initial states: all places, slots and permits are free. *)
LEMMA InitInv ==
    ASSUME Init
    PROVE  Inv
<1>1. conf \in Confs /\ hpc = [q \in Req |-> "new"] /\ gone = {} /\ last = "nil" /\ flight = << >>
      /\ early = FALSE /\ down = FALSE
  BY DEF Init
<1>2. Admitted = {}
  BY <1>1 DEF Admitted
<1>3. Ready /\ Cardinality(Admitted) = 0
  BY <1>1, <1>2, FS_EmptySet DEF Ready
<1>4. Around
  BY <1>1 DEF Around, Stages
<1> DEFINE seqs == [i \in Idx |-> None]
           seq == [q \in Req |-> NoSeq]
           tok == [q \in Req |-> << >>]
           slots == [s \in Idx |-> [Inputs |-> << >>, InUse |-> FALSE]]
           lru == [i \in 1 .. Parallel |-> i - 1]
           kv == [s \in Idx |-> << >>]
           cell == [c \in CellIds |-> None]
<1>5. srv = [sem |-> Parallel, seqs |-> seqs, seq |-> seq, tok |-> tok, ch |-> tok, closed |-> {},
             slots |-> slots, lru |-> lru, kv |-> kv, cell |-> cell, nextSeq |-> 0]
  BY DEF Init
<1>6. \A S : << >> \in Seq(S)
  OBVIOUS
<1>7. seqs \in [Idx -> Req \cup {None}] /\ tok \in [Req -> Seq(TokVals)] /\ tok \in [Req -> Seq(Seq(Pieces))]
      /\ slots \in [Idx -> SlotType] /\ kv \in [Idx -> Seq(CellIds)]
  BY <1>6 DEF SlotType
<1>8. seq \in [Req -> SeqType]
  BY <1>3, NoSeqType
<1>9. cell \in [CellIds -> Keys]
  BY DEF Keys
<1>10. lru \in Seq(Idx) /\ \A s \in Idx : \E j \in DOMAIN lru : lru[j] = s
  <2>1. Parallel \in Nat
    BY <1>3, Numbers
  <2>2. \A i \in 1 .. Parallel : i - 1 \in Idx
    BY <2>1 DEF Idx
  <2>3. lru \in [1 .. Parallel -> Idx]
    BY <2>2
  <2>4. \A s \in Idx : s + 1 \in 1 .. Parallel /\ lru[s + 1] = s
    BY <2>1 DEF Idx
  <2> HIDE DEF lru
  <2>5. lru \in Seq(Idx)
    BY <2>1, <2>3
  <2> QED  BY <2>3, <2>4, <2>5
<1>11. 0 \in Idx /\ Parallel \in Nat /\ NumCtx \in Nat \ {0} /\ RespCap \in Nat \ {0} /\ Cardinality(Idx) = Parallel
  BY <1>3, Numbers
<1>12. srv.sem = Parallel /\ srv.lru = lru
       /\ (\A i \in Idx : srv.seqs[i] = None) /\ (\A s \in Idx : ~srv.slots[s].InUse)
       /\ (\A s \in Idx : srv.slots[s].Inputs = << >> /\ srv.kv[s] = << >>) /\ \A q \in Req : srv.ch[q] = << >>
  BY <1>5
<1> HIDE DEF seqs, seq, tok, slots, lru, kv, cell
<1>13. srv \in SrvType
  BY <1>5, <1>7, <1>8, <1>9, <1>10, <1>11 DEF SrvType
<1>14. \A i \in Idx : ~Used(srv, i)
  BY <1>12 DEF Used
<1>15. Seated(srv) /\ Slotted(srv)
  BY <1>12, <1>14 DEF Seated, Slotted
<1>16. Listed(srv)
  BY <1>10, <1>12 DEF Listed
<1>17. Counted(srv)
  <2>1. Free(srv) = Idx
    BY <1>12 DEF Free
  <2> QED  BY <1>3, <1>11, <1>12, <2>1 DEF Counted
<1>18. Queued(srv)
  BY <1>1 DEF Queued
<1>19. Filled(srv)
  <2>1. Len(<< >>) = 0
    OBVIOUS
  <2>2. \A s \in Idx : Fits(srv, s)
    BY <1>11, <1>12, <2>1 DEF Fits
  <2>3. \A q \in Req : Len(srv.ch[q]) <= RespCap
    BY <1>11, <1>12, <2>1
  <2> QED  BY <1>14, <2>2, <2>3 DEF Filled
<1>20. Sound(srv)
  BY <1>13, <1>15, <1>16, <1>17, <1>18, <1>19 DEF Sound, Placed
<1>21. Flying(flight, last) /\ Awaits(srv, flight, last)
  <2>1. << >> \in Seq(BatchType) /\ DOMAIN << >> = {}
    BY <1>6
  <2> QED  BY <1>1, <1>14, <2>1 DEF Flying, Awaits
<1> QED  BY <1>3, <1>4, <1>20, <1>21 DEF Inv

(* Every step keeps the invariant. *)
LEMMA NextInv ==
    ASSUME Inv, [Next]_vars
    PROVE  Inv'
<1>1. ASSUME NEW q \in Req, Handler(q)  PROVE Inv'
  BY <1>1, ArriveInv, AcquireInv, AdmitInv, StreamInv DEF Handler
<1>2. ASSUME NEW q \in Req, HangUp(q)  PROVE Inv'
  <2>1. gone' \in SUBSET Req
    BY <1>2 DEF HangUp, Inv, Around
  <2> QED  BY <1>2, <2>1, IdleInv DEF HangUp
<1>3. ASSUME ForwardBatch  PROVE Inv'
  BY <1>3, ForwardBatchInv
<1>4. ASSUME NEW k \in 1 .. Len(flight), Compute(k)  PROVE Inv'
  BY <1>4, GatherInv, DecodeInv DEF Compute
<1>5. ASSUME UNCHANGED vars  PROVE Inv'
  <2>1. gone' \in SUBSET Req
    BY <1>5 DEF vars, Inv, Around
  <2> QED  BY <1>5, <2>1, IdleInv DEF vars
<1> QED  BY <1>1, <1>2, <1>3, <1>4, <1>5 DEF Next, Finished, Halted

(* Inv is an invariant of the runner. *)
LEMMA InvAlways == Spec => []Inv
BY InitInv, NextInv, PTL DEF Spec

(***************************************************************************)
(* Type correctness: the permits are at most the places, a channel has at  *)
(* most its capacity, a slot at most a full context, and only the newest   *)
(* batch waits to be computed.                                             *)
(***************************************************************************)
THEOREM TypeCorrect == Spec => []TypeOK
<1>1. ASSUME Inv  PROVE TypeOK
  <2>1. Ready /\ Around /\ Sound(srv) /\ Flying(flight, last)
    BY <1>1 DEF Inv
  <2>2. srv \in SrvType /\ Filled(srv) /\ Counted(srv)
    BY <2>1 DEF Sound, Placed
  <2>3. srv.sem \in 0 .. Parallel
    <3>1. IsFiniteSet(Idx) /\ Cardinality(Idx) = Parallel /\ Parallel \in Nat /\ Cardinality(Admitted) \in Nat
      BY <2>1, Numbers
    <3>2. Free(srv) \subseteq Idx
      BY DEF Free
    <3>3. Cardinality(Free(srv)) <= Parallel /\ Cardinality(Free(srv)) \in Nat
      BY <3>1, <3>2, FS_Subset, FS_CardinalityType
    <3>4. srv.sem \in Nat
      BY <2>2 DEF SrvType
    <3> QED  BY <2>2, <3>1, <3>3, <3>4 DEF Counted
  <2>4. ASSUME NEW q \in Req
        PROVE  /\ Len(srv.ch[q]) <= RespCap /\ Range(srv.seq[q].inputs \o srv.seq[q].pending) \subseteq InputSet
               /\ Range(srv.tok[q]) \subseteq Toks \cup {Zero, Eos}
    <3>1. srv.seq[q].inputs \in Seq(InputSet) /\ srv.seq[q].pending \in Seq(InputSet) /\ srv.tok[q] \in Seq(TokVals)
      BY <2>2 DEF SrvType, SeqType
    <3>2. srv.seq[q].inputs \o srv.seq[q].pending \in Seq(InputSet)
      BY <3>1, JoinIs
    <3>3. Range(srv.seq[q].inputs \o srv.seq[q].pending) \subseteq InputSet /\ Range(srv.tok[q]) \subseteq TokVals
      BY <3>1, <3>2, RangeIs
    <3> QED  BY <2>2, <3>3 DEF Filled, TokVals
  <2>5. ASSUME NEW s \in Idx
        PROVE  Range(srv.slots[s].Inputs) \subseteq InputSet /\ Len(srv.kv[s]) <= NumCtx
    <3>1. srv.slots[s].Inputs \in Seq(InputSet)
      BY <2>2 DEF SrvType, SlotType
    <3> QED  BY <2>2, <3>1, RangeIs DEF Filled, Fits
  <2>6. srv.seqs \in [Idx -> Req \cup {None}] /\ srv.nextSeq \in Idx
    BY <2>2 DEF SrvType
  <2>7. (last = "flying" => flight # << >>) /\ \A k \in DOMAIN flight : flight[k].st = "built" => k = Len(flight)
    BY <2>1 DEF Flying
  <2>8. /\ conf \in Confs /\ gone \subseteq Req /\ down \in BOOLEAN /\ early \in BOOLEAN
        /\ hpc \in [Req -> {"new", "waiting", "admit", "stream", "done"}]
    BY <2>1 DEF Ready, Around, Stages
  <2> QED  BY ONLY <2>3, <2>4, <2>5, <2>6, <2>7, <2>8 DEF TypeOK
<1> QED  BY <1>1, InvAlways, PTL

(***************************************************************************)
(* seqsSem counts the free places that no admitted request is about to     *)
(* take, and the slots in use are those of the sequences, one each: what a *)
(* handler relies on when it looks for a place and a slot after Acquire.   *)
(***************************************************************************)
THEOREM PlacesAreCounted == Spec => []PlacesCounted
<1>1. ASSUME Inv  PROVE PlacesCounted
  <2>1. srv \in SrvType /\ Seated(srv) /\ Slotted(srv) /\ Counted(srv)
    BY <1>1 DEF Inv, Sound, Placed
  <2>2. srv.sem + Cardinality({q \in Req : hpc[q] = "admit"}) = Cardinality({i \in Idx : srv.seqs[i] = None})
    BY <2>1 DEF Counted, Admitted, Free
  <2>3. ASSUME NEW s \in Idx
        PROVE  Cardinality({q \in Live : srv.seq[q].slot = s}) = IF srv.slots[s].InUse THEN 1 ELSE 0
    <3> DEFINE Q == {q \in Live : srv.seq[q].slot = s}
    <3>1. \A q \in Q : \E i \in Idx : Used(srv, i) /\ srv.seqs[i] = q /\ Who(srv, i).slot = s
      BY DEF Live, Used, Who
    <3>2. \A i \in Idx : Used(srv, i) /\ Who(srv, i).slot = s => srv.seqs[i] \in Q
      BY DEF Live, Used, Who
    <3> HIDE DEF Q
    <3>3. CASE srv.slots[s].InUse
      <4>1. PICK i \in Idx : Used(srv, i) /\ Who(srv, i).slot = s
        BY <2>1, <3>3 DEF Slotted
      <4>2. Q = {srv.seqs[i]}
        BY <2>1, <3>1, <3>2, <4>1 DEF Slotted
      <4> QED  BY <3>3, <4>2, FS_Singleton DEF Q
    <3>4. CASE ~srv.slots[s].InUse
      <4>1. Q = {}
        BY <2>1, <3>1, <3>4 DEF Slotted
      <4> QED  BY <3>4, <4>1, FS_EmptySet DEF Q
    <3> QED  BY <3>3, <3>4
  <2> QED  BY <2>2, <2>3 DEF PlacesCounted
<1> QED  BY <1>1, InvAlways, PTL

\* The prompt T and n predicted tokens of q.
Text(q, T, n) == T \o [k \in 1 .. n |-> <<q, k>>]

(* The elements of a text *)
LEMMA TextIs ==
    ASSUME NEW q \in Req, NEW T \in Seq(Toks), NEW n \in Nat
    PROVE  /\ Text(q, T, n) \in Seq(InputSet) /\ Len(Text(q, T, n)) = Len(T) + n
           /\ \A p \in 1 .. Len(T) + n : Text(q, T, n)[p] = TextAt(q, T, p)
<1> DEFINE u == [k \in 1 .. n |-> <<q, k>>]
<1>1. \A k \in 1 .. n : <<q, k>> \in InputSet
  BY DEF InputSet
<1>2. u \in Seq(InputSet) /\ Len(u) = n /\ \A k \in 1 .. n : u[k] = <<q, k>>
  BY <1>1
<1>3. T \in Seq(InputSet) /\ Len(T) \in Nat
  BY DEF InputSet
<1>4. Text(q, T, n) = T \o u
  BY DEF Text
<1> HIDE DEF u
<1>5. /\ T \o u \in Seq(InputSet) /\ Len(T \o u) = Len(T) + n
      /\ \A p \in 1 .. Len(T) + n : (T \o u)[p] = IF p <= Len(T) THEN T[p] ELSE u[p - Len(T)]
  BY <1>2, <1>3, JoinIs
<1>6. ASSUME NEW p \in 1 .. Len(T) + n  PROVE (T \o u)[p] = TextAt(q, T, p)
  <2>1. ~(p <= Len(T)) => p - Len(T) \in 1 .. n
    BY <1>3
  <2> QED  BY <1>2, <1>5, <2>1 DEF TextAt
<1> QED  BY <1>4, <1>5, <1>6

(* What is cached, pending and to come, one behind the other *)
LEMMA NowIs ==
    ASSUME NEW S, NEW I \in Seq(S), NEW P \in Seq(S), NEW R \in Seq(S)
    PROVE  /\ I \o P \o R \in Seq(S) /\ Len(I \o P \o R) = NowLen(I, P, R)
           /\ \A p \in 1 .. NowLen(I, P, R) : (I \o P \o R)[p] = NowAt(I, P, R, p)
<1> DEFINE u == I \o P
<1>1. Len(I) \in Nat /\ Len(P) \in Nat /\ Len(R) \in Nat
  OBVIOUS
<1>2. /\ u \in Seq(S) /\ Len(u) = Len(I) + Len(P)
      /\ \A p \in 1 .. Len(I) + Len(P) : u[p] = IF p <= Len(I) THEN I[p] ELSE P[p - Len(I)]
  BY JoinIs
<1> HIDE DEF u
<1> DEFINE w == u \o R
<1>3. /\ w \in Seq(S) /\ Len(w) = Len(u) + Len(R)
      /\ \A p \in 1 .. Len(u) + Len(R) : w[p] = IF p <= Len(u) THEN u[p] ELSE R[p - Len(u)]
  <2>1. u \in Seq(S)
    BY <1>2
  <2> QED  BY ONLY <2>1, R \in Seq(S), JoinIs
<1>4. w = I \o P \o R
  BY DEF u
<1> HIDE DEF w
<1>5. Len(w) = NowLen(I, P, R)
  BY <1>1, <1>2, <1>3 DEF NowLen
<1>6. ASSUME NEW p \in 1 .. NowLen(I, P, R)  PROVE w[p] = NowAt(I, P, R, p)
  <2>1. p \in 1 .. Len(u) + Len(R) /\ p \in Int
    BY <1>1, <1>2 DEF NowLen
  <2>2. CASE p <= Len(u)
    <3>1. p \in 1 .. Len(I) + Len(P) /\ p <= Len(I) + Len(P)
      BY <1>1, <1>2, <2>1, <2>2
    <3> QED  BY <1>2, <1>3, <2>1, <2>2, <3>1 DEF NowAt
  <2>3. CASE ~(p <= Len(u))
    <3>1. ~(p <= Len(I)) /\ ~(p <= Len(I) + Len(P)) /\ p - Len(u) = p - Len(I) - Len(P)
      BY <1>1, <1>2, <2>1, <2>3
    <3> QED  BY <1>3, <2>1, <2>3, <3>1 DEF NowAt
  <2> QED  BY <2>2, <2>3
<1> QED  BY <1>3, <1>4, <1>5, <1>6

(* Two sequences of the same length and elements are equal. *)
LEMMA SameSequence ==
    ASSUME NEW S, NEW u \in Seq(S), NEW v \in Seq(S), Len(u) = Len(v), \A p \in 1 .. Len(u) : u[p] = v[p]
    PROVE  u = v
OBVIOUS

\* now is the text without the gap, and fits but for one of m inputs to come.
AllThere(now, text, keep, gap, m) ==
    /\ now = IF gap = 0 THEN text ELSE Without(text, keep, gap)
    /\ Len(now) <= NumCtx \/ (Len(now) = NumCtx + 1 /\ m = 1)

(* A text that is complete element by element is that sequence. *)
LEMMA CompleteText ==
    ASSUME Ready, NEW q \in Req, NEW I \in Seq(InputSet), NEW P \in Seq(InputSet), NEW R \in Seq(InputSet),
           NEW T \in Seq(Toks), NEW n \in Nat, NEW keep \in Nat, Complete(q, I, P, R, T, n, keep),
           NEW now, now = I \o P \o R, NEW text, text = Text(q, T, n),
           NEW gap, gap = Len(text) - Len(now)
    PROVE  AllThere(now, text, keep, gap, Len(P) + Len(R))
<1> DEFINE l == NowLen(I, P, R)
           t == Len(T) + n
<1>1. now \in Seq(InputSet) /\ Len(now) = l /\ \A p \in 1 .. l : now[p] = NowAt(I, P, R, p)
  BY NowIs
<1>2. text \in Seq(InputSet) /\ Len(text) = t /\ \A p \in 1 .. t : text[p] = TextAt(q, T, p)
  BY TextIs
<1>3. Len(T) \in Nat /\ Len(I) \in Nat /\ Len(P) \in Nat /\ Len(R) \in Nat
  OBVIOUS
<1>4. l \in Nat /\ t \in Nat
  BY <1>3 DEF NowLen
<1>5. gap = Gap(I, P, R, T, n)
  BY <1>1, <1>2 DEF Gap
<1>6. gap >= 0 /\ (gap > 0 => keep < l) /\ (l <= NumCtx \/ (l = NumCtx + 1 /\ Len(P) + Len(R) = 1))
  BY <1>5 DEF Complete, Bounded
<1>7. \A p \in 1 .. l : NowAt(I, P, R, p) = TextAt(q, T, Origin(p, keep, gap))
  BY <1>5 DEF Complete, Same
<1>8. gap = t - l
  BY <1>1, <1>2
<1> HIDE DEF l, t
<1>9. CASE gap = 0
  <2>1. t = l
    BY <1>4, <1>8, <1>9
  <2>2. ASSUME NEW p \in 1 .. l  PROVE now[p] = text[p]
    <3>1. Origin(p, keep, gap) = p
      BY ONLY <1>9, p \in 1 .. l, <1>4 DEF Origin
    <3> QED  BY <1>1, <1>2, <1>7, <2>1, <3>1
  <2>3. now = text
    BY ONLY <1>1, <1>2, <2>1, <2>2, SameSequence
  <2> QED  BY ONLY <1>1, <1>6, <1>9, <2>3 DEF AllThere
<1>10. CASE gap # 0
  <2> DEFINE v == Without(text, keep, gap)
  <2>1. gap \in Nat /\ gap > 0 /\ keep < l /\ keep + gap <= t /\ t - gap = l
    BY ONLY <1>4, <1>6, <1>8, <1>10, keep \in Nat
  <2>2. v \in Seq(InputSet) /\ Len(v) = Len(text) - gap /\ \A p \in 1 .. Len(text) - gap : v[p] = text[Origin(p, keep, gap)]
    <3>1. text \in Seq(InputSet) /\ keep + gap <= Len(text)
      BY ONLY <1>2, <2>1
    <3>2. gap \in Nat /\ keep \in Nat
      BY ONLY <2>1, keep \in Nat
    <3> QED  BY ONLY <3>1, <3>2, WithoutIs
  <2> HIDE DEF v
  <2>3. Len(text) - gap = l
    BY <1>2, <2>1
  <2>4. ASSUME NEW p \in 1 .. l  PROVE now[p] = v[p]
    <3>1. Origin(p, keep, gap) \in 1 .. t
      BY <1>4, <2>1 DEF Origin
    <3> QED  BY Zenon, <1>1, <1>2, <1>7, <2>2, <2>3, <3>1
  <2>5. now = v
    BY ONLY <1>1, <2>2, <2>3, <2>4, SameSequence
  <2> QED  BY ONLY <1>1, <1>6, <1>10, <2>5 DEF AllThere, v
<1> QED  BY <1>9, <1>10

(***************************************************************************)
(* No input of a sequence is lost, repeated or out of order: what its slot *)
(* has, what is pending and what is to come are its prompt and predicted   *)
(* tokens, less what shifts discarded behind the inputs to keep, however   *)
(* batches, shifts, reprocessing, admissions and ends interleave; and it   *)
(* exceeds the context by at most the token that makes forwardBatch shift. *)
(***************************************************************************)
THEOREM TextIsWhole == Spec => []WholeText
<1>1. ASSUME Inv  PROVE WholeText
  <2>1. srv \in SrvType /\ Filled(srv) /\ Ready
    BY <1>1 DEF Inv, Sound
  <2>2. SUFFICES ASSUME NEW q \in Live
                 PROVE  LET r == srv.seq[q]
                            text == r.prompt \o [k \in 1 .. r.numPredicted |-> <<q, k>>]
                            now == srv.slots[r.slot].Inputs \o r.pending \o r.inputs
                            gap == Len(text) - Len(now)
                        IN  /\ now = IF gap = 0 THEN text ELSE Without(text, r.numKeep, gap)
                            /\ Len(now) <= NumCtx \/ (Len(now) = NumCtx + 1 /\ Len(r.inputs \o r.pending) = 1)
    BY Zenon DEF WholeText
  <2> DEFINE r == srv.seq[q]
             I == srv.slots[r.slot].Inputs
             P == r.pending
             R == r.inputs
             T == r.prompt
             n == r.numPredicted
             keep == r.numKeep
             text == Text(q, T, n)
             now == I \o P \o R
             gap == Len(text) - Len(now)
  <2>3. PICK i \in Idx : Used(srv, i) /\ srv.seqs[i] = q
    BY DEF Live, Used
  <2>4. q \in Req /\ r = Who(srv, i) /\ I = Inp(srv, i)
    BY <2>1, <2>3 DEF Who, Inp, Used, SrvType
  <2>5. r \in SeqType /\ r.slot \in Idx
    BY <2>1, <2>4 DEF SrvType, SeqType
  <2>6. I \in Seq(InputSet) /\ P \in Seq(InputSet) /\ R \in Seq(InputSet) /\ T \in Seq(Toks) /\ n \in Nat
        /\ keep \in 0 .. NumCtx - 1
    BY <2>1, <2>5 DEF SrvType, SeqType, SlotType
  <2>7. Complete(q, I, P, R, T, n, keep)
    BY <2>1, <2>3, <2>4 DEF Filled, Whole
  <2>8. text = r.prompt \o [k \in 1 .. r.numPredicted |-> <<q, k>>]
    BY DEF Text
  <2>9. keep \in Nat
    <3>1. NumCtx \in Nat
      BY <2>1, Numbers
    <3> HIDE DEF keep
    <3> QED  BY <2>6, <3>1
  <2>10. AllThere(now, text, keep, gap, Len(P) + Len(R))
    <3>1. now = I \o P \o R /\ text = Text(q, T, n)
      OBVIOUS
    <3> HIDE DEF text, now
    <3>2. gap = Len(text) - Len(now)
      OBVIOUS
    <3> HIDE DEF I, P, R, T, n, keep, gap
    <3> QED  BY ONLY <2>1, <2>4, <2>6, <2>7, <2>9, <3>1, <3>2, CompleteText
  <2>11. Len(R \o P) = Len(P) + Len(R)
    <3> HIDE DEF R, P
    <3> QED  BY <2>6
  <2> HIDE DEF text
  <2> QED  BY Zenon, <2>8, <2>10, <2>11 DEF AllThere
<1> QED  BY <1>1, InvAlways, PTL

=============================================================================

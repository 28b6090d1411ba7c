---------------------------- MODULE KvCellsProofs ----------------------------
(***************************************************************************)
(* What the operations of llama_kv_cells and llama_kv_cache keep of the    *)
(* bookkeeping, one lemma per operation.                                   *)
(***************************************************************************)
EXTENDS KvCells, FiniteSetTheorems, TLAPS

(***************************************************************************)
(* The three views agree: "used", the positions and the owners of the      *)
(* cells (Views), and the counts of seq_pos (Counted).  Settled is needed  *)
(* because a copy between streams takes a cell's position before its       *)
(* pending shift, and because prepare does not restore shifts.             *)
(***************************************************************************)
Holders(c, s, p) == {i \in Idx : s \in c.seq[i] /\ c.pos[i] = p}
At(c, i, s, p) == IF s \in c.seq[i] /\ c.pos[i] = p THEN 1 ELSE 0
Views(c) == \A i \in Idx : ((i \in c.used) <=> (c.pos[i] # -1)) /\ ((c.seq[i] = {}) <=> (c.pos[i] = -1))
Counted(c) == \A s \in Seqs, p \in Pos : c.seq_pos[s][p] = Cardinality(Holders(c, s, p))
Settled(c) == \A i \in Idx : /\ c.pos[i] = -1 => c.shift[i] = 0
                             /\ c.pos[i] # -1 => c.pos[i] - c.shift[i] \in Pos
                             /\ ~c.has_shift => c.shift[i] = 0
Good(c) == c \in CellsType /\ Views(c) /\ Counted(c) /\ Settled(c)

\* CellsType, but for counts that an operation may have left below 0.
LooseType ==
    [pos : [Idx -> {-1} \cup Pos], shift : [Idx -> Int],
     seq : [Idx -> SUBSET Seqs],   used : SUBSET Idx,
     seq_pos : [Seqs -> [Pos -> Int]], has_shift : BOOLEAN]

(* The counts of the sequences in T at position p0 are k higher. *)
Recounted(c, d, T, p0, k) ==
    /\ d \in LooseType
    /\ d.pos = c.pos /\ d.shift = c.shift /\ d.seq = c.seq /\ d.used = c.used /\ d.has_shift = c.has_shift
    /\ \A s \in Seqs, p \in Pos :
          d.seq_pos[s][p] = c.seq_pos[s][p] + (IF s \in T /\ p = p0 THEN k ELSE 0)

DecOp(p, s, a) == SeqPosDec(a, s, p)
IncOp(p, s, a) == SeqPosInc(a, s, p)
Dec == INSTANCE FoldInduction WITH Op <- DecOp
Inc == INSTANCE FoldInduction WITH Op <- IncOp

(* A set of naturals that is not empty has a least element. *)
LEMMA LeastNatural == \A T \in SUBSET Nat : T # {} => \E n \in T : \A m \in T : n <= m
<1> SUFFICES ASSUME NEW T \in SUBSET Nat, T # {}
             PROVE  \E n \in T : \A m \in T : n <= m
  OBVIOUS
<1> DEFINE U == {T \cap (0 .. m) : m \in T}
<1>1. \A m \in T : T \cap (0 .. m) \in FiniteSubsetsOf(Nat)
  <2> SUFFICES ASSUME NEW m \in T PROVE T \cap (0 .. m) \in FiniteSubsetsOf(Nat)
    OBVIOUS
  <2>1. IsFiniteSet(T \cap (0 .. m))
    <3>1. IsFiniteSet(0 .. m)
      BY FS_Interval
    <3> QED BY <3>1, FS_Subset
  <2> QED BY <2>1 DEF FiniteSubsetsOf
<1>2. U \subseteq FiniteSubsetsOf(Nat) /\ U # {}
  BY <1>1
<1>3. PICK u \in U : \A w \in U : <<w, u>> \notin StrictSubsetOrdering(Nat)
  <2> HIDE DEF U
  <2> QED BY <1>2, FS_StrictSubsetOrderingWellFounded, WFMin
<1>4. PICK n \in T : u = T \cap (0 .. n)
  BY <1>3
<1>5. ASSUME NEW m \in T, m < n PROVE FALSE
  <2>1. <<T \cap (0 .. m), u>> \in StrictSubsetOrdering(Nat)
    BY <1>4, <1>5 DEF StrictSubsetOrdering
  <2> QED BY <2>1, <1>3
<1> QED BY <1>5

(* The subsets of a finite set are ranked by their cardinality. *)
LEMMA FiniteRanks ==
    ASSUME NEW S, IsFiniteSet(S)
    PROVE  \E r \in [SUBSET S -> Nat] :
              \A s \in SUBSET S : r[s] <= r[S] /\ \A x \in s : r[s \ {x}] < r[s]
<1> DEFINE r == [s \in SUBSET S |-> Cardinality(s)]
<1>1. \A s \in SUBSET S : IsFiniteSet(s) /\ Cardinality(s) \in Nat /\ Cardinality(s) <= Cardinality(S)
  BY FS_Subset, FS_CardinalityType
<1>2. \A s \in SUBSET S : \A x \in s : s \ {x} \in SUBSET S /\ Cardinality(s \ {x}) = Cardinality(s) - 1
  BY <1>1, FS_RemoveElement
<1>3. r \in [SUBSET S -> Nat]
  BY <1>1
<1>4. \A s \in SUBSET S : r[s] <= r[S] /\ \A x \in s : r[s \ {x}] < r[s]
  BY <1>1, <1>2
<1> QED BY <1>3, <1>4

(* The cells, sequences and positions are finite sets of numbers. *)
LEMMA Sizes == /\ Size \in Nat \ {0} /\ NSeq \in Nat \ {0} /\ MaxPos \in Nat
               /\ IsFiniteSet(Idx) /\ IsFiniteSet(Seqs) /\ Idx \subseteq Nat /\ Seqs \subseteq Nat /\ Pos \subseteq Nat
               /\ -1 \notin Pos
<1>1. Size \in Nat \ {0} /\ NSeq \in Nat \ {0} /\ MaxPos \in Nat
  BY SizesAssumption
<1>2. IsFiniteSet(0 .. Size - 1) /\ IsFiniteSet(0 .. NSeq - 1)
  BY <1>1, FS_Interval
<1> QED BY <1>1, <1>2 DEF Idx, Seqs, Pos

(* Every subset of the sequences is finite. *)
LEMMA SeqSetsFinite == \A T \in SUBSET Seqs : IsFiniteSet(T)
BY Sizes, FS_Subset

(* seq_pos_dec changes one count. *)
LEMMA DecOne ==
    ASSUME NEW a \in LooseType, NEW s \in Seqs, NEW p \in Pos
    PROVE  Recounted(a, SeqPosDec(a, s, p), {s}, p, -1)
<1>1. a.seq_pos \in [Seqs -> [Pos -> Int]]
  BY DEF LooseType
<1>2. [a.seq_pos EXCEPT ![s][p] = @ - 1] \in [Seqs -> [Pos -> Int]]
  BY <1>1
<1>3. SeqPosDec(a, s, p) = [a EXCEPT !.seq_pos = [a.seq_pos EXCEPT ![s][p] = @ - 1]]
  BY DEF SeqPosDec, LooseType
<1> DEFINE f == [a.seq_pos EXCEPT ![s][p] = @ - 1]
<1>4. \A t \in Seqs, q \in Pos : f[t][q] = a.seq_pos[t][q] + (IF t \in {s} /\ q = p THEN -1 ELSE 0)
  BY <1>1
<1>5. f \in [Seqs -> [Pos -> Int]]
  BY <1>2
<1> HIDE DEF f
<1> DEFINE d == [a EXCEPT !.seq_pos = f]
<1>6. d \in LooseType /\ d.seq_pos = f
  BY <1>5 DEF LooseType
<1>7. d.pos = a.pos /\ d.shift = a.shift /\ d.seq = a.seq /\ d.used = a.used /\ d.has_shift = a.has_shift
  BY DEF LooseType
<1>8. SeqPosDec(a, s, p) = d
  BY <1>3 DEF f
<1> HIDE DEF d
<1> QED BY <1>4, <1>6, <1>7, <1>8 DEF Recounted

(* seq_pos_inc changes one count. *)
LEMMA IncOne ==
    ASSUME NEW a \in LooseType, NEW s \in Seqs, NEW p \in Pos
    PROVE  Recounted(a, SeqPosInc(a, s, p), {s}, p, 1)
<1>1. a.seq_pos \in [Seqs -> [Pos -> Int]]
  BY DEF LooseType
<1>2. [a.seq_pos EXCEPT ![s][p] = @ + 1] \in [Seqs -> [Pos -> Int]]
  BY <1>1
<1>3. SeqPosInc(a, s, p) = [a EXCEPT !.seq_pos = [a.seq_pos EXCEPT ![s][p] = @ + 1]]
  BY DEF SeqPosInc, LooseType
<1> DEFINE f == [a.seq_pos EXCEPT ![s][p] = @ + 1]
<1>4. \A t \in Seqs, q \in Pos : f[t][q] = a.seq_pos[t][q] + (IF t \in {s} /\ q = p THEN 1 ELSE 0)
  BY <1>1
<1>5. f \in [Seqs -> [Pos -> Int]]
  BY <1>2
<1> HIDE DEF f
<1> DEFINE d == [a EXCEPT !.seq_pos = f]
<1>6. d \in LooseType /\ d.seq_pos = f
  BY <1>5 DEF LooseType
<1>7. d.pos = a.pos /\ d.shift = a.shift /\ d.seq = a.seq /\ d.used = a.used /\ d.has_shift = a.has_shift
  BY DEF LooseType
<1>8. SeqPosInc(a, s, p) = d
  BY <1>3 DEF f
<1> HIDE DEF d
<1> QED BY <1>4, <1>6, <1>7, <1>8 DEF Recounted

(* Counting down, then up again, for several sequences. *)
LEMMA RecountedMore ==
    ASSUME NEW c, NEW a, NEW d, NEW T, NEW x \in Seqs, x \notin T, NEW p0 \in Pos, NEW k \in Int, c \in LooseType,
           Recounted(c, a, T, p0, k), Recounted(a, d, {x}, p0, k)
    PROVE  Recounted(c, d, T \cup {x}, p0, k)
<1>1. \A s \in Seqs, p \in Pos : c.seq_pos[s][p] \in Int
  BY DEF LooseType
<1>2. ASSUME NEW s \in Seqs, NEW p \in Pos
      PROVE  d.seq_pos[s][p] = c.seq_pos[s][p] + (IF s \in T \cup {x} /\ p = p0 THEN k ELSE 0)
  <2>1. a.seq_pos[s][p] = c.seq_pos[s][p] + (IF s \in T /\ p = p0 THEN k ELSE 0)
    BY DEF Recounted
  <2>2. d.seq_pos[s][p] = a.seq_pos[s][p] + (IF s \in {x} /\ p = p0 THEN k ELSE 0)
    BY DEF Recounted
  <2> QED BY <1>1, <2>1, <2>2
<1> QED BY <1>2 DEF Recounted

(* seq_pos_rm: the owners of a cell are counted down at its position. *)
LEMMA SeqPosRmIs ==
    ASSUME NEW c \in LooseType, NEW i \in Idx, c.seq[i] = {} \/ c.pos[i] \in Pos
    PROVE  Recounted(c, SeqPosRm(c, i), c.seq[i], c.pos[i], -1)
<1> DEFINE J == [T \in SUBSET c.seq[i] |-> {a \in LooseType : Recounted(c, a, T, c.pos[i], -1)}]
<1>1. c.seq[i] \in SUBSET Seqs /\ IsFiniteSet(c.seq[i]) /\ c.pos[i] \in Int
  <2>1. c.seq[i] \in SUBSET Seqs /\ c.pos[i] \in {-1} \cup Pos
    BY DEF LooseType
  <2>2. {-1} \cup Pos \subseteq Int
    BY Sizes
  <2>3. c.pos[i] \in Int
    BY <2>1, <2>2
  <2>4. IsFiniteSet(c.seq[i])
    BY <2>1, SeqSetsFinite
  <2> QED BY <2>1, <2>3, <2>4
<1>2. Recounted(c, c, {}, c.pos[i], -1)
  <2>1. \A s \in Seqs, p \in Pos : c.seq_pos[s][p] \in Int
    BY DEF LooseType
  <2> QED BY <2>1 DEF Recounted
<1>3. c \in J[{}]
  BY <1>2
<1>4. ASSUME NEW T \in SUBSET c.seq[i], NEW x \in c.seq[i] \ T, NEW a \in J[T]
      PROVE  DecOp(c.pos[i], x, a) \in J[T \cup {x}]
  <2>1. a \in LooseType /\ Recounted(c, a, T, c.pos[i], -1)
    BY <1>4
  <2>2. x \in Seqs /\ x \notin T /\ c.pos[i] \in Pos /\ T \cup {x} \in SUBSET c.seq[i]
    BY <1>1, <1>4
  <2>3. Recounted(a, DecOp(c.pos[i], x, a), {x}, c.pos[i], -1)
    BY <2>1, <2>2, DecOne DEF DecOp
  <2>4. Recounted(c, DecOp(c.pos[i], x, a), T \cup {x}, c.pos[i], -1)
    BY <2>1, <2>2, <2>3, RecountedMore
  <2> QED BY <2>2, <2>4 DEF Recounted
<1>5. Dec!SetFold(c.pos[i], c, c.seq[i]) \in J[c.seq[i]]
  <2> HIDE DEF J
  <2>1. Dec!WellOrdered /\ Dec!Ranked(c.seq[i])
    <3>1. IsFiniteSet(c.seq[i])
      BY <1>1
    <3> QED BY <3>1, LeastNatural, FiniteRanks DEF Dec!WellOrdered, Dec!Ranked
  <2>2. \A T \in SUBSET c.seq[i] : \A x \in c.seq[i] \ T : \A a \in J[T] : DecOp(c.pos[i], x, a) \in J[T \cup {x}]
    BY <1>4
  <2> QED BY ONLY <2>1, <2>2, <1>3, Dec!FoldSetInduction
<1>6. SeqPosRm(c, i) = Dec!SetFold(c.pos[i], c, c.seq[i])
  BY DEF SeqPosRm, Dec!SetFold, DecOp, FoldSet, MapThenFoldSet, Dec!MapThenFoldSet
<1> QED BY <1>5, <1>6

(* seq_pos_add: they are counted up. *)
LEMMA SeqPosAddIs ==
    ASSUME NEW c \in LooseType, NEW i \in Idx, c.seq[i] = {} \/ c.pos[i] \in Pos
    PROVE  Recounted(c, SeqPosAdd(c, i), c.seq[i], c.pos[i], 1)
<1> DEFINE J == [T \in SUBSET c.seq[i] |-> {a \in LooseType : Recounted(c, a, T, c.pos[i], 1)}]
<1>1. c.seq[i] \in SUBSET Seqs /\ IsFiniteSet(c.seq[i]) /\ c.pos[i] \in Int
  <2>1. c.seq[i] \in SUBSET Seqs /\ c.pos[i] \in {-1} \cup Pos
    BY DEF LooseType
  <2>2. {-1} \cup Pos \subseteq Int
    BY Sizes
  <2>3. c.pos[i] \in Int
    BY <2>1, <2>2
  <2>4. IsFiniteSet(c.seq[i])
    BY <2>1, SeqSetsFinite
  <2> QED BY <2>1, <2>3, <2>4
<1>2. Recounted(c, c, {}, c.pos[i], 1)
  <2>1. \A s \in Seqs, p \in Pos : c.seq_pos[s][p] \in Int
    BY DEF LooseType
  <2> QED BY <2>1 DEF Recounted
<1>3. c \in J[{}]
  BY <1>2
<1>4. ASSUME NEW T \in SUBSET c.seq[i], NEW x \in c.seq[i] \ T, NEW a \in J[T]
      PROVE  IncOp(c.pos[i], x, a) \in J[T \cup {x}]
  <2>1. a \in LooseType /\ Recounted(c, a, T, c.pos[i], 1)
    BY <1>4
  <2>2. x \in Seqs /\ x \notin T /\ c.pos[i] \in Pos /\ T \cup {x} \in SUBSET c.seq[i]
    BY <1>1, <1>4
  <2>3. Recounted(a, IncOp(c.pos[i], x, a), {x}, c.pos[i], 1)
    BY <2>1, <2>2, IncOne DEF IncOp
  <2>4. Recounted(c, IncOp(c.pos[i], x, a), T \cup {x}, c.pos[i], 1)
    BY <2>1, <2>2, <2>3, RecountedMore
  <2> QED BY <2>2, <2>4 DEF Recounted
<1>5. Inc!SetFold(c.pos[i], c, c.seq[i]) \in J[c.seq[i]]
  <2> HIDE DEF J
  <2>1. Inc!WellOrdered /\ Inc!Ranked(c.seq[i])
    <3>1. IsFiniteSet(c.seq[i])
      BY <1>1
    <3> QED BY <3>1, LeastNatural, FiniteRanks DEF Inc!WellOrdered, Inc!Ranked
  <2>2. \A T \in SUBSET c.seq[i] : \A x \in c.seq[i] \ T : \A a \in J[T] : IncOp(c.pos[i], x, a) \in J[T \cup {x}]
    BY <1>4
  <2> QED BY ONLY <2>1, <2>2, <1>3, Inc!FoldSetInduction
<1>6. SeqPosAdd(c, i) = Inc!SetFold(c.pos[i], c, c.seq[i])
  BY DEF SeqPosAdd, Inc!SetFold, IncOp, FoldSet, MapThenFoldSet, Inc!MapThenFoldSet
<1> QED BY <1>5, <1>6

\* No cell but i differs in its owners or its position.
SameElse(c, d, i) == \A j \in Idx \ {i} : d.seq[j] = c.seq[j] /\ d.pos[j] = c.pos[j]

(* A cell changes its owners or its position: the counts of its owners     *)
(* before go down by one, those of its owners after go up by one.          *)
LEMMA Recount ==
    ASSUME NEW c, NEW d, NEW i \in Idx, NEW s \in Seqs, NEW p \in Pos, SameElse(c, d, i)
    PROVE  /\ Cardinality(Holders(c, s, p)) \in Nat
           /\ Cardinality(Holders(d, s, p)) \in Nat
           /\ Cardinality(Holders(d, s, p)) = Cardinality(Holders(c, s, p)) - At(c, i, s, p) + At(d, i, s, p)
<1> DEFINE H == Holders(c, s, p)
           K == Holders(d, s, p)
<1>1. H \subseteq Idx /\ K \subseteq Idx
  BY DEF Holders
<1>2. IsFiniteSet(H) /\ IsFiniteSet(K)
  BY <1>1, Sizes, FS_Subset
<1>3. H \ {i} = K \ {i} /\ (i \in H <=> s \in c.seq[i] /\ c.pos[i] = p) /\ (i \in K <=> s \in d.seq[i] /\ d.pos[i] = p)
  BY DEF Holders, SameElse
<1>4. /\ Cardinality(H) \in Nat /\ Cardinality(K) \in Nat
      /\ Cardinality(H \ {i}) = IF i \in H THEN Cardinality(H) - 1 ELSE Cardinality(H)
      /\ Cardinality(K \ {i}) = IF i \in K THEN Cardinality(K) - 1 ELSE Cardinality(K)
  BY <1>2, FS_CardinalityType, FS_RemoveElement
<1> HIDE DEF H, K
<1>5. Cardinality(K) = Cardinality(H) - (IF i \in H THEN 1 ELSE 0) + (IF i \in K THEN 1 ELSE 0)
  <2>1. Cardinality(H \ {i}) = Cardinality(K \ {i})
    BY <1>3
  <2> QED BY <1>4, <2>1
<1>6. Cardinality(K) = Cardinality(H) - At(c, i, s, p) + At(d, i, s, p)
  BY <1>3, <1>5 DEF At
<1> QED BY <1>4, <1>6 DEF H, K

(* So an operation on one cell keeps the three views, when it does the     *)
(* same to "used" and to the counts.                                       *)
LEMMA OneCell ==
    ASSUME NEW c, Good(c), NEW d \in LooseType, NEW i \in Idx,
           \A j \in Idx \ {i} : /\ d.seq[j] = c.seq[j] /\ d.pos[j] = c.pos[j] /\ d.shift[j] = c.shift[j]
                                /\ (j \in d.used <=> j \in c.used),
           (i \in d.used) <=> (d.pos[i] # -1), (d.seq[i] = {}) <=> (d.pos[i] = -1),
           \A s \in Seqs, p \in Pos : d.seq_pos[s][p] = c.seq_pos[s][p] - At(c, i, s, p) + At(d, i, s, p),
           d.pos[i] = -1 => d.shift[i] = 0,
           d.pos[i] # -1 => d.pos[i] - d.shift[i] \in Pos,
           ~d.has_shift => ~c.has_shift /\ d.shift[i] = 0
    PROVE  Good(d)
<1>1. Views(d)
  <2>1. Views(c)
    BY DEF Good
  <2> QED BY <2>1 DEF Views
<1>2. Settled(d)
  <2>1. Settled(c)
    BY DEF Good
  <2> QED BY <2>1 DEF Settled
<1>3. ASSUME NEW s \in Seqs, NEW p \in Pos
      PROVE  d.seq_pos[s][p] = Cardinality(Holders(d, s, p)) /\ d.seq_pos[s][p] \in Nat
  <2>1. c.seq_pos[s][p] = Cardinality(Holders(c, s, p))
    BY DEF Good, Counted
  <2>2. /\ Cardinality(Holders(d, s, p)) \in Nat
        /\ Cardinality(Holders(d, s, p)) = Cardinality(Holders(c, s, p)) - At(c, i, s, p) + At(d, i, s, p)
    <3>1. SameElse(c, d, i)
      BY DEF SameElse
    <3> QED BY ONLY <3>1, i \in Idx, s \in Seqs, p \in Pos, Recount
  <2>3. d.seq_pos[s][p] = c.seq_pos[s][p] - At(c, i, s, p) + At(d, i, s, p)
    OBVIOUS
  <2> QED BY <2>1, <2>2, <2>3 DEF At
<1>4. d \in CellsType
  <2>1. d.seq_pos \in [Seqs -> [Pos -> Nat]]
    <3>1. d.seq_pos \in [Seqs -> [Pos -> Int]]
      BY DEF LooseType
    <3>2. ASSUME NEW s \in Seqs PROVE d.seq_pos[s] \in [Pos -> Nat]
      BY <3>1, <1>3
    <3> QED BY <3>1, <3>2
  <2> QED BY <2>1 DEF LooseType, CellsType
<1> QED BY <1>1, <1>2, <1>3, <1>4 DEF Good, Counted

(* Good cells have numbers where LooseType wants them. *)
LEMMA GoodLoose ==
    ASSUME NEW c, Good(c)
    PROVE  /\ c \in LooseType
           /\ \A i \in Idx : /\ c.pos[i] \in Int /\ c.shift[i] \in Int /\ c.seq[i] \in SUBSET Seqs
                             /\ c.seq[i] = {} \/ c.pos[i] \in Pos
                             /\ c.pos[i] # -1 => c.pos[i] \in Pos
           /\ \A s \in Seqs, p \in Pos : c.seq_pos[s][p] \in Nat
<1>1. c \in CellsType /\ Views(c)
  BY DEF Good
<1>2. c.seq_pos \in [Seqs -> [Pos -> Nat]]
  BY <1>1 DEF CellsType
<1>3. c.seq_pos \in [Seqs -> [Pos -> Int]]
  BY <1>2
<1>4. c \in LooseType
  BY <1>1, <1>3 DEF CellsType, LooseType
<1>5. ASSUME NEW i \in Idx
      PROVE  /\ c.pos[i] \in Int /\ c.shift[i] \in Int /\ c.seq[i] \in SUBSET Seqs
             /\ c.seq[i] = {} \/ c.pos[i] \in Pos
             /\ c.pos[i] # -1 => c.pos[i] \in Pos
  <2>1. c.pos[i] \in {-1} \cup Pos /\ c.shift[i] \in Int /\ c.seq[i] \in SUBSET Seqs
    BY <1>1 DEF CellsType
  <2>2. c.pos[i] \in Int
    <3>1. {-1} \cup Pos \subseteq Int
      BY Sizes
    <3> QED BY <2>1, <3>1
  <2>3. c.seq[i] = {} \/ c.pos[i] # -1
    BY <1>1 DEF Views
  <2> QED BY <2>1, <2>2, <2>3
<1> QED BY <1>2, <1>4, <1>5

-----------------------------------------------------------------------------
(* The operations on one cell. *)

\* Nothing but the cell i has changed, of positions, owners and shifts.
Apart(c, d, i) ==
    \A j \in Idx \ {i} : d.pos[j] = c.pos[j] /\ d.seq[j] = c.seq[j] /\ d.shift[j] = c.shift[j]

\* The fields of d as far as they are functions of cells: x at i, those of c elsewhere.
Changed(c, d, i, pos, shift, seq) ==
    /\ d \in LooseType
    /\ \A j \in Idx : /\ d.pos[j] = IF j = i THEN pos ELSE c.pos[j]
                      /\ d.shift[j] = IF j = i THEN shift ELSE c.shift[j]
                      /\ d.seq[j] = IF j = i THEN seq ELSE c.seq[j]

(* Changes of one cell, one after the other, with counting in between. *)
LEMMA ChangedTwice ==
    ASSUME NEW c, NEW b, NEW a, NEW i, NEW q, NEW g, NEW Y, NEW p, NEW h, NEW X,
           Changed(c, b, i, q, g, Y), Changed(b, a, i, p, h, X)
    PROVE  Changed(c, a, i, p, h, X)
BY DEF Changed

(* Counting changes no cell. *)
LEMMA ChangedCounted ==
    ASSUME NEW c, NEW a, NEW d, NEW i, NEW p, NEW h, NEW X, NEW T, NEW q, NEW k,
           Changed(c, a, i, p, h, X), Recounted(a, d, T, q, k)
    PROVE  Changed(c, d, i, p, h, X) /\ d.used = a.used /\ d.has_shift = a.has_shift
<1>1. d \in LooseType /\ d.pos = a.pos /\ d.shift = a.shift /\ d.seq = a.seq
  BY DEF Recounted
<1>2. Changed(c, d, i, p, h, X)
  BY ONLY <1>1, Changed(c, a, i, p, h, X) DEF Changed
<1> QED BY <1>2 DEF Recounted

(* Nor does counting that comes before. *)
LEMMA CountedChanged ==
    ASSUME NEW c, NEW b, NEW a, NEW i, NEW p, NEW h, NEW X, NEW T, NEW q, NEW k,
           Recounted(c, b, T, q, k), Changed(b, a, i, p, h, X)
    PROVE  /\ Changed(c, a, i, p, h, X) /\ b.used = c.used /\ b.has_shift = c.has_shift
           /\ b.pos = c.pos /\ b.shift = c.shift
<1>1. b.pos = c.pos /\ b.shift = c.shift /\ b.seq = c.seq /\ b.used = c.used /\ b.has_shift = c.has_shift
  BY DEF Recounted
<1>2. Changed(c, a, i, p, h, X)
  BY ONLY <1>1, Changed(b, a, i, p, h, X) DEF Changed
<1> QED BY <1>1, <1>2

(* A cell that is left without an owner. *)
LEMMA VacateIs ==
    ASSUME NEW c \in LooseType, NEW i \in Idx
    PROVE  /\ Changed(c, Vacate(c, i), i, -1, 0, {})
           /\ Vacate(c, i).used = c.used \ {i} /\ Vacate(c, i).seq_pos = c.seq_pos
           /\ Vacate(c, i).has_shift = c.has_shift
<1> DEFINE P == [c.pos EXCEPT ![i] = -1]
           H == [c.shift EXCEPT ![i] = 0]
           Q == [c.seq EXCEPT ![i] = {}]
           d == [c EXCEPT !.pos = P, !.shift = H, !.seq = Q, !.used = @ \ {i}]
<1>1. c.pos \in [Idx -> {-1} \cup Pos] /\ c.shift \in [Idx -> Int] /\ c.seq \in [Idx -> SUBSET Seqs] /\ c.used \in SUBSET Idx
  BY DEF LooseType
<1>2. P \in [Idx -> {-1} \cup Pos] /\ H \in [Idx -> Int] /\ Q \in [Idx -> SUBSET Seqs] /\ c.used \ {i} \in SUBSET Idx
  BY <1>1
<1>3. \A j \in Idx : /\ P[j] = IF j = i THEN -1 ELSE c.pos[j]
                     /\ H[j] = IF j = i THEN 0 ELSE c.shift[j]
                     /\ Q[j] = IF j = i THEN {} ELSE c.seq[j]
  BY <1>1
<1>4. Vacate(c, i) = d
  BY DEF Vacate, LooseType
<1> HIDE DEF P, H, Q
<1>5. d \in LooseType /\ d.pos = P /\ d.shift = H /\ d.seq = Q
  BY <1>2 DEF LooseType
<1>6. d.used = c.used \ {i} /\ d.seq_pos = c.seq_pos /\ d.has_shift = c.has_shift
  BY DEF LooseType
<1> HIDE DEF d
<1> QED BY <1>3, <1>4, <1>5, <1>6 DEF Changed

(* rm: a cell loses all its owners. *)
LEMMA CellRmGood ==
    ASSUME NEW c, Good(c), NEW i \in Idx
    PROVE  /\ Good(CellRm(c, i)) /\ Apart(c, CellRm(c, i), i) /\ CellRm(c, i).has_shift = c.has_shift
           /\ CellRm(c, i).pos[i] = -1 /\ CellRm(c, i).seq[i] = {} /\ CellRm(c, i).shift[i] = 0
<1> DEFINE a == SeqPosRm(c, i)
           d == CellRm(c, i)
<1>1. c \in LooseType /\ (c.seq[i] = {} \/ c.pos[i] \in Pos) /\ \A s \in Seqs, p \in Pos : c.seq_pos[s][p] \in Nat
  BY GoodLoose
<1>2. Recounted(c, a, c.seq[i], c.pos[i], -1)
  BY <1>1, SeqPosRmIs
<1>3. a \in LooseType
  BY <1>2 DEF Recounted
<1>4. /\ Changed(a, d, i, -1, 0, {}) /\ d.used = a.used \ {i} /\ d.seq_pos = a.seq_pos /\ d.has_shift = a.has_shift
  BY <1>3, VacateIs DEF CellRm
<1> HIDE DEF a, d
<1>5. Changed(c, d, i, -1, 0, {}) /\ d.used = c.used \ {i} /\ d.has_shift = c.has_shift /\ d.seq_pos = a.seq_pos
  BY <1>2, <1>4 DEF Recounted, Changed
<1>6. ASSUME NEW s \in Seqs, NEW p \in Pos
      PROVE  d.seq_pos[s][p] = c.seq_pos[s][p] - At(c, i, s, p) + At(d, i, s, p)
  <2>1. d.seq_pos[s][p] = c.seq_pos[s][p] + (IF s \in c.seq[i] /\ p = c.pos[i] THEN -1 ELSE 0)
    BY <1>2, <1>5 DEF Recounted
  <2>2. At(d, i, s, p) = 0
    BY <1>5 DEF At, Changed
  <2> QED BY <1>1, <2>1, <2>2 DEF At
<1>7. Good(d)
  <2>1. d \in LooseType /\ d.pos[i] = -1 /\ d.seq[i] = {} /\ d.shift[i] = 0 /\ i \notin d.used
    BY <1>5 DEF Changed
  <2>2. \A j \in Idx \ {i} : /\ d.seq[j] = c.seq[j] /\ d.pos[j] = c.pos[j] /\ d.shift[j] = c.shift[j]
                             /\ (j \in d.used <=> j \in c.used)
    BY <1>5 DEF Changed
  <2> QED BY <1>5, <1>6, <2>1, <2>2, OneCell
<1> QED BY <1>5, <1>7 DEF Changed, Apart, d
\* The assignments to a cell, by name.
WriteSeq(c, i, X) == [c EXCEPT !.seq[i] = X]
MoveBy(c, i, n) == [c EXCEPT !.pos[i] = @ + n, !.shift[i] = @ + n]
PutBack(c, i, p, X, U) == [c EXCEPT !.pos[i] = p, !.seq[i] = X, !.used = U]

(* The owners of a cell are overwritten. *)
LEMMA SeqWriteIs ==
    ASSUME NEW c \in LooseType, NEW i \in Idx, NEW X \in SUBSET Seqs, NEW d, d = WriteSeq(c, i, X)
    PROVE  /\ Changed(c, d, i, c.pos[i], c.shift[i], X)
           /\ d.used = c.used /\ d.seq_pos = c.seq_pos /\ d.has_shift = c.has_shift
<1> DEFINE Q == [c.seq EXCEPT ![i] = X]
<1>1. c.pos \in [Idx -> {-1} \cup Pos] /\ c.shift \in [Idx -> Int] /\ c.seq \in [Idx -> SUBSET Seqs] /\ c.used \in SUBSET Idx
  BY DEF LooseType
<1>2. Q \in [Idx -> SUBSET Seqs]
  BY <1>1
<1>3. \A j \in Idx : Q[j] = (IF j = i THEN X ELSE c.seq[j])
  BY <1>1
<1> DEFINE e == [c EXCEPT !.seq = Q]
<1>4. d = e
  BY DEF LooseType, WriteSeq
<1> HIDE DEF Q
<1>5. e \in LooseType /\ e.seq = Q
  BY <1>1, <1>2 DEF LooseType
<1>6. e.pos = c.pos /\ e.shift = c.shift /\ e.used = c.used /\ e.seq_pos = c.seq_pos /\ e.has_shift = c.has_shift
  BY <1>1 DEF LooseType
<1> HIDE DEF e
<1> QED BY <1>3, <1>4, <1>5, <1>6 DEF Changed

(* pos_set *)
LEMMA PosSetIs ==
    ASSUME NEW c \in LooseType, NEW i \in Idx, NEW p \in Pos, NEW d, d = PosSet(c, i, p)
    PROVE  /\ Changed(c, d, i, p, c.shift[i], c.seq[i])
           /\ d.used = c.used \cup {i} /\ d.seq_pos = c.seq_pos /\ d.has_shift = c.has_shift
<1> DEFINE P == [c.pos EXCEPT ![i] = p]
<1>1. c.pos \in [Idx -> {-1} \cup Pos] /\ c.shift \in [Idx -> Int] /\ c.seq \in [Idx -> SUBSET Seqs] /\ c.used \in SUBSET Idx
  BY DEF LooseType
<1>2. P \in [Idx -> {-1} \cup Pos]
  BY <1>1
<1>3. \A j \in Idx : P[j] = (IF j = i THEN p ELSE c.pos[j])
  BY <1>1
<1> DEFINE e == [c EXCEPT !.pos = P, !.used = c.used \cup {i}]
<1>4. d = e
  BY DEF LooseType, PosSet
<1> HIDE DEF P
<1>5. e \in LooseType /\ e.pos = P
  BY <1>1, <1>2 DEF LooseType
<1>6. e.shift = c.shift /\ e.seq = c.seq /\ e.seq_pos = c.seq_pos /\ e.has_shift = c.has_shift /\ e.used = c.used \cup {i}
  BY <1>1 DEF LooseType
<1> HIDE DEF e
<1> QED BY <1>3, <1>4, <1>5, <1>6 DEF Changed

(* A position and its pending shift move together. *)
LEMMA MoveIs ==
    ASSUME NEW c \in LooseType, NEW i \in Idx, NEW n \in Int, c.pos[i] + n \in Pos, NEW d, d = MoveBy(c, i, n)
    PROVE  /\ Changed(c, d, i, c.pos[i] + n, c.shift[i] + n, c.seq[i])
           /\ d.used = c.used /\ d.seq_pos = c.seq_pos /\ d.has_shift = c.has_shift
<1> DEFINE P == [c.pos EXCEPT ![i] = c.pos[i] + n]
           H == [c.shift EXCEPT ![i] = c.shift[i] + n]
<1>1. c.pos \in [Idx -> {-1} \cup Pos] /\ c.shift \in [Idx -> Int] /\ c.seq \in [Idx -> SUBSET Seqs] /\ c.used \in SUBSET Idx
  BY DEF LooseType
<1>2. P \in [Idx -> {-1} \cup Pos] /\ H \in [Idx -> Int]
  BY <1>1
<1>3. \A j \in Idx : P[j] = (IF j = i THEN c.pos[i] + n ELSE c.pos[j]) /\ H[j] = (IF j = i THEN c.shift[i] + n ELSE c.shift[j])
  BY <1>1
<1> DEFINE e == [c EXCEPT !.pos = P, !.shift = H]
<1>4. d = e
  BY DEF LooseType, MoveBy
<1> HIDE DEF P, H
<1>5. e \in LooseType /\ e.pos = P /\ e.shift = H
  BY <1>1, <1>2 DEF LooseType
<1>6. e.seq = c.seq /\ e.used = c.used /\ e.seq_pos = c.seq_pos /\ e.has_shift = c.has_shift
  BY <1>1 DEF LooseType
<1> HIDE DEF e
<1> QED BY <1>3, <1>4, <1>5, <1>6 DEF Changed

(* A cell is put back. *)
LEMMA PutBackIs ==
    ASSUME NEW c \in LooseType, NEW i \in Idx,
           NEW p \in {-1} \cup Pos, NEW X \in SUBSET Seqs, NEW U \in SUBSET Idx, NEW d, d = PutBack(c, i, p, X, U)
    PROVE  /\ Changed(c, d, i, p, c.shift[i], X)
           /\ d.used = U /\ d.seq_pos = c.seq_pos /\ d.has_shift = c.has_shift
<1> DEFINE P == [c.pos EXCEPT ![i] = p]
           Q == [c.seq EXCEPT ![i] = X]
<1>1. c.pos \in [Idx -> {-1} \cup Pos] /\ c.shift \in [Idx -> Int] /\ c.seq \in [Idx -> SUBSET Seqs] /\ c.used \in SUBSET Idx
  BY DEF LooseType
<1>2. P \in [Idx -> {-1} \cup Pos] /\ Q \in [Idx -> SUBSET Seqs]
  BY <1>1
<1>3. \A j \in Idx : P[j] = (IF j = i THEN p ELSE c.pos[j]) /\ Q[j] = (IF j = i THEN X ELSE c.seq[j])
  BY <1>1
<1> DEFINE e == [c EXCEPT !.pos = P, !.seq = Q, !.used = U]
<1>4. d = e
  BY DEF LooseType, PutBack
<1> HIDE DEF P, Q
<1>5. e \in LooseType /\ e.pos = P /\ e.seq = Q
  BY <1>1, <1>2 DEF LooseType
<1>6. e.shift = c.shift /\ e.seq_pos = c.seq_pos /\ e.has_shift = c.has_shift /\ e.used = U
  BY <1>1 DEF LooseType
<1> HIDE DEF e
<1> QED BY <1>3, <1>4, <1>5, <1>6 DEF Changed

(* An operation on one cell, in terms of Changed, keeps Good cells good. *)
LEMMA ChangedGood ==
    ASSUME NEW c, Good(c), NEW d, NEW i \in Idx, NEW pos, NEW shift, NEW seq, Changed(c, d, i, pos, shift, seq),
           \A j \in Idx : (j \in d.used) <=> (IF j = i THEN pos # -1 ELSE j \in c.used),
           (seq = {}) <=> (pos = -1),
           \A s \in Seqs, p \in Pos : d.seq_pos[s][p] = c.seq_pos[s][p] - At(c, i, s, p) + At(d, i, s, p),
           pos = -1 => shift = 0, pos # -1 => pos - shift \in Pos,
           ~d.has_shift => ~c.has_shift /\ shift = 0
    PROVE  Good(d) /\ Apart(c, d, i) /\ d.pos[i] = pos /\ d.shift[i] = shift /\ d.seq[i] = seq
<1>1. d \in LooseType /\ d.pos[i] = pos /\ d.shift[i] = shift /\ d.seq[i] = seq /\ ((i \in d.used) <=> (pos # -1))
  BY DEF Changed
<1>2. \A j \in Idx \ {i} : /\ d.seq[j] = c.seq[j] /\ d.pos[j] = c.pos[j] /\ d.shift[j] = c.shift[j]
                           /\ (j \in d.used <=> j \in c.used)
  BY DEF Changed
<1>3. Good(d)
  BY <1>1, <1>2, OneCell
<1> QED BY <1>1, <1>2, <1>3 DEF Apart

(* seq_rm on a cell of the sequence. *)
LEMMA CellSeqRmGood ==
    ASSUME NEW c, Good(c), NEW i \in Idx, NEW s \in c.seq[i]
    PROVE  /\ Good(CellSeqRm(c, i, s)) /\ Apart(c, CellSeqRm(c, i, s), i)
           /\ CellSeqRm(c, i, s).has_shift = c.has_shift
           /\ CellSeqRm(c, i, s).seq[i] = c.seq[i] \ {s}
           /\ CellSeqRm(c, i, s).shift[i] \in {0, c.shift[i]}
           /\ CellSeqRm(c, i, s).pos[i] \in {-1, c.pos[i]}
<1> DEFINE b == SeqPosDec(c, s, c.pos[i])
           a == [b EXCEPT !.seq[i] = @ \ {s}]
           d == CellSeqRm(c, i, s)
<1>1. /\ c \in LooseType /\ c.seq[i] \in SUBSET Seqs /\ s \in Seqs /\ c.pos[i] \in Pos
      /\ \A t \in Seqs, p \in Pos : c.seq_pos[t][p] \in Nat
  BY GoodLoose
<1>2. Recounted(c, b, {s}, c.pos[i], -1)
  BY <1>1, DecOne
<1>3. b \in LooseType /\ b.seq[i] = c.seq[i]
  BY <1>2 DEF Recounted
<1> HIDE DEF b
<1>4. a = WriteSeq(b, i, c.seq[i] \ {s})
  BY <1>3 DEF WriteSeq
<1>5. /\ Changed(b, a, i, b.pos[i], b.shift[i], c.seq[i] \ {s})
      /\ a.used = b.used /\ a.seq_pos = b.seq_pos /\ a.has_shift = b.has_shift
  <2>1. c.seq[i] \ {s} \in SUBSET Seqs
    BY <1>1
  <2> HIDE DEF a
  <2> QED BY <1>3, <1>4, <2>1, SeqWriteIs
<1>6. d = IF a.seq[i] = {} THEN Vacate(a, i) ELSE a
  BY DEF CellSeqRm, b
<1> HIDE DEF a, d
<1>7. a \in LooseType /\ a.seq[i] = c.seq[i] \ {s}
  BY <1>5 DEF Changed
<1>v. Views(c) /\ Settled(c)
  BY DEF Good
<1>8. CASE a.seq[i] = {}
  <2>1. /\ Changed(a, d, i, -1, 0, {}) /\ d.used = a.used \ {i} /\ d.seq_pos = a.seq_pos /\ d.has_shift = a.has_shift
    BY <1>6, <1>7, <1>8, VacateIs
  <2>2. Changed(c, d, i, -1, 0, {}) /\ d.used = c.used \ {i} /\ d.has_shift = c.has_shift /\ d.seq_pos = b.seq_pos
    BY <1>2, <1>5, <2>1 DEF Recounted, Changed
  <2>3. ASSUME NEW t \in Seqs, NEW p \in Pos
        PROVE  d.seq_pos[t][p] = c.seq_pos[t][p] - At(c, i, t, p) + At(d, i, t, p)
    <3>1. d.seq_pos[t][p] = c.seq_pos[t][p] + (IF t \in {s} /\ p = c.pos[i] THEN -1 ELSE 0)
      BY <1>2, <2>2 DEF Recounted
    <3>2. At(d, i, t, p) = 0
      BY <2>2 DEF At, Changed
    <3>3. t \in c.seq[i] <=> t \in {s}
      BY <1>7, <1>8
    <3> QED BY <1>1, <3>1, <3>2, <3>3 DEF At
  <2>4. Good(d) /\ Apart(c, d, i) /\ d.pos[i] = -1 /\ d.shift[i] = 0 /\ d.seq[i] = {}
    <3>1. \A j \in Idx : (j \in d.used) <=> (IF j = i THEN -1 # -1 ELSE j \in c.used)
      BY <2>2
    <3>2. ~d.has_shift => ~c.has_shift /\ 0 = 0
      BY <2>2
    <3> QED BY <2>2, <2>3, <3>1, <3>2, ChangedGood
  <2> QED BY <1>7, <1>8, <2>2, <2>4 DEF d
<1>9. CASE a.seq[i] # {}
  <2>1. d = a
    BY <1>6, <1>9
  <2>2. /\ Changed(c, d, i, c.pos[i], c.shift[i], c.seq[i] \ {s})
        /\ d.used = c.used /\ d.has_shift = c.has_shift /\ d.seq_pos = b.seq_pos
    BY <1>2, <1>5, <2>1 DEF Recounted, Changed
  <2>3. ASSUME NEW t \in Seqs, NEW p \in Pos
        PROVE  d.seq_pos[t][p] = c.seq_pos[t][p] - At(c, i, t, p) + At(d, i, t, p)
    <3>1. d.seq_pos[t][p] = c.seq_pos[t][p] + (IF t \in {s} /\ p = c.pos[i] THEN -1 ELSE 0)
      BY <1>2, <2>2 DEF Recounted
    <3>2. d.seq[i] = c.seq[i] \ {s} /\ d.pos[i] = c.pos[i]
      BY <2>2 DEF Changed
    <3> QED BY <1>1, <3>1, <3>2 DEF At
  <2>4. Good(d) /\ Apart(c, d, i) /\ d.pos[i] = c.pos[i] /\ d.shift[i] = c.shift[i] /\ d.seq[i] = c.seq[i] \ {s}
    <3>1. c.pos[i] # -1 /\ c.seq[i] \ {s} # {} /\ c.pos[i] - c.shift[i] \in Pos /\ (~c.has_shift => c.shift[i] = 0)
      BY <1>1, <1>7, <1>9, <1>v, Sizes DEF Settled
    <3>2. \A j \in Idx : (j \in d.used) <=> (IF j = i THEN c.pos[i] # -1 ELSE j \in c.used)
      BY <2>2, <1>v, <3>1 DEF Views
    <3>3. ~d.has_shift => ~c.has_shift /\ c.shift[i] = 0
      BY <2>2, <3>1
    <3> QED BY <2>2, <2>3, <3>1, <3>2, <3>3, ChangedGood
  <2> QED BY <2>2, <2>4 DEF d
<1> QED BY <1>8, <1>9

(* seq_keep on a cell. *)
LEMMA CellSeqKeepGood ==
    ASSUME NEW c, Good(c), NEW i \in Idx, NEW s \in Seqs
    PROVE  /\ Good(CellSeqKeep(c, i, s)) /\ Apart(c, CellSeqKeep(c, i, s), i)
           /\ CellSeqKeep(c, i, s).has_shift = c.has_shift
           /\ CellSeqKeep(c, i, s).shift[i] \in {0, c.shift[i]}
<1> DEFINE d == CellSeqKeep(c, i, s)
<1>1. /\ c \in LooseType /\ c.seq[i] \in SUBSET Seqs /\ (c.seq[i] = {} \/ c.pos[i] \in Pos)
      /\ \A t \in Seqs, p \in Pos : c.seq_pos[t][p] \in Nat
  BY GoodLoose
<1>v. Views(c) /\ Settled(c)
  BY DEF Good
<1>2. CASE s \in c.seq[i]
  <2> DEFINE b == SeqPosRm(c, i)
             a == WriteSeq(b, i, {s})
  <2>1. d = SeqPosInc(a, s, c.pos[i]) /\ c.pos[i] \in Pos
    BY <1>1, <1>2 DEF CellSeqKeep, WriteSeq
  <2>2. Recounted(c, b, c.seq[i], c.pos[i], -1)
    BY <1>1, SeqPosRmIs
  <2>3. b \in LooseType
    BY <2>2 DEF Recounted
  <2> HIDE DEF b
  <2>4. Changed(b, a, i, b.pos[i], b.shift[i], {s}) /\ a.used = b.used /\ a.seq_pos = b.seq_pos /\ a.has_shift = b.has_shift
    BY <2>3, SeqWriteIs
  <2> HIDE DEF a, d
  <2>5. a \in LooseType
    BY <2>4 DEF Changed
  <2>6. Recounted(a, d, {s}, c.pos[i], 1)
    BY <2>1, <2>5, IncOne
  <2>7. Changed(c, d, i, c.pos[i], c.shift[i], {s}) /\ d.used = c.used /\ d.has_shift = c.has_shift
    <3>1. /\ Changed(c, a, i, b.pos[i], b.shift[i], {s}) /\ b.used = c.used /\ b.has_shift = c.has_shift
          /\ b.pos = c.pos /\ b.shift = c.shift
      BY ONLY <2>2, <2>4, CountedChanged
    <3>2. Changed(c, a, i, c.pos[i], c.shift[i], {s})
      BY ONLY <3>1
    <3>3. Changed(c, d, i, c.pos[i], c.shift[i], {s}) /\ d.used = a.used /\ d.has_shift = a.has_shift
      BY ONLY <2>6, <3>2, ChangedCounted
    <3> QED BY ONLY <2>4, <3>1, <3>3
  <2>8. ASSUME NEW t \in Seqs, NEW p \in Pos
        PROVE  d.seq_pos[t][p] = c.seq_pos[t][p] - At(c, i, t, p) + At(d, i, t, p)
    <3>1. b.seq_pos[t][p] = c.seq_pos[t][p] + (IF t \in c.seq[i] /\ p = c.pos[i] THEN -1 ELSE 0)
      BY <2>2 DEF Recounted
    <3>2. d.seq_pos[t][p] = b.seq_pos[t][p] + (IF t \in {s} /\ p = c.pos[i] THEN 1 ELSE 0)
      BY <2>4, <2>6 DEF Recounted
    <3>3. d.seq[i] = {s} /\ d.pos[i] = c.pos[i]
      BY <2>7 DEF Changed
    <3> QED BY <1>1, <3>1, <3>2, <3>3 DEF At
  <2>9. c.pos[i] # -1 /\ c.pos[i] - c.shift[i] \in Pos /\ (~c.has_shift => c.shift[i] = 0)
    BY <2>1, <1>v, Sizes DEF Settled
  <2>10. \A j \in Idx : (j \in d.used) <=> (IF j = i THEN c.pos[i] # -1 ELSE j \in c.used)
    BY <2>7, <1>v, <2>9 DEF Views
  <2>11. ~d.has_shift => ~c.has_shift /\ c.shift[i] = 0
    BY <2>7, <2>9
  <2>12. Good(d) /\ Apart(c, d, i) /\ d.shift[i] = c.shift[i]
    BY <2>7, <2>8, <2>9, <2>10, <2>11, ChangedGood
  <2> QED BY <2>7, <2>12 DEF d
<1>3. CASE s \notin c.seq[i] /\ c.seq[i] # {}
  <2>1. d = CellRm(c, i)
    BY <1>3 DEF CellSeqKeep
  <2> HIDE DEF d
  <2>2. Good(d) /\ Apart(c, d, i) /\ d.has_shift = c.has_shift /\ d.shift[i] = 0
    BY <2>1, CellRmGood
  <2> QED BY <2>2 DEF d
<1>4. CASE s \notin c.seq[i] /\ c.seq[i] = {}
  <2>1. d = c
    BY <1>4 DEF CellSeqKeep
  <2> HIDE DEF d
  <2>2. Good(d) /\ Apart(c, d, i) /\ d.has_shift = c.has_shift /\ d.shift[i] \in {0, c.shift[i]}
    BY <2>1 DEF Apart
  <2> QED BY <2>2 DEF d
<1> QED BY <1>2, <1>3, <1>4

(* seq_add: a cell with a position gets one more owner. *)
LEMMA CellSeqAddGood ==
    ASSUME NEW c, Good(c), NEW i \in Idx, NEW s \in Seqs \ c.seq[i], c.pos[i] # -1
    PROVE  /\ Good(CellSeqAdd(c, i, s)) /\ Apart(c, CellSeqAdd(c, i, s), i)
           /\ CellSeqAdd(c, i, s).has_shift = c.has_shift
           /\ CellSeqAdd(c, i, s).seq[i] = c.seq[i] \cup {s}
           /\ CellSeqAdd(c, i, s).shift[i] = c.shift[i]
           /\ CellSeqAdd(c, i, s).pos[i] = c.pos[i]
<1> DEFINE d == CellSeqAdd(c, i, s)
           X == c.seq[i] \cup {s}
           a == WriteSeq(c, i, X)
<1>1. /\ c \in LooseType /\ c.seq[i] \in SUBSET Seqs /\ c.pos[i] \in Pos
      /\ \A t \in Seqs, p \in Pos : c.seq_pos[t][p] \in Nat
  BY GoodLoose
<1>v. Views(c) /\ Settled(c)
  BY DEF Good
<1>2. d = SeqPosInc(a, s, c.pos[i])
  BY DEF CellSeqAdd, WriteSeq
<1>3. X \in SUBSET Seqs /\ s \in X
  BY <1>1
<1>4. Changed(c, a, i, c.pos[i], c.shift[i], X) /\ a.used = c.used /\ a.seq_pos = c.seq_pos /\ a.has_shift = c.has_shift
  <2> HIDE DEF X
  <2> QED BY <1>1, <1>3, SeqWriteIs
<1> HIDE DEF a, d
<1>5. a \in LooseType
  BY <1>4 DEF Changed
<1>6. Recounted(a, d, {s}, c.pos[i], 1)
  BY <1>1, <1>2, <1>5, IncOne
<1>7. Changed(c, d, i, c.pos[i], c.shift[i], X) /\ d.used = c.used /\ d.has_shift = c.has_shift
  <2> HIDE DEF X
  <2> QED BY <1>4, <1>6 DEF Recounted, Changed
<1>8. ASSUME NEW t \in Seqs, NEW p \in Pos
      PROVE  d.seq_pos[t][p] = c.seq_pos[t][p] - At(c, i, t, p) + At(d, i, t, p)
  <2>1. d.seq_pos[t][p] = c.seq_pos[t][p] + (IF t \in {s} /\ p = c.pos[i] THEN 1 ELSE 0)
    BY <1>4, <1>6 DEF Recounted
  <2>2. d.seq[i] = X /\ d.pos[i] = c.pos[i]
    BY <1>7 DEF Changed
  <2> QED BY <1>1, <2>1, <2>2 DEF At
<1>9. c.pos[i] - c.shift[i] \in Pos /\ (~c.has_shift => c.shift[i] = 0)
  BY <1>v DEF Settled
<1>10. \A j \in Idx : (j \in d.used) <=> (IF j = i THEN c.pos[i] # -1 ELSE j \in c.used)
  BY <1>7, <1>v DEF Views
<1>11. (~d.has_shift => ~c.has_shift /\ c.shift[i] = 0) /\ ((X = {}) <=> (c.pos[i] = -1))
  BY <1>3, <1>7, <1>9
<1>12. Good(d) /\ Apart(c, d, i) /\ d.pos[i] = c.pos[i] /\ d.shift[i] = c.shift[i] /\ d.seq[i] = X
  <2> HIDE DEF X
  <2> QED BY <1>7, <1>8, <1>9, <1>10, <1>11, ChangedGood
<1> QED BY <1>7, <1>12 DEF d

(* pos_set and seq_add: an empty cell gets a position and an owner. *)
LEMMA TakeGood ==
    ASSUME NEW c, Good(c), NEW i \in Idx, NEW s \in Seqs, NEW p \in Pos, c.pos[i] = -1, NEW d,
           d = CellSeqAdd(PosSet(c, i, p), i, s)
    PROVE  /\ Good(d) /\ Apart(c, d, i) /\ d.has_shift = c.has_shift
           /\ d.seq[i] = {s} /\ d.shift[i] = 0 /\ d.pos[i] = p
<1> DEFINE b == PosSet(c, i, p)
           a == WriteSeq(b, i, {s})
<1>1. /\ c \in LooseType /\ c.seq[i] \in SUBSET Seqs
      /\ \A t \in Seqs, q \in Pos : c.seq_pos[t][q] \in Nat
  BY GoodLoose
<1>v. c.seq[i] = {} /\ c.shift[i] = 0 /\ p # -1 /\ \A j \in Idx : (j \in c.used) <=> (c.pos[j] # -1)
  BY Sizes DEF Good, Views, Settled
<1>2. Changed(c, b, i, p, 0, {}) /\ b.used = c.used \cup {i} /\ b.seq_pos = c.seq_pos /\ b.has_shift = c.has_shift
  <2>1. Changed(c, b, i, p, c.shift[i], c.seq[i]) /\ b.used = c.used \cup {i} /\ b.seq_pos = c.seq_pos
        /\ b.has_shift = c.has_shift
    BY <1>1, PosSetIs
  <2> HIDE DEF b
  <2> QED BY <1>v, <2>1
<1> HIDE DEF b
<1>3. b \in LooseType /\ b.seq[i] = {} /\ b.pos[i] = p /\ b.shift[i] = 0
  BY <1>2 DEF Changed
<1>4. d = SeqPosInc(a, s, p)
  <2>1. {} \cup {s} = {s}
    OBVIOUS
  <2> QED BY <1>3, <2>1 DEF CellSeqAdd, WriteSeq, b
<1>5. Changed(b, a, i, p, 0, {s}) /\ a.used = b.used /\ a.seq_pos = b.seq_pos /\ a.has_shift = b.has_shift
  BY <1>3, SeqWriteIs
<1> HIDE DEF a
<1>6. Recounted(a, d, {s}, p, 1)
  <2>1. a \in LooseType
    BY <1>5 DEF Changed
  <2> QED BY <1>4, <2>1, IncOne
<1>7. Changed(c, d, i, p, 0, {s}) /\ d.used = c.used \cup {i} /\ d.has_shift = c.has_shift
  <2>1. Changed(c, a, i, p, 0, {s})
    BY ONLY <1>2, <1>5, ChangedTwice
  <2>2. Changed(c, d, i, p, 0, {s}) /\ d.used = a.used /\ d.has_shift = a.has_shift
    BY ONLY <1>6, <2>1, ChangedCounted
  <2> QED BY ONLY <1>2, <1>5, <2>2
<1>8. ASSUME NEW t \in Seqs, NEW q \in Pos
      PROVE  d.seq_pos[t][q] = c.seq_pos[t][q] - At(c, i, t, q) + At(d, i, t, q)
  <2>1. d.seq_pos[t][q] = c.seq_pos[t][q] + (IF t \in {s} /\ q = p THEN 1 ELSE 0)
    BY <1>2, <1>5, <1>6 DEF Recounted
  <2>2. d.seq[i] = {s} /\ d.pos[i] = p
    BY <1>7 DEF Changed
  <2> QED BY <1>1, <1>v, <2>1, <2>2 DEF At
<1>9. p - 0 \in Pos /\ (~d.has_shift => ~c.has_shift /\ 0 = 0) /\ (({s} = {}) <=> (p = -1))
  <2>1. p - 0 = p
    BY Sizes
  <2> QED BY <1>7, <1>v, <2>1
<1>10. \A j \in Idx : (j \in d.used) <=> (IF j = i THEN p # -1 ELSE j \in c.used)
  BY <1>7, <1>v
<1>11. Good(d) /\ Apart(c, d, i) /\ d.pos[i] = p /\ d.shift[i] = 0 /\ d.seq[i] = {s}
  BY <1>7, <1>8, <1>9, <1>10, <1>v, ChangedGood
<1> QED BY <1>7, <1>11

Raise(c) == [c EXCEPT !.has_shift = TRUE]

(* has_shift is set. *)
LEMMA RaiseIs ==
    ASSUME NEW c \in LooseType, NEW d, d = Raise(c)
    PROVE  /\ d \in LooseType /\ d.has_shift = TRUE
           /\ d.pos = c.pos /\ d.shift = c.shift /\ d.seq = c.seq /\ d.used = c.used /\ d.seq_pos = c.seq_pos
BY DEF LooseType, Raise

(* pos_add: the position and the pending shift move; a cell whose position *)
(* would be negative is emptied.                                           *)
LEMMA PosAddGood ==
    ASSUME NEW c, Good(c), NEW i \in Idx, c.pos[i] # -1, NEW n \in Int, c.pos[i] + n <= MaxPos
    PROVE  /\ Good(PosAdd(c, i, n)) /\ Apart(c, PosAdd(c, i, n), i)
           /\ PosAdd(c, i, n).seq[i] \in {{}, c.seq[i]}
<1> DEFINE b == SeqPosRm(c, i)
           a == Raise(b)
           d == PosAdd(c, i, n)
<1>1. /\ c \in LooseType /\ c.seq[i] \in SUBSET Seqs /\ c.pos[i] \in Pos /\ c.shift[i] \in Int /\ c.pos[i] \in Int
      /\ \A t \in Seqs, p \in Pos : c.seq_pos[t][p] \in Nat
  BY GoodLoose
<1>v. Views(c) /\ Settled(c) /\ c.seq[i] # {} /\ c.pos[i] - c.shift[i] \in Pos
  BY DEF Good, Views, Settled
<1>2. Recounted(c, b, c.seq[i], c.pos[i], -1)
  BY <1>1, SeqPosRmIs
<1>3. b \in LooseType
  BY <1>2 DEF Recounted
<1>4. d = IF c.pos[i] + n < 0 THEN Vacate(a, i) ELSE SeqPosAdd(MoveBy(a, i, n), i)
  BY DEF PosAdd, Raise, MoveBy
<1>5. /\ a \in LooseType /\ a.has_shift = TRUE
      /\ a.pos = b.pos /\ a.shift = b.shift /\ a.seq = b.seq /\ a.used = b.used /\ a.seq_pos = b.seq_pos
  <2> HIDE DEF b
  <2> QED BY <1>3, RaiseIs
<1> HIDE DEF a, b, d
<1>6. /\ a.pos = c.pos /\ a.shift = c.shift /\ a.seq = c.seq /\ a.used = c.used
      /\ \A t \in Seqs, p \in Pos : a.seq_pos[t][p] = c.seq_pos[t][p] + (IF t \in c.seq[i] /\ p = c.pos[i] THEN -1 ELSE 0)
  BY <1>2, <1>5 DEF Recounted
<1>7. CASE c.pos[i] + n < 0
  <2>1. Changed(a, d, i, -1, 0, {}) /\ d.used = a.used \ {i} /\ d.seq_pos = a.seq_pos /\ d.has_shift = a.has_shift
    BY <1>4, <1>5, <1>7, VacateIs
  <2>2. Changed(c, d, i, -1, 0, {}) /\ d.used = c.used \ {i} /\ d.has_shift = TRUE
    BY <1>5, <1>6, <2>1 DEF Changed
  <2>3. ASSUME NEW t \in Seqs, NEW p \in Pos
        PROVE  d.seq_pos[t][p] = c.seq_pos[t][p] - At(c, i, t, p) + At(d, i, t, p)
    <3>1. d.seq_pos[t][p] = c.seq_pos[t][p] + (IF t \in c.seq[i] /\ p = c.pos[i] THEN -1 ELSE 0)
      BY <1>6, <2>1
    <3>2. At(d, i, t, p) = 0
      BY <2>2 DEF At, Changed
    <3> QED BY <1>1, <3>1, <3>2 DEF At
  <2>4. Good(d) /\ Apart(c, d, i) /\ d.pos[i] = -1 /\ d.shift[i] = 0 /\ d.seq[i] = {}
    <3>1. \A j \in Idx : (j \in d.used) <=> (IF j = i THEN -1 # -1 ELSE j \in c.used)
      BY <2>2
    <3>2. ~d.has_shift => ~c.has_shift /\ 0 = 0
      BY <2>2
    <3> QED BY <2>2, <2>3, <3>1, <3>2, ChangedGood
  <2> QED BY <2>4 DEF d
<1>8. CASE ~(c.pos[i] + n < 0)
  <2> DEFINE m == MoveBy(a, i, n)
             P == c.pos[i] + n
             H == c.shift[i] + n
  <2>1. d = SeqPosAdd(m, i)
    BY <1>4, <1>8
  <2>2. P \in Pos /\ P # -1 /\ H \in Int /\ P - H = c.pos[i] - c.shift[i] /\ P = a.pos[i] + n /\ H = a.shift[i] + n
    <3>1. MaxPos \in Nat
      BY Sizes
    <3> QED BY <1>1, <1>6, <1>8, <3>1 DEF Pos
  <2>3. Changed(a, m, i, P, H, c.seq[i]) /\ m.used = a.used /\ m.seq_pos = a.seq_pos /\ m.has_shift = a.has_shift
    <3>1. Changed(a, m, i, a.pos[i] + n, a.shift[i] + n, a.seq[i]) /\ m.used = a.used /\ m.seq_pos = a.seq_pos
          /\ m.has_shift = a.has_shift
      <4> HIDE DEF m
      <4> QED BY <1>5, <2>2, MoveIs DEF m
    <3> HIDE DEF m, P, H
    <3> QED BY <1>6, <2>2, <3>1
  <2> HIDE DEF m, P, H
  <2>4. m \in LooseType /\ m.pos[i] = P /\ m.seq[i] = c.seq[i]
    BY <2>3 DEF Changed
  <2>5. Recounted(m, d, c.seq[i], P, 1)
    BY <2>1, <2>2, <2>4, SeqPosAddIs
  <2>6. Changed(c, d, i, P, H, c.seq[i]) /\ d.used = c.used /\ d.has_shift = TRUE
    BY <1>5, <1>6, <2>3, <2>5 DEF Changed, Recounted
  <2>7. ASSUME NEW t \in Seqs, NEW p \in Pos
        PROVE  d.seq_pos[t][p] = c.seq_pos[t][p] - At(c, i, t, p) + At(d, i, t, p)
    <3>1. a.seq_pos[t][p] = c.seq_pos[t][p] + (IF t \in c.seq[i] /\ p = c.pos[i] THEN -1 ELSE 0)
      BY <1>6
    <3>2. d.seq_pos[t][p] = a.seq_pos[t][p] + (IF t \in c.seq[i] /\ p = P THEN 1 ELSE 0)
      BY <2>3, <2>5 DEF Recounted
    <3>3. d.seq[i] = c.seq[i] /\ d.pos[i] = P
      BY <2>6 DEF Changed
    <3> QED BY <1>1, <3>1, <3>2, <3>3 DEF At
  <2>8. Good(d) /\ Apart(c, d, i) /\ d.pos[i] = P /\ d.shift[i] = H /\ d.seq[i] = c.seq[i]
    <3>1. \A j \in Idx : (j \in d.used) <=> (IF j = i THEN P # -1 ELSE j \in c.used)
      BY <2>2, <2>6, <1>v DEF Views
    <3>2. (~d.has_shift => ~c.has_shift /\ H = 0) /\ P - H \in Pos
      BY <1>v, <2>2, <2>6
    <3> QED BY <1>v, <2>2, <2>6, <2>7, <3>1, <3>2, ChangedGood
  <2> QED BY <2>8 DEF d
<1> QED BY <1>7, <1>8

(* apply_ubatch on one cell: its owners lose it, a token takes it. *)
LEMMA PlaceGood ==
    ASSUME NEW c, Good(c), NEW i \in Idx, NEW t, t.s \in Seqs, t.p \in Pos
    PROVE  Good(Place(c, i, t)) /\ Apart(c, Place(c, i, t), i) /\ Place(c, i, t).shift[i] = 0
           /\ Place(c, i, t).has_shift = c.has_shift
<1> DEFINE a == IF IsEmpty(c, i) THEN c ELSE CellRm(c, i)
           d == Place(c, i, t)
<1>1. Good(a) /\ Apart(c, a, i) /\ a.pos[i] = -1 /\ a.has_shift = c.has_shift
  <2>1. CASE IsEmpty(c, i)
    BY <2>1 DEF IsEmpty, Apart
  <2>2. CASE ~IsEmpty(c, i)
    BY <2>2, CellRmGood
  <2> QED BY <2>1, <2>2
<1>2. d = CellSeqAdd(PosSet(a, i, t.p), i, t.s)
  BY DEF Place
<1> HIDE DEF a, d
<1>3. Good(d) /\ Apart(a, d, i) /\ d.shift[i] = 0 /\ d.has_shift = a.has_shift
  BY <1>1, <1>2, TakeGood
<1>4. Apart(c, d, i)
  BY <1>1, <1>3 DEF Apart
<1> QED BY <1>1, <1>3, <1>4 DEF d

\* What cp saves of a cell.
OldCell == {o \in [pos : {-1} \cup Pos, seq : SUBSET Seqs] : (o.seq = {}) <=> (o.pos = -1)}

(* set on one cell without a pending shift: it gets back what was saved. *)
LEMMA SetOneGood ==
    ASSUME NEW c, Good(c), NEW i \in Idx, c.shift[i] = 0, NEW old \in OldCell
    PROVE  /\ Good(SetOne(c, i, old)) /\ Apart(c, SetOne(c, i, old), i)
           /\ SetOne(c, i, old).shift[i] = 0
<1>o. PICK op, X : op = old.pos /\ X = old.seq
  OBVIOUS
<1> DEFINE a == IF IsEmpty(c, i) THEN c ELSE SeqPosRm(c, i)
           U == IF op = -1 THEN a.used \ {i} ELSE a.used \cup {i}
           b == PutBack(a, i, op, X, U)
           d == SetOne(c, i, old)
<1>1. /\ c \in LooseType /\ c.seq[i] \in SUBSET Seqs /\ (c.seq[i] = {} \/ c.pos[i] \in Pos)
      /\ \A t \in Seqs, p \in Pos : c.seq_pos[t][p] \in Nat
  BY GoodLoose
<1>v. Views(c) /\ Settled(c) /\ (c.seq[i] = {} <=> c.pos[i] = -1)
  BY DEF Good, Views
<1>2. op \in {-1} \cup Pos /\ X \in SUBSET Seqs /\ ((X = {}) <=> (op = -1))
  BY <1>o DEF OldCell
<1>3. Recounted(c, a, c.seq[i], c.pos[i], -1)
  <2>1. CASE IsEmpty(c, i)
    <3>1. a = c /\ c.seq[i] = {}
      BY <2>1, <1>v DEF IsEmpty
    <3>2. \A s \in Seqs, p \in Pos : c.seq_pos[s][p] = c.seq_pos[s][p] + (IF s \in {} /\ p = c.pos[i] THEN -1 ELSE 0)
      BY <1>1
    <3> QED BY <1>1, <3>1, <3>2 DEF Recounted
  <2>2. CASE ~IsEmpty(c, i)
    BY <1>1, <2>2, SeqPosRmIs
  <2> QED BY <2>1, <2>2
<1>4. d = IF op = -1 THEN b ELSE SeqPosAdd(b, i)
  BY <1>o DEF SetOne, PutBack
<1> HIDE DEF a
<1>5. a \in LooseType /\ a.used \in SUBSET Idx /\ U \in SUBSET Idx
  <2>1. a \in LooseType
    BY <1>3 DEF Recounted
  <2>2. a.used \in SUBSET Idx
    BY <2>1 DEF LooseType
  <2> QED BY <2>1, <2>2
<1> HIDE DEF U
<1>6. Changed(a, b, i, op, a.shift[i], X) /\ b.used = U /\ b.seq_pos = a.seq_pos /\ b.has_shift = a.has_shift
  <2>1. b = PutBack(a, i, op, X, U)
    OBVIOUS
  <2> HIDE DEF b
  <2> QED BY <1>2, <1>5, <2>1, PutBackIs
<1> HIDE DEF b, d
<1>7. Changed(c, b, i, op, 0, X) /\ b.used = U /\ b.has_shift = c.has_shift
  BY <1>3, <1>6 DEF Changed, Recounted
<1>8. b \in LooseType /\ b.pos[i] = op /\ b.seq[i] = X
  BY <1>7 DEF Changed
<1>9. Recounted(b, d, X, op, 1)
  <2>1. CASE op = -1
    <3>1. d = b /\ X = {}
      BY <1>2, <1>4, <2>1
    <3>2. \A s \in Seqs, p \in Pos : b.seq_pos[s][p] = b.seq_pos[s][p] + (IF s \in {} /\ p = op THEN 1 ELSE 0)
      <4>1. \A s \in Seqs, p \in Pos : b.seq_pos[s][p] \in Int
        BY <1>8 DEF LooseType
      <4> QED BY <4>1
    <3> QED BY <1>8, <3>1, <3>2 DEF Recounted
  <2>2. CASE op # -1
    BY <1>2, <1>4, <1>8, <2>2, SeqPosAddIs
  <2> QED BY <2>1, <2>2
<1>10. Changed(c, d, i, op, 0, X) /\ d.used = U /\ d.has_shift = c.has_shift
  BY <1>7, <1>9 DEF Changed, Recounted
<1>11. ASSUME NEW t \in Seqs, NEW p \in Pos
       PROVE  d.seq_pos[t][p] = c.seq_pos[t][p] - At(c, i, t, p) + At(d, i, t, p)
  <2>1. a.seq_pos[t][p] = c.seq_pos[t][p] + (IF t \in c.seq[i] /\ p = c.pos[i] THEN -1 ELSE 0)
    BY <1>3 DEF Recounted
  <2>2. d.seq_pos[t][p] = a.seq_pos[t][p] + (IF t \in X /\ p = op THEN 1 ELSE 0)
    BY <1>6, <1>9 DEF Recounted
  <2>3. d.seq[i] = X /\ d.pos[i] = op
    BY <1>10 DEF Changed
  <2> QED BY <1>1, <2>1, <2>2, <2>3 DEF At
<1>12. \A j \in Idx : (j \in d.used) <=> (IF j = i THEN op # -1 ELSE j \in c.used)
  <2>1. a.used = c.used
    BY <1>3 DEF Recounted
  <2> QED BY <1>10, <2>1 DEF U
<1>13. (~d.has_shift => ~c.has_shift /\ 0 = 0) /\ (op # -1 => op - 0 \in Pos)
  <2>1. \A p \in Pos : p - 0 = p
    BY Sizes
  <2> QED BY <1>2, <1>10, <2>1
<1>14. Good(d) /\ Apart(c, d, i) /\ d.shift[i] = 0
  BY <1>2, <1>10, <1>11, <1>12, <1>13, ChangedGood
<1> QED BY <1>14 DEF d

(* An empty buffer. *)
LEMMA ResetGood == /\ Good(Reset) /\ Reset.has_shift = FALSE
                   /\ \A i \in Idx : Reset.pos[i] = -1 /\ Reset.seq[i] = {} /\ Reset.shift[i] = 0
<1>1. Reset \in CellsType
  <2>1. [i \in Idx |-> -1] \in [Idx -> {-1} \cup Pos] /\ [i \in Idx |-> 0] \in [Idx -> Int]
    OBVIOUS
  <2>2. [i \in Idx |-> {}] \in [Idx -> SUBSET Seqs] /\ [s \in Seqs |-> [p \in Pos |-> 0]] \in [Seqs -> [Pos -> Nat]]
    OBVIOUS
  <2> QED BY <2>1, <2>2 DEF Reset, CellsType
<1>2. /\ Reset.has_shift = FALSE /\ Reset.used = {} /\ \A s \in Seqs, p \in Pos : Reset.seq_pos[s][p] = 0
      /\ \A i \in Idx : Reset.pos[i] = -1 /\ Reset.seq[i] = {} /\ Reset.shift[i] = 0
  BY DEF Reset
<1>3. Views(Reset) /\ Settled(Reset)
  BY <1>2 DEF Views, Settled
<1>4. Counted(Reset)
  <2>1. \A s \in Seqs, p \in Pos : Holders(Reset, s, p) = {}
    BY <1>2 DEF Holders
  <2>2. Cardinality({}) = 0
    BY FS_EmptySet
  <2> QED BY <1>2, <2>1, <2>2 DEF Counted
<1> QED BY <1>1, <1>2, <1>3, <1>4 DEF Good

(* reset_shift *)
LEMMA ResetShiftGood ==
    ASSUME NEW c, Good(c)
    PROVE  /\ Good(ResetShift(c)) /\ \A i \in Idx : ResetShift(c).shift[i] = 0
           /\ ResetShift(c).pos = c.pos
<1> DEFINE H == [i \in Idx |-> 0]
           d == ResetShift(c)
<1>1. c \in CellsType /\ H \in [Idx -> Int]
  BY DEF Good
<1>2. d = [c EXCEPT !.shift = H, !.has_shift = FALSE]
  BY DEF ResetShift
<1>3. \A i \in Idx : H[i] = 0
  OBVIOUS
<1> HIDE DEF H
<1>4. d \in CellsType /\ d.shift = H
  BY <1>1, <1>2 DEF CellsType
<1>5. d.pos = c.pos /\ d.seq = c.seq /\ d.used = c.used /\ d.seq_pos = c.seq_pos /\ d.has_shift = FALSE
  BY <1>1, <1>2 DEF CellsType
<1> HIDE DEF d
<1>6. Views(d) /\ Counted(d)
  BY <1>5 DEF Good, Views, Counted, Holders
<1>7. Settled(d)
  <2>1. \A i \in Idx : c.pos[i] # -1 => c.pos[i] \in Pos /\ c.pos[i] - 0 = c.pos[i]
    BY GoodLoose
  <2> QED BY <1>3, <1>4, <1>5, <2>1 DEF Settled
<1> QED BY <1>3, <1>4, <1>5, <1>6, <1>7 DEF Good, d

-----------------------------------------------------------------------------
(* The loops over cells. *)

\* The cells outside T are those of c.
Rest(c, d, T) == \A j \in Idx \ T : d.pos[j] = c.pos[j] /\ d.seq[j] = c.seq[j] /\ d.shift[j] = c.shift[j]
\* No cell has got a pending shift.
Calmer(c, d) == \A i \in Idx : c.shift[i] = 0 => d.shift[i] = 0

RmOp(s, i, a) == CellSeqRm(a, i, s)
KeepOp(s, i, a) == CellSeqKeep(a, i, s)
AddOp(n, i, a) == PosAdd(a, i, n)
ShareOp(s, i, a) == CellSeqAdd(a, i, s)
Rm == INSTANCE FoldInduction WITH Op <- RmOp
Keep == INSTANCE FoldInduction WITH Op <- KeepOp
Add == INSTANCE FoldInduction WITH Op <- AddOp
Share == INSTANCE FoldInduction WITH Op <- ShareOp

(* A change of one cell after changes of those in T. *)
LEMMA RestMore ==
    ASSUME NEW c, NEW a, NEW d, NEW T, NEW i, Rest(c, a, T), Apart(a, d, i)
    PROVE  Rest(c, d, T \cup {i})
BY DEF Rest, Apart

(* Subsets of the cells are finite. *)
LEMMA CellSetsFinite == \A T \in SUBSET Idx : IsFiniteSet(T)
BY Sizes, FS_Subset

(* seq_rm's loop: the chosen cells lose s, and nothing else changes. *)
LEMMA RmFold ==
    ASSUME NEW c, Good(c), NEW s, NEW S \in SUBSET Idx, \A i \in S : s \in c.seq[i], NEW d,
           d = Rm!SetFold(s, c, S)
    PROVE  /\ Good(d) /\ d.has_shift = c.has_shift /\ Calmer(c, d)
           /\ \A i \in S : d.seq[i] = c.seq[i] \ {s}
           /\ Rest(c, d, S)
<1> DEFINE Done(T, a) == /\ Good(a) /\ a.has_shift = c.has_shift /\ Rest(c, a, T) /\ Calmer(c, a)
                         /\ \A i \in T : a.seq[i] = c.seq[i] \ {s}
           J == [T \in SUBSET S |-> {a \in CellsType : Done(T, a)}]
<1>1. c \in J[{}]
  <2>1. c \in CellsType /\ Rest(c, c, {}) /\ Calmer(c, c)
    BY DEF Good, Rest, Calmer
  <2> QED BY <2>1
<1>2. ASSUME NEW T \in SUBSET S, NEW i \in S \ T, NEW a \in J[T]
      PROVE  RmOp(s, i, a) \in J[T \cup {i}]
  <2> DEFINE b == RmOp(s, i, a)
  <2>1. Done(T, a) /\ i \in Idx /\ i \notin T /\ T \subseteq Idx
    BY <1>2
  <2>2. a.seq[i] = c.seq[i] /\ s \in a.seq[i]
    BY <2>1, <1>2 DEF Rest
  <2>3. /\ Good(b) /\ Apart(a, b, i) /\ b.has_shift = a.has_shift
        /\ b.seq[i] = a.seq[i] \ {s} /\ b.shift[i] \in {0, a.shift[i]}
    <3>1. b = CellSeqRm(a, i, s) /\ Good(a)
      BY <2>1 DEF RmOp
    <3>2. /\ Good(CellSeqRm(a, i, s)) /\ Apart(a, CellSeqRm(a, i, s), i)
          /\ CellSeqRm(a, i, s).has_shift = a.has_shift
          /\ CellSeqRm(a, i, s).seq[i] = a.seq[i] \ {s} /\ CellSeqRm(a, i, s).shift[i] \in {0, a.shift[i]}
      BY ONLY i \in Idx, <2>2, <3>1, CellSeqRmGood
    <3> HIDE DEF b
    <3> QED BY ONLY <3>1, <3>2
  <2> HIDE DEF b
  <2>4. Rest(c, b, T \cup {i})
    BY <2>1, <2>3, RestMore
  <2>5. Calmer(c, b)
    BY <2>1, <2>3 DEF Calmer, Apart
  <2>6. \A j \in T \cup {i} : b.seq[j] = c.seq[j] \ {s}
    BY <2>1, <2>2, <2>3 DEF Apart
  <2>7. b \in CellsType /\ T \cup {i} \in SUBSET S
    BY <1>2, <2>3 DEF Good
  <2> QED BY <2>1, <2>3, <2>4, <2>5, <2>6, <2>7 DEF b
<1>3. Rm!SetFold(s, c, S) \in J[S]
  <2>1. Rm!WellOrdered /\ Rm!Ranked(S)
    <3>1. IsFiniteSet(S)
      BY CellSetsFinite
    <3> QED BY <3>1, LeastNatural, FiniteRanks DEF Rm!WellOrdered, Rm!Ranked
  <2>2. \A T \in SUBSET S : \A i \in S \ T : \A a \in J[T] : RmOp(s, i, a) \in J[T \cup {i}]
    BY <1>2
  <2> HIDE DEF J
  <2> QED BY ONLY <2>1, <2>2, <1>1, Rm!FoldSetInduction
<1> QED BY <1>3

(* seq_keep's loop over all cells. *)
LEMMA KeepFold ==
    ASSUME NEW c, Good(c), NEW s \in Seqs, NEW d, d = Keep!SetFold(s, c, Idx)
    PROVE  Good(d)
<1> DEFINE J == [T \in SUBSET Idx |-> {a \in CellsType : Good(a)}]
<1>1. c \in J[{}]
  BY DEF Good
<1>2. ASSUME NEW T \in SUBSET Idx, NEW i \in Idx \ T, NEW a \in J[T]
      PROVE  KeepOp(s, i, a) \in J[T \cup {i}]
  <2>1. Good(a)
    BY <1>2
  <2>2. Good(KeepOp(s, i, a))
    BY <2>1, CellSeqKeepGood DEF KeepOp
  <2> QED BY <2>2 DEF Good
<1>3. Keep!SetFold(s, c, Idx) \in J[Idx]
  <2>1. Keep!WellOrdered /\ Keep!Ranked(Idx)
    <3>1. IsFiniteSet(Idx)
      BY CellSetsFinite
    <3> QED BY <3>1, LeastNatural, FiniteRanks DEF Keep!WellOrdered, Keep!Ranked
  <2>2. \A T \in SUBSET Idx : \A i \in Idx \ T : \A a \in J[T] : KeepOp(s, i, a) \in J[T \cup {i}]
    BY <1>2
  <2> HIDE DEF J
  <2> QED BY ONLY <2>1, <2>2, <1>1, Keep!FoldSetInduction
<1> QED BY <1>3

(* seq_add's loop, for a text that moves down. *)
LEMMA AddFold ==
    ASSUME NEW c, Good(c), NEW n \in Int, n <= 0, NEW S \in SUBSET Idx, \A i \in S : c.pos[i] # -1, NEW d,
           d = Add!SetFold(n, c, S)
    PROVE  Good(d)
<1> DEFINE J == [T \in SUBSET S |-> {a \in CellsType : Good(a) /\ Rest(c, a, T)}]
<1>1. c \in J[{}]
  <2>1. c \in CellsType /\ Rest(c, c, {})
    BY DEF Good, Rest
  <2> QED BY <2>1
<1>2. ASSUME NEW T \in SUBSET S, NEW i \in S \ T, NEW a \in J[T]
      PROVE  AddOp(n, i, a) \in J[T \cup {i}]
  <2> DEFINE b == AddOp(n, i, a)
  <2>1. Good(a) /\ Rest(c, a, T) /\ i \in Idx /\ i \notin T
    BY <1>2
  <2>2. a.pos[i] # -1
    BY <2>1, <1>2 DEF Rest
  <2>3. a.pos[i] + n <= MaxPos
    <3>1. a.pos[i] \in Pos
      BY <2>1, <2>2, GoodLoose
    <3>2. \A q \in Pos : q + n <= MaxPos
      BY ONLY Sizes, n \in Int, n <= 0 DEF Pos
    <3> QED BY <3>1, <3>2
  <2>4. Good(b) /\ Apart(a, b, i)
    BY <2>1, <2>2, <2>3, PosAddGood DEF AddOp
  <2> HIDE DEF b
  <2>5. Rest(c, b, T \cup {i}) /\ b \in CellsType /\ T \cup {i} \in SUBSET S
    BY <1>2, <2>1, <2>4, RestMore DEF Good
  <2> QED BY <2>4, <2>5 DEF b
<1>3. Add!SetFold(n, c, S) \in J[S]
  <2>1. Add!WellOrdered /\ Add!Ranked(S)
    <3>1. IsFiniteSet(S)
      BY CellSetsFinite
    <3> QED BY <3>1, LeastNatural, FiniteRanks DEF Add!WellOrdered, Add!Ranked
  <2>2. \A T \in SUBSET S : \A i \in S \ T : \A a \in J[T] : AddOp(n, i, a) \in J[T \cup {i}]
    BY <1>2
  <2> HIDE DEF J
  <2> QED BY ONLY <2>1, <2>2, <1>1, Add!FoldSetInduction
<1> QED BY <1>3

(* seq_cp's loop inside one stream: s gets cells it did not have. *)
LEMMA ShareFold ==
    ASSUME NEW c, Good(c), NEW s \in Seqs, NEW S \in SUBSET Idx,
           \A i \in S : c.pos[i] # -1 /\ s \notin c.seq[i], NEW d,
           d = Share!SetFold(s, c, S)
    PROVE  Good(d)
<1> DEFINE J == [T \in SUBSET S |-> {a \in CellsType : Good(a) /\ Rest(c, a, T)}]
<1>1. c \in J[{}]
  <2>1. c \in CellsType /\ Rest(c, c, {})
    BY DEF Good, Rest
  <2> QED BY <2>1
<1>2. ASSUME NEW T \in SUBSET S, NEW i \in S \ T, NEW a \in J[T]
      PROVE  ShareOp(s, i, a) \in J[T \cup {i}]
  <2> DEFINE b == ShareOp(s, i, a)
  <2>1. Good(a) /\ Rest(c, a, T) /\ i \in Idx /\ i \notin T
    BY <1>2
  <2>2. a.pos[i] # -1 /\ s \in Seqs \ a.seq[i]
    BY <2>1, <1>2 DEF Rest
  <2>3. Good(b) /\ Apart(a, b, i)
    BY <2>1, <2>2, CellSeqAddGood DEF ShareOp
  <2> HIDE DEF b
  <2>4. Rest(c, b, T \cup {i}) /\ b \in CellsType /\ T \cup {i} \in SUBSET S
    BY <1>2, <2>1, <2>3, RestMore DEF Good
  <2> QED BY <2>3, <2>4 DEF b
<1>3. Share!SetFold(s, c, S) \in J[S]
  <2>1. Share!WellOrdered /\ Share!Ranked(S)
    <3>1. IsFiniteSet(S)
      BY CellSetsFinite
    <3> QED BY <3>1, LeastNatural, FiniteRanks DEF Share!WellOrdered, Share!Ranked
  <2>2. \A T \in SUBSET S : \A i \in S \ T : \A a \in J[T] : ShareOp(s, i, a) \in J[T \cup {i}]
    BY <1>2
  <2> HIDE DEF J
  <2> QED BY ONLY <2>1, <2>2, <1>1, Share!FoldSetInduction
<1> QED BY <1>3

=============================================================================

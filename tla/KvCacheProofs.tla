--------------------------- MODULE KvCacheProofs ---------------------------
(***************************************************************************)
(* llama.cpp's key/value cache keeps the three views of its cells in       *)
(* agreement, whatever its caller does.                                    *)
(***************************************************************************)
EXTENDS KvCache, KvCellsProofs

\* All streams are Good; x has no pending shift in a cell where k has none.
KvType == [cells : [Seqs -> CellsType], head : [Seqs -> 0 .. Size]]
KvGood(k) == k \in KvType /\ \A st \in Seqs : Good(k.cells[st])
Calms(k, x) == \A st \in Seqs : Calmer(k.cells[st], x.cells[st])

(* The cells and the head of one stream are replaced. *)
LEMMA PutGood ==
    ASSUME NEW k, KvGood(k), NEW st \in Seqs, NEW c, Good(c), NEW h \in 0 .. Size, NEW x, x = Put(k, st, c, h)
    PROVE  /\ KvGood(x) /\ x.cells[st] = c /\ (Calmer(k.cells[st], c) => Calms(k, x))
           /\ \A t \in Seqs \ {st} : x.cells[t] = k.cells[t]
<1> DEFINE C == [k.cells EXCEPT ![st] = c]
           H == [k.head EXCEPT ![st] = h]
<1>1. k.cells \in [Seqs -> CellsType] /\ k.head \in [Seqs -> 0 .. Size] /\ c \in CellsType
  BY DEF KvGood, KvType, Good
<1>2. C \in [Seqs -> CellsType] /\ H \in [Seqs -> 0 .. Size]
  BY <1>1
<1>3. \A t \in Seqs : C[t] = IF t = st THEN c ELSE k.cells[t]
  BY <1>1
<1>4. x = [k EXCEPT !.cells = C, !.head = H]
  BY DEF Put, KvGood, KvType
<1> HIDE DEF C, H
<1>5. x \in KvType /\ x.cells = C
  BY <1>2, <1>4 DEF KvGood, KvType
<1>6. \A t \in Seqs : Good(x.cells[t])
  BY <1>3, <1>5 DEF KvGood
<1> QED BY <1>3, <1>5, <1>6 DEF KvGood, Calms, Calmer

(* Only the cells of one stream are replaced. *)
LEMMA PutCellsGood ==
    ASSUME NEW k, KvGood(k), NEW st \in Seqs, NEW c, Good(c), NEW x, x = [k EXCEPT !.cells[st] = c]
    PROVE  /\ KvGood(x) /\ x.cells[st] = c /\ (Calmer(k.cells[st], c) => Calms(k, x))
<1> DEFINE C == [k.cells EXCEPT ![st] = c]
<1>1. k.cells \in [Seqs -> CellsType] /\ k.head \in [Seqs -> 0 .. Size] /\ c \in CellsType
  BY DEF KvGood, KvType, Good
<1>2. C \in [Seqs -> CellsType]
  BY <1>1
<1>3. \A t \in Seqs : C[t] = IF t = st THEN c ELSE k.cells[t]
  BY <1>1
<1>4. x = [k EXCEPT !.cells = C]
  BY DEF KvGood, KvType
<1> HIDE DEF C
<1>5. x \in KvType /\ x.cells = C
  BY <1>2, <1>4 DEF KvGood, KvType
<1>6. \A t \in Seqs : Good(x.cells[t])
  BY <1>3, <1>5 DEF KvGood
<1> QED BY <1>3, <1>5, <1>6 DEF KvGood, Calms, Calmer

(* The least of some cells is one of them. *)
LEMMA MinIn ==
    ASSUME NEW T, T \subseteq Nat, T # {}
    PROVE  Min(T) \in T /\ \A x \in T : Min(T) <= x
<1>1. \E n \in T : \A m \in T : n <= m
  BY LeastNatural
<1> QED BY <1>1 DEF Min

(* The search head stays inside the buffer. *)
LEMMA HeadBackIn ==
    ASSUME NEW h \in 0 .. Size, NEW c, NEW d
    PROVE  HeadBack(h, c, d) \in 0 .. Size
<1>1. Freed(c, d) \subseteq Nat /\ Freed(c, d) \subseteq Idx
  BY Sizes DEF Freed
<1>2. CASE Freed(c, d) = {}
  BY <1>2 DEF HeadBack
<1>3. CASE Freed(c, d) # {}
  <2>1. Min(Freed(c, d)) \in Idx
    BY <1>1, <1>3, MinIn
  <2>2. Min(Freed(c, d)) \in 0 .. Size
    BY <2>1, Sizes DEF Idx
  <2> QED BY <2>2 DEF HeadBack
<1> QED BY <1>2, <1>3

(* seq_rm *)
LEMMA SeqRmGood ==
    ASSUME NEW k, KvGood(k), NEW st \in Seqs, NEW s \in Seqs, NEW p0, NEW p1, NEW x, x = SeqRm(k, st, s, p0, p1)
    PROVE  /\ KvGood(x) /\ Calms(k, x)
           /\ \A t \in Seqs \ {st} : x.cells[t] = k.cells[t]
           /\ \A i \in InRange(k.cells[st], s, p0, p1) : s \notin x.cells[st].seq[i]
           /\ \A i \in Idx \ InRange(k.cells[st], s, p0, p1) : x.cells[st].seq[i] = k.cells[st].seq[i]
<1> DEFINE c == k.cells[st]
           S == InRange(c, s, p0, p1)
           d == Rm!SetFold(s, c, S)
           h == HeadBack(k.head[st], c, d)
<1>1. Good(c) /\ k.head[st] \in 0 .. Size
  BY DEF KvGood, KvType
<1>2. S \in SUBSET Idx /\ \A i \in S : s \in c.seq[i]
  BY DEF InRange
<1>3. x = Put(k, st, d, h)
  BY DEF SeqRm, Rm!SetFold, RmOp, FoldSet, MapThenFoldSet, Rm!MapThenFoldSet
<1> HIDE DEF c, S
<1>4. Good(d) /\ Calmer(c, d) /\ (\A i \in S : d.seq[i] = c.seq[i] \ {s}) /\ Rest(c, d, S)
  <2> HIDE DEF d
  <2> QED BY <1>1, <1>2, RmFold DEF d
<1> HIDE DEF d
<1>5. h \in 0 .. Size
  BY <1>1, HeadBackIn
<1> HIDE DEF h
<1>6. /\ KvGood(x) /\ x.cells[st] = d /\ (Calmer(k.cells[st], d) => Calms(k, x))
      /\ \A t \in Seqs \ {st} : x.cells[t] = k.cells[t]
  BY <1>3, <1>4, <1>5, PutGood
<1>7. Calms(k, x)
  BY <1>4, <1>6 DEF c
<1> QED BY <1>4, <1>6, <1>7 DEF Rest, c, S

(* seq_keep *)
LEMMA SeqKeepGood ==
    ASSUME NEW k, KvGood(k), NEW st \in Seqs, NEW s \in Seqs, NEW x, x = SeqKeep(k, st, s)
    PROVE  KvGood(x)
<1> DEFINE c == k.cells[st]
           d == Keep!SetFold(s, c, Idx)
           h == HeadBack(k.head[st], c, d)
<1>1. Good(c) /\ k.head[st] \in 0 .. Size
  BY DEF KvGood, KvType
<1>2. x = Put(k, st, d, h)
  BY DEF SeqKeep, Keep!SetFold, KeepOp, FoldSet, MapThenFoldSet, Keep!MapThenFoldSet
<1> HIDE DEF c
<1>3. Good(d)
  <2> HIDE DEF d
  <2> QED BY <1>1, KeepFold DEF d
<1> HIDE DEF d
<1>4. h \in 0 .. Size
  BY <1>1, HeadBackIn
<1> HIDE DEF h
<1> QED BY <1>2, <1>3, <1>4, PutGood

(* seq_add, for a text that moves down *)
LEMMA SeqAddGood ==
    ASSUME NEW k, KvGood(k), NEW st \in Seqs, NEW s \in Seqs, NEW p0 \in Nat, NEW p1 \in Nat,
           NEW n \in Int, n <= 0, NEW x, x = SeqAdd(k, st, s, p0, p1, n)
    PROVE  KvGood(x)
<1> DEFINE c == k.cells[st]
           S == InRange(c, s, p0, p1)
           d == Add!SetFold(n, c, S)
           h == IF Freed(c, d) = {} THEN 0 ELSE Min(Freed(c, d))
<1>1. Good(c)
  BY DEF KvGood
<1>2. S \in SUBSET Idx /\ \A i \in S : c.pos[i] # -1
  BY DEF InRange, PosIn, Lo
<1>3. x = IF n = 0 \/ Lo(p0) = Hi(p1) THEN k ELSE Put(k, st, d, h)
  BY DEF SeqAdd, Add!SetFold, AddOp, FoldSet, MapThenFoldSet, Add!MapThenFoldSet
<1> HIDE DEF c, S
<1>4. Good(d)
  <2> HIDE DEF d
  <2> QED BY <1>1, <1>2, AddFold DEF d
<1> HIDE DEF d
<1>5. h \in 0 .. Size
  <2>1. Freed(c, d) \subseteq Nat /\ Freed(c, d) \subseteq Idx
    BY Sizes DEF Freed
  <2>2. CASE Freed(c, d) = {}
    BY <2>2, Sizes
  <2>3. CASE Freed(c, d) # {}
    <3>1. Min(Freed(c, d)) \in Idx
      BY <2>1, <2>3, MinIn
    <3> QED BY <2>3, <3>1, Sizes DEF Idx
  <2> QED BY <2>2, <2>3
<1> HIDE DEF h
<1>6. KvGood(Put(k, st, d, h))
  BY <1>4, <1>5, PutGood
<1> QED BY <1>3, <1>6

(* seq_cp inside one stream, to a sequence that has nothing *)
LEMMA SeqCpShareGood ==
    ASSUME NEW k, KvGood(k), NEW st \in Seqs, NEW src \in Seqs, NEW dst \in Seqs, NEW p0 \in Nat, NEW p1 \in Nat,
           \A i \in Idx : dst \notin k.cells[st].seq[i], NEW x, x = SeqCpShare(k, st, src, dst, p0, p1)
    PROVE  KvGood(x)
<1> DEFINE c == k.cells[st]
           S == InRange(c, src, p0, p1)
           d == Share!SetFold(dst, c, S)
<1>1. Good(c)
  BY DEF KvGood
<1>2. S \in SUBSET Idx /\ \A i \in S : c.pos[i] # -1 /\ dst \notin c.seq[i]
  BY DEF InRange, PosIn, Lo
<1>3. x = [k EXCEPT !.cells[st] = d]
  BY DEF SeqCpShare, Share!SetFold, ShareOp, FoldSet, MapThenFoldSet, Share!MapThenFoldSet
<1> HIDE DEF c, S
<1>4. Good(d)
  <2> HIDE DEF d
  <2> QED BY <1>1, <1>2, ShareFold DEF d
<1> HIDE DEF d
<1> QED BY <1>3, <1>4, PutCellsGood

CopyOp(par, i, a) ==
    LET b == CellSeqAdd(PosSet(a, i, par[1].pos[i] - par[1].shift[i]), i, par[2])
    IN  IF par[1].shift[i] # 0 THEN PosAdd(b, i, par[1].shift[i]) ELSE b
SetOp(par, j, a) == SetOne(a, par[1][j], par[2][j])
PlaceOp(g, j, a) == Place(a, g.idxs[j], g.toks[j])
OnlyOp(S, x, a) == IF x \in S THEN Append(a, x) ELSE a
CopyIn == INSTANCE FoldInduction WITH Op <- CopyOp
SetIn == INSTANCE FoldInduction WITH Op <- SetOp
PlaceIn == INSTANCE FoldInduction WITH Op <- PlaceOp
OnlyIn == INSTANCE FoldInduction WITH Op <- OnlyOp

(* seq_cp between streams rebuilds the cells of a sequence: the position   *)
(* before the shift, the new owner, and the shift again.                   *)
LEMMA CopyFold ==
    ASSUME NEW c, Good(c), NEW s \in Seqs, NEW S \in SUBSET Idx, \A i \in S : c.seq[i] # {}, NEW d,
           d = CopyIn!SetFold(<<c, s>>, Reset, S)
    PROVE  Good(d)
<1> DEFINE par == <<c, s>>
           J == [T \in SUBSET S |-> {a \in CellsType : Good(a) /\ Rest(Reset, a, T)}]
<1>1. Reset \in J[{}]
  <2>1. Reset \in CellsType /\ Good(Reset) /\ Rest(Reset, Reset, {})
    BY ResetGood DEF Good, Rest
  <2> QED BY <2>1
<1>2. ASSUME NEW T \in SUBSET S, NEW i \in S \ T, NEW a \in J[T]
      PROVE  CopyOp(par, i, a) \in J[T \cup {i}]
  <2> DEFINE q == c.pos[i] - c.shift[i]
             b == CellSeqAdd(PosSet(a, i, q), i, s)
             e == CopyOp(par, i, a)
  <2>1. Good(a) /\ Rest(Reset, a, T) /\ i \in Idx /\ i \notin T
    BY <1>2
  <2>2. a.pos[i] = -1
    BY <2>1, ResetGood DEF Rest
  <2>3. q \in Pos /\ c.pos[i] \in Int /\ c.shift[i] \in Int /\ c.pos[i] \in Pos
    <3>1. c.pos[i] # -1
      BY <1>2, <2>1 DEF Good, Views
    <3> QED BY <2>1, <3>1, GoodLoose DEF Good, Settled
  <2>4. e = IF c.shift[i] # 0 THEN PosAdd(b, i, c.shift[i]) ELSE b
    BY DEF CopyOp
  <2>5. Good(b) /\ Apart(a, b, i) /\ b.pos[i] = q
    <3> HIDE DEF b, q, J
    <3> QED BY <2>1, <2>2, <2>3, TakeGood DEF b
  <2>6. b.pos[i] # -1 /\ b.pos[i] + c.shift[i] <= MaxPos
    <3>1. q # -1 /\ q + c.shift[i] = c.pos[i] /\ c.pos[i] <= MaxPos
      BY <2>3, Sizes DEF Pos
    <3> HIDE DEF b, q
    <3> QED BY <2>5, <3>1
  <2> HIDE DEF b, q, e
  <2>7. Good(e) /\ Apart(a, e, i)
    <3>1. CASE c.shift[i] = 0
      BY <2>4, <2>5, <3>1
    <3>2. CASE c.shift[i] # 0
      <4>1. Good(PosAdd(b, i, c.shift[i])) /\ Apart(b, PosAdd(b, i, c.shift[i]), i)
        BY <2>1, <2>3, <2>5, <2>6, PosAddGood
      <4> QED BY <2>4, <2>5, <3>2, <4>1 DEF Apart
    <3> QED BY <3>1, <3>2
  <2>8. Rest(Reset, e, T \cup {i}) /\ e \in CellsType /\ T \cup {i} \in SUBSET S
    BY <1>2, <2>1, <2>7, RestMore DEF Good
  <2> QED BY <2>7, <2>8 DEF e
<1>3. CopyIn!SetFold(par, Reset, S) \in J[S]
  <2>1. CopyIn!WellOrdered /\ CopyIn!Ranked(S)
    <3>1. IsFiniteSet(S)
      BY CellSetsFinite
    <3> QED BY <3>1, LeastNatural, FiniteRanks DEF CopyIn!WellOrdered, CopyIn!Ranked
  <2>2. \A T \in SUBSET S : \A i \in S \ T : \A a \in J[T] : CopyOp(par, i, a) \in J[T \cup {i}]
    BY Zenon, <1>2
  <2> HIDE DEF J, par
  <2> QED BY ONLY <2>1, <2>2, <1>1, CopyIn!FoldSetInduction
<1> QED BY <1>3

(* The loop of seq_cp between streams is that fold. *)
LEMMA CopyIs ==
    ASSUME NEW k, NEW s0, NEW s1, NEW src, NEW dst
    PROVE  SeqCpStream(k, s0, s1, src, dst) =
             Put(k, s1, CopyIn!SetFold(<<k.cells[s0], dst>>, Reset, {i \in Idx : src \in k.cells[s0].seq[i]}), k.head[s0])
BY DEF SeqCpStream, CopyIn!SetFold, CopyOp, FoldSet, MapThenFoldSet, CopyIn!MapThenFoldSet

(* seq_cp between streams *)
LEMMA SeqCpStreamGood ==
    ASSUME NEW k, KvGood(k), NEW s0 \in Seqs, NEW s1 \in Seqs, NEW src \in Seqs, NEW dst \in Seqs,
           NEW x, x = SeqCpStream(k, s0, s1, src, dst)
    PROVE  KvGood(x)
<1> DEFINE c == k.cells[s0]
           S == {i \in Idx : src \in c.seq[i]}
           d == CopyIn!SetFold(<<c, dst>>, Reset, S)
<1>1. Good(c) /\ k.head[s0] \in 0 .. Size
  BY DEF KvGood, KvType
<1>2. S \in SUBSET Idx /\ \A i \in S : c.seq[i] # {}
  OBVIOUS
<1>3. x = Put(k, s1, d, k.head[s0])
  BY CopyIs
<1> HIDE DEF c, S
<1>4. Good(d)
  <2> HIDE DEF d
  <2> QED BY <1>1, <1>2, CopyFold DEF d
<1> HIDE DEF d
<1> QED BY <1>1, <1>3, <1>4, PutGood

(* The indexes of a sequence, in order. *)
LEMMA Indexes ==
    ASSUME NEW S, NEW q \in Seq(S)
    PROVE  /\ Len(q) \in Nat /\ DOMAIN q = 1 .. Len(q)
           /\ DOMAIN [j \in DOMAIN q |-> j] = 1 .. Len(q)
           /\ \A j \in 1 .. Len(q) : [i \in DOMAIN q |-> i][j] = j /\ q[j] \in S
OBVIOUS

(* set: the cells that prepare used get back what it saved of them. *)
LEMMA SetGood ==
    ASSUME NEW c, Good(c), NEW idxs \in Seq(Idx), NEW saved,
           \A j \in DOMAIN idxs : c.shift[idxs[j]] = 0 /\ saved[j] \in OldCell,
           NEW d, d = Set(c, idxs, saved)
    PROVE  Good(d) /\ Calmer(c, d)
<1> DEFINE par == <<idxs, saved>>
           n == Len(idxs)
           js == [j \in DOMAIN idxs |-> j]
           J == [m \in 0 .. n |-> {a \in CellsType : Good(a) /\ Calmer(c, a)}]
<1>1. n \in Nat /\ DOMAIN js = 1 .. n /\ DOMAIN idxs = 1 .. n /\ \A j \in 1 .. n : js[j] = j /\ idxs[j] \in Idx
  BY Indexes
<1>2. c \in J[0]
  BY <1>1 DEF Good, Calmer
<1>3. ASSUME NEW j \in 1 .. n, NEW a \in J[j - 1]
      PROVE  SetOp(par, js[j], a) \in J[j]
  <2> DEFINE e == SetOne(a, idxs[j], saved[j])
  <2>1. /\ Good(a) /\ Calmer(c, a) /\ js[j] = j /\ idxs[j] \in Idx /\ saved[j] \in OldCell /\ j \in 0 .. n
        /\ c.shift[idxs[j]] = 0
    BY <1>1, <1>3
  <2>2. SetOp(par, js[j], a) = e
    BY <2>1 DEF SetOp
  <2>3. Good(e) /\ Apart(a, e, idxs[j]) /\ e.shift[idxs[j]] = 0
    <3>1. a.shift[idxs[j]] = 0
      BY <2>1 DEF Calmer
    <3> HIDE DEF e, J, js, n
    <3> QED BY <2>1, <3>1, SetOneGood DEF e
  <2> HIDE DEF e
  <2>4. Calmer(c, e)
    BY <2>1, <2>3 DEF Calmer, Apart
  <2> QED BY <2>1, <2>2, <2>3, <2>4 DEF Good
<1>4. SetIn!LeftFold(par, c, js) \in J[n]
  <2>1. \A j \in 1 .. n : \A a \in J[j - 1] : SetOp(par, js[j], a) \in J[j]
    BY <1>3
  <2> HIDE DEF J, par, js, n
  <2>r. SetIn!WellOrdered /\ SetIn!Ranked(1 .. n)
    <3>1. IsFiniteSet(1 .. n)
      BY <1>1, FS_Interval
    <3> QED BY <3>1, LeastNatural, FiniteRanks DEF SetIn!WellOrdered, SetIn!Ranked
  <2> QED BY ONLY <1>1, <1>2, <2>1, <2>r, SetIn!FoldLeftInduction
<1>5. d = SetIn!LeftFold(par, c, js)
  BY DEF Set, SetIn!LeftFold, SetOp, FoldLeft, MapThenFoldSet, SetIn!MapThenFoldSet, Max, SetIn!Top
<1> QED BY <1>1, <1>4, <1>5

(* The elements of a sequence that are in S. *)
LEMMA OnlyIs ==
    ASSUME NEW X, NEW q \in Seq(X), NEW S
    PROVE  Only(q, S) \in Seq(X \cap S)
<1> DEFINE n == Len(q)
           J == [m \in 0 .. n |-> Seq(X \cap S)]
<1>1. n \in Nat /\ DOMAIN q = 1 .. n /\ \A j \in 1 .. n : q[j] \in X
  BY Indexes
<1>2. << >> \in J[0]
  BY <1>1
<1>3. ASSUME NEW j \in 1 .. n, NEW a \in J[j - 1]
      PROVE  OnlyOp(S, q[j], a) \in J[j]
  <2> DEFINE Y == X \cap S
             x == OnlyOp(S, q[j], a)
  <2>1. a \in Seq(Y) /\ j \in 0 .. n /\ q[j] \in X
    BY <1>1, <1>3
  <2>2. x \in Seq(Y)
    <3>1. CASE q[j] \in S
      <4>1. q[j] \in Y
        BY <2>1, <3>1
      <4>2. x = Append(a, q[j])
        BY <3>1 DEF OnlyOp
      <4> HIDE DEF Y, x
      <4> QED BY ONLY <2>1, <4>1, <4>2
    <3>2. CASE q[j] \notin S
      BY <2>1, <3>2 DEF OnlyOp
    <3> QED BY <3>1, <3>2
  <2> HIDE DEF x
  <2> QED BY <2>1, <2>2 DEF x
<1>4. OnlyIn!LeftFold(S, << >>, q) \in J[n]
  <2>1. \A j \in 1 .. n : \A a \in J[j - 1] : OnlyOp(S, q[j], a) \in J[j]
    BY <1>3
  <2> HIDE DEF J, n
  <2>r. OnlyIn!WellOrdered /\ OnlyIn!Ranked(1 .. n)
    <3>1. IsFiniteSet(1 .. n)
      BY <1>1, FS_Interval
    <3> QED BY <3>1, LeastNatural, FiniteRanks DEF OnlyIn!WellOrdered, OnlyIn!Ranked
  <2> QED BY ONLY <1>1, <1>2, <2>1, <2>r, OnlyIn!FoldLeftInduction
<1>5. Only(q, S) = OnlyIn!LeftFold(S, << >>, q)
  BY DEF Only, OnlyIn!LeftFold, OnlyOp, FoldLeft, MapThenFoldSet, OnlyIn!MapThenFoldSet, Max, OnlyIn!Top
<1> QED BY <1>1, <1>4, <1>5

(* find_slot: as many cells as were asked for, or none. *)
LEMMA FindSlotIs ==
    ASSUME NEW type, NEW c, NEW h \in 0 .. Size, NEW n \in Nat
    PROVE  /\ FindSlot(type, c, h, n) \in Seq(Idx)
           /\ FindSlot(type, c, h, n) # << >> => Len(FindSlot(type, c, h, n)) = n
<1> DEFINE start == IF h > Cardinality(c.used) + 2 * n THEN 0 ELSE h
           round == [k \in 1 .. Size |-> (start + k - 1) % Size]
           S == {i \in Idx : CanUse(type, c, i)}
           free == Only(round, S)
<1>1. start \in Nat /\ Size \in Nat \ {0}
  BY Sizes
<1>2. round \in Seq(Idx)
  <2> HIDE DEF start
  <2>1. \A k \in 1 .. Size : (start + k - 1) % Size \in 0 .. Size - 1
    BY <1>1
  <2> QED BY <1>1, <2>1 DEF Idx
<1>3. free \in Seq(Idx)
  <2>1. free \in Seq(Idx \cap S)
    <3> HIDE DEF round, S
    <3> QED BY <1>2, OnlyIs
  <2>2. Idx \cap S = S /\ S \subseteq Idx
    OBVIOUS
  <2> HIDE DEF free, S
  <2> QED BY <2>1, <2>2
<1>4. FindSlot(type, c, h, n) = IF Len(free) < n THEN << >> ELSE SubSeq(free, 1, n)
  BY DEF FindSlot
<1> HIDE DEF free
<1>5. CASE Len(free) < n
  BY <1>4, <1>5
<1>6. CASE ~(Len(free) < n)
  <2>1. Len(free) \in Nat /\ n <= Len(free)
    BY <1>3, <1>6
  <2>2. SubSeq(free, 1, n) \in Seq(Idx) /\ Len(SubSeq(free, 1, n)) = n
    BY <1>3, <2>1
  <2> QED BY <1>4, <1>6, <2>2
<1> QED BY <1>5, <1>6

-----------------------------------------------------------------------------
(* apply_ubatch. *)

TokType   == [s : Seqs, p : Pos]
GroupType == [strm : Seqs, toks : Seq(TokType), idxs : Seq(Idx)]
\* A group with a slot.
Slotted   == {g \in GroupType : g.idxs # << >> /\ Len(g.idxs) = Len(g.toks)}
UbType    == {u \in Seq(GroupType) : Len(u) <= NSeq}
PlacedUb  == {u \in Seq(Slotted) : Len(u) <= NSeq}
GoodKv    == {k \in KvType : KvGood(k)}
\* What may become of k while no position moves.
From(k)   == {x \in KvType : KvGood(x) /\ Calms(k, x)}
\* No shift is pending in the cells of a group.
Rested(k, g) == \A m \in DOMAIN g.idxs : k.cells[g.strm].shift[g.idxs[m]] = 0

(* From is reflexive and transitive, and keeps the cells of a group rested. *)
LEMMA FromSelf == \A k \in GoodKv : k \in From(k)
BY DEF From, GoodKv, Calms, Calmer

LEMMA FromFrom == \A k : \A x \in From(k) : x \in GoodKv /\ \A y \in From(x) : y \in From(k)
BY DEF From, GoodKv, Calms, Calmer

LEMMA FromRested ==
    ASSUME NEW k, NEW x \in From(k), NEW g \in Slotted, Rested(k, g)
    PROVE  Rested(x, g)
<1>1. g.strm \in Seqs /\ \A m \in DOMAIN g.idxs : g.idxs[m] \in Idx
  BY DEF Slotted, GroupType
<1> QED BY <1>1 DEF From, Rested, Calms, Calmer

PurgeOp(par, s, a) == Purge(a, par[2].strm, s, Overwritten(par[1], par[2], s))
ApplyOp(par, g, a) == ApplyGroup(a, g)
PurgeIn == INSTANCE FoldInduction WITH Op <- PurgeOp
ApplyIn == INSTANCE FoldInduction WITH Op <- ApplyOp

(* Every token takes its cell. *)
LEMMA PlaceAllGood ==
    ASSUME NEW c, Good(c), NEW g \in Slotted, NEW d, d = PlaceAll(c, g)
    PROVE  Good(d) /\ Calmer(c, d) /\ \A m \in DOMAIN g.idxs : d.shift[g.idxs[m]] = 0
<1> DEFINE n == Len(g.idxs)
           js == [j \in DOMAIN g.idxs |-> j]
           PlacedTo(a, m) == Good(a) /\ Calmer(c, a) /\ \A i \in 1 .. m : a.shift[g.idxs[i]] = 0
           J == [m \in 0 .. n |-> {a \in CellsType : PlacedTo(a, m)}]
<1>0. g.idxs \in Seq(Idx) /\ g.toks \in Seq(TokType) /\ Len(g.idxs) = Len(g.toks)
  BY DEF Slotted, GroupType
<1>1. /\ n \in Nat /\ DOMAIN js = 1 .. n /\ DOMAIN g.idxs = 1 .. n
      /\ \A j \in 1 .. n : js[j] = j /\ g.idxs[j] \in Idx
  BY <1>0, Indexes
<1>2. c \in J[0]
  BY <1>1 DEF Good, Calmer
<1>3. ASSUME NEW j \in 1 .. n, NEW a \in J[j - 1]
      PROVE  PlaceOp(g, js[j], a) \in J[j]
  <2> DEFINE e == Place(a, g.idxs[j], g.toks[j])
  <2>1. PlacedTo(a, j - 1) /\ js[j] = j /\ g.idxs[j] \in Idx /\ j \in 0 .. n
    <3>1. PlacedTo(a, j - 1) /\ j \in 0 .. n
      BY <1>1, <1>3
    <3> HIDE DEF js, n, PlacedTo
    <3> QED BY <1>1, <3>1
  <2>2. PlaceOp(g, js[j], a) = e
    BY <2>1 DEF PlaceOp
  <2>3. g.toks[j].s \in Seqs /\ g.toks[j].p \in Pos
    <3>1. g.toks[j] \in TokType
      BY <1>0, <1>3
    <3> QED BY <3>1 DEF TokType
  <2>4. Good(e) /\ Apart(a, e, g.idxs[j]) /\ e.shift[g.idxs[j]] = 0
    <3> HIDE DEF e, J, js, n
    <3> QED BY <2>1, <2>3, PlaceGood DEF e
  <2> HIDE DEF e
  <2>5. Calmer(c, e)
    BY <2>1, <2>4 DEF Calmer, Apart
  <2>6. \A i \in 1 .. j : e.shift[g.idxs[i]] = 0
    <3> SUFFICES ASSUME NEW i \in 1 .. j PROVE e.shift[g.idxs[i]] = 0
      OBVIOUS
    <3>1. i \in 1 .. n /\ (i = j \/ i \in 1 .. j - 1)
      <4>1. n \in Nat
        BY <1>1
      <4> HIDE DEF n, J, js, PlacedTo
      <4> QED BY ONLY <4>1, j \in 1 .. n, i \in 1 .. j
    <3>2. g.idxs[i] \in Idx
      <4> HIDE DEF n, J, js
      <4> QED BY <1>1, <3>1
    <3> QED BY <2>1, <2>4, <3>1, <3>2 DEF Apart
  <2> QED BY <2>1, <2>2, <2>4, <2>5, <2>6 DEF Good
<1>4. PlaceIn!LeftFold(g, c, js) \in J[n]
  <2>1. \A j \in 1 .. n : \A a \in J[j - 1] : PlaceOp(g, js[j], a) \in J[j]
    BY <1>3
  <2> HIDE DEF J, js, n
  <2>r. PlaceIn!WellOrdered /\ PlaceIn!Ranked(1 .. n)
    <3>1. IsFiniteSet(1 .. n)
      BY <1>1, FS_Interval
    <3> QED BY <3>1, LeastNatural, FiniteRanks DEF PlaceIn!WellOrdered, PlaceIn!Ranked
  <2> QED BY ONLY <1>1, <1>2, <2>1, <2>r, PlaceIn!FoldLeftInduction
<1>5. d = PlaceIn!LeftFold(g, c, js)
  BY DEF PlaceAll, PlaceIn!LeftFold, PlaceOp, FoldLeft, MapThenFoldSet, PlaceIn!MapThenFoldSet,
         Max, PlaceIn!Top
<1>6. PlacedTo(d, n)
  <2> HIDE DEF js, PlacedTo
  <2> QED BY <1>1, <1>4, <1>5
<1> HIDE DEF js, J, n
<1> QED BY <1>1, <1>6

(* The purge of what lies below an overwritten position. *)
LEMMA PurgeGood ==
    ASSUME NEW k \in GoodKv, NEW st \in Seqs, NEW s \in Seqs, NEW top, NEW x, x = Purge(k, st, s, top)
    PROVE  x \in From(k)
<1> DEFINE e == SeqRm(k, st, s, SeqPosMin(k.cells[st], s), Max(top) + 1)
<1>1. KvGood(k)
  BY DEF GoodKv
<1>2. KvGood(e) /\ Calms(k, e)
  <2> HIDE DEF e
  <2> QED BY <1>1, SeqRmGood DEF e
<1>3. x = k \/ x = e
  BY DEF Purge
<1> HIDE DEF e
<1> QED BY <1>2, <1>3, FromSelf DEF From, KvGood

(* The purge for every sequence. *)
LEMMA PurgeAllGood ==
    ASSUME NEW k \in GoodKv, NEW c, NEW g \in Slotted, NEW x, x = PurgeAll(k, g, c)
    PROVE  x \in From(k)
<1> DEFINE par == <<c, g>>
           J == [T \in SUBSET Seqs |-> From(k)]
<1>1. k \in J[{}] /\ g.strm \in Seqs
  BY FromSelf DEF Slotted, GroupType
<1>2. ASSUME NEW T \in SUBSET Seqs, NEW s \in Seqs \ T, NEW a \in J[T]
      PROVE  PurgeOp(par, s, a) \in J[T \cup {s}]
  <2>1. a \in From(k) /\ a \in GoodKv /\ s \in Seqs /\ T \cup {s} \in SUBSET Seqs
    BY <1>2, FromFrom
  <2>2. PurgeOp(par, s, a) = Purge(a, g.strm, s, Overwritten(c, g, s))
    BY DEF PurgeOp
  <2>3. PurgeOp(par, s, a) \in From(k)
    <3> HIDE DEF par, J
    <3>1. PurgeOp(par, s, a) \in From(a)
      BY <1>1, <2>1, <2>2, PurgeGood
    <3> QED BY <2>1, <3>1, FromFrom
  <2> QED BY <2>1, <2>3
<1>3. PurgeIn!SetFold(par, k, Seqs) \in J[Seqs]
  <2>1. PurgeIn!WellOrdered /\ PurgeIn!Ranked(Seqs)
    <3>1. IsFiniteSet(Seqs)
      BY Sizes
    <3> QED BY <3>1, LeastNatural, FiniteRanks DEF PurgeIn!WellOrdered, PurgeIn!Ranked
  <2>2. \A T \in SUBSET Seqs : \A s \in Seqs \ T : \A a \in J[T] : PurgeOp(par, s, a) \in J[T \cup {s}]
    BY Zenon, <1>2
  <2> HIDE DEF J, par
  <2> QED BY ONLY <2>1, <2>2, <1>1, PurgeIn!FoldSetInduction
<1>4. x = PurgeIn!SetFold(par, k, Seqs)
  BY DEF PurgeAll, PurgeIn!SetFold, PurgeOp, FoldSet, MapThenFoldSet, PurgeIn!MapThenFoldSet
<1> QED BY <1>3, <1>4

(* Only the head of one stream is replaced. *)
LEMMA PutHeadGood ==
    ASSUME NEW k \in GoodKv, NEW st \in Seqs, NEW h \in 0 .. Size, NEW x, x = [k EXCEPT !.head[st] = h]
    PROVE  x \in From(k)
<1> DEFINE H == [k.head EXCEPT ![st] = h]
<1>1. k \in KvType /\ k.head \in [Seqs -> 0 .. Size]
  BY DEF GoodKv, KvType
<1>2. H \in [Seqs -> 0 .. Size]
  BY <1>1
<1>3. x = [k EXCEPT !.head = H]
  BY <1>1 DEF KvType
<1> HIDE DEF H
<1>4. x \in KvType /\ x.cells = k.cells
  BY <1>1, <1>2, <1>3 DEF KvType
<1> QED BY <1>4 DEF GoodKv, From, KvGood, Calms, Calmer

(* apply_ubatch, for the tokens of one stream *)
LEMMA ApplyGroupGood ==
    ASSUME NEW k \in GoodKv, NEW g \in Slotted, NEW x, x = ApplyGroup(k, g)
    PROVE  x \in From(k) /\ Rested(x, g)
<1> DEFINE st == g.strm
           c == k.cells[st]
           d == PlaceAll(c, g)
           b == [k EXCEPT !.cells[st] = d]
           e == PurgeAll(b, g, c)
           h == Last(g.idxs) + 1
<1>1. st \in Seqs /\ KvGood(k)
  BY DEF Slotted, GroupType, GoodKv
<1>2. Good(c)
  BY <1>1 DEF KvGood
<1>3. h \in 0 .. Size
  <2>1. g.idxs \in Seq(Idx) /\ g.idxs # << >>
    BY DEF Slotted, GroupType
  <2>2. Last(g.idxs) \in Idx
    BY <2>1 DEF Last
  <2> QED BY <2>2, Sizes DEF Idx
<1>4. x = [e EXCEPT !.head[st] = h]
  BY DEF ApplyGroup
<1> HIDE DEF h
<1>5. Good(d) /\ Calmer(c, d) /\ \A m \in DOMAIN g.idxs : d.shift[g.idxs[m]] = 0
  <2> HIDE DEF d, c
  <2> QED BY <1>2, PlaceAllGood DEF d
<1> HIDE DEF d
<1>6. b \in From(k) /\ b.cells[st] = d
  <2>1. KvGood(b) /\ b.cells[st] = d /\ (Calmer(k.cells[st], d) => Calms(k, b))
    <3> HIDE DEF b, st
    <3> QED BY <1>1, <1>5, PutCellsGood DEF b
  <2> HIDE DEF b
  <2> QED BY <1>5, <2>1 DEF From, KvGood
<1> HIDE DEF b
<1>7. b \in GoodKv /\ Rested(b, g)
  BY <1>5, <1>6, FromFrom DEF Rested
<1> HIDE DEF c, st
<1>8. e \in From(b)
  <2> HIDE DEF e
  <2> QED BY <1>7, PurgeAllGood DEF e
<1> HIDE DEF e
<1>9. x \in From(e)
  BY <1>1, <1>3, <1>4, <1>8, FromFrom, PutHeadGood
<1>10. x \in From(b) /\ x \in From(k)
  BY Zenon, <1>6, <1>8, <1>9, FromFrom
<1> QED BY <1>7, <1>10, FromRested

(* apply_ubatch *)
LEMMA ApplyUbatchGood ==
    ASSUME NEW k \in GoodKv, NEW ub \in PlacedUb, NEW x, x = ApplyUbatch(k, ub)
    PROVE  x \in From(k) /\ \A j \in DOMAIN ub : Rested(x, ub[j])
<1> DEFINE n == Len(ub)
           J == [m \in 0 .. n |-> {a \in From(k) : \A i \in 1 .. m : Rested(a, ub[i])}]
<1>1. n \in Nat /\ DOMAIN ub = 1 .. n /\ \A j \in 1 .. n : ub[j] \in Slotted
  BY Indexes DEF PlacedUb
<1>2. k \in J[0]
  BY <1>1, FromSelf
<1>3. ASSUME NEW j \in 1 .. n, NEW a \in J[j - 1]
      PROVE  ApplyOp(0, ub[j], a) \in J[j]
  <2> DEFINE y == ApplyOp(0, ub[j], a)
  <2>1. /\ a \in From(k) /\ a \in GoodKv /\ ub[j] \in Slotted /\ j \in 0 .. n
        /\ \A i \in 1 .. j - 1 : Rested(a, ub[i])
    BY <1>1, <1>3, FromFrom
  <2>2. y \in From(a) /\ Rested(y, ub[j])
    <3> HIDE DEF n, J
    <3> QED BY <2>1, ApplyGroupGood DEF ApplyOp
  <2> HIDE DEF y
  <2>3. y \in From(k)
    BY <2>1, <2>2, FromFrom
  <2>4. \A i \in 1 .. j : Rested(y, ub[i])
    <3> SUFFICES ASSUME NEW i \in 1 .. j PROVE Rested(y, ub[i])
      OBVIOUS
    <3>1. ub[i] \in Slotted /\ (i = j \/ i \in 1 .. j - 1)
      BY <1>1
    <3>2. CASE i = j
      BY <2>2, <3>2
    <3>3. CASE i \in 1 .. j - 1
      <4> HIDE DEF n, J
      <4> QED BY <2>1, <2>2, <3>1, <3>3, FromRested
    <3> QED BY <3>1, <3>2, <3>3
  <2> QED BY <2>1, <2>3, <2>4 DEF y
<1>4. ApplyIn!LeftFold(0, k, ub) \in J[n]
  <2>1. \A j \in 1 .. n : \A a \in J[j - 1] : ApplyOp(0, ub[j], a) \in J[j]
    BY <1>3
  <2> HIDE DEF J, n
  <2>r. ApplyIn!WellOrdered /\ ApplyIn!Ranked(1 .. n)
    <3>1. IsFiniteSet(1 .. n)
      BY <1>1, FS_Interval
    <3> QED BY <3>1, LeastNatural, FiniteRanks DEF ApplyIn!WellOrdered, ApplyIn!Ranked
  <2> QED BY ONLY <1>1, <1>2, <2>1, <2>r, ApplyIn!FoldLeftInduction
<1>5. x = ApplyIn!LeftFold(0, k, ub)
  BY DEF ApplyUbatch, ApplyIn!LeftFold, ApplyOp, FoldLeft, MapThenFoldSet, ApplyIn!MapThenFoldSet,
         Max, ApplyIn!Top
<1> QED BY <1>1, <1>4, <1>5

-----------------------------------------------------------------------------
(* prepare. *)

\* What one trial saves, and what the loop over the ubatches carries.
UndoType == {u \in [ub : PlacedUb, head : [Seqs -> 0 .. Size], saved : Seq(Seq(OldCell))] :
                \A j \in DOMAIN u.ub : j \in DOMAIN u.saved /\ DOMAIN u.saved[j] = DOMAIN u.ub[j].idxs}
\* Every cell a trial has used has no pending shift, as set asserts.
Undoable(k, u) == \A j \in DOMAIN u.ub : Rested(k, u.ub[j])
TrialType == {a \in [ok : BOOLEAN, kv : GoodKv, found : Seq(PlacedUb), undo : Seq(UndoType)] :
                 \A n \in DOMAIN a.undo : Undoable(a.kv, a.undo[n])}

(* A trial can still be undone after another. *)
LEMMA FromUndoable ==
    ASSUME NEW k, NEW x \in From(k), NEW u \in UndoType, Undoable(k, u)
    PROVE  Undoable(x, u)
<1>1. \A j \in DOMAIN u.ub : u.ub[j] \in Slotted
  BY DEF UndoType, PlacedUb
<1> QED BY <1>1, FromRested DEF Undoable

TryOp(par, ub, a) == TryOne(a, ub)
UndoGroupOp(u, j, a) == LET g == u.ub[j] IN
                        Put(a, g.strm, Set(a.cells[g.strm], g.idxs, u.saved[j]), u.head[j - 1])
UndoOp(par, u, a) == UndoOne(a, u)
TryIn == INSTANCE FoldInduction WITH Op <- TryOp
UndoGroupIn == INSTANCE FoldInduction WITH Op <- UndoGroupOp
UndoIn == INSTANCE FoldInduction WITH Op <- UndoOp

(* A ubatch whose groups all found a slot. *)
LEMMA WithSlotIs ==
    ASSUME NEW k \in GoodKv, NEW ub \in UbType, SlotFound(WithSlot(k, ub))
    PROVE  WithSlot(k, ub) \in PlacedUb /\ DOMAIN WithSlot(k, ub) = DOMAIN ub
<1> DEFINE u == WithSlot(k, ub)
           n == Len(ub)
<1>1. n \in Nat /\ n <= NSeq /\ DOMAIN ub = 1 .. n /\ \A j \in 1 .. n : ub[j] \in GroupType
  BY Indexes DEF UbType
<1>2. DOMAIN u = 1 .. n
  BY <1>1 DEF WithSlot
<1>3. ASSUME NEW j \in 1 .. n PROVE u[j] \in Slotted
  <2> DEFINE f == FindSlot(mode.swa, k.cells[ub[j].strm], k.head[ub[j].strm], Len(ub[j].toks))
  <2>1. ub[j] \in GroupType /\ ub[j].strm \in Seqs /\ ub[j].toks \in Seq(TokType)
    BY <1>1, <1>3 DEF GroupType
  <2>2. u[j] = [ub[j] EXCEPT !.idxs = f]
    BY <1>1, <1>3 DEF WithSlot
  <2>3. k.head[ub[j].strm] \in 0 .. Size /\ Len(ub[j].toks) \in Nat
    BY <2>1 DEF GoodKv, KvType
  <2>4. f \in Seq(Idx) /\ (f # << >> => Len(f) = Len(ub[j].toks))
    <3> HIDE DEF n, u
    <3> QED BY <2>3, FindSlotIs
  <2> HIDE DEF f
  <2>5. u[j] \in GroupType /\ u[j].idxs = f /\ u[j].toks = ub[j].toks
    BY <2>1, <2>2, <2>4 DEF GroupType
  <2>6. u[j].idxs # << >>
    BY <1>2, <1>3 DEF SlotFound
  <2> QED BY <2>4, <2>5, <2>6 DEF Slotted
<1> HIDE DEF u
<1>4. u \in Seq(Slotted) /\ Len(u) = n
  <2>1. u = [j \in 1 .. n |-> u[j]]
    BY <1>2 DEF u, WithSlot
  <2> QED BY <1>1, <1>3, <2>1
<1> QED BY <1>1, <1>2, <1>4 DEF PlacedUb, u

(* cp *)
LEMMA CpIs ==
    ASSUME NEW c, Good(c), NEW idxs \in Seq(Idx)
    PROVE  Cp(c, idxs) \in Seq(OldCell) /\ DOMAIN Cp(c, idxs) = DOMAIN idxs
<1>1. Len(idxs) \in Nat /\ DOMAIN idxs = 1 .. Len(idxs) /\ \A j \in 1 .. Len(idxs) : idxs[j] \in Idx
  BY Indexes
<1>2. \A i \in Idx : [pos |-> c.pos[i], seq |-> c.seq[i]] \in OldCell
  <2> SUFFICES ASSUME NEW i \in Idx PROVE [pos |-> c.pos[i], seq |-> c.seq[i]] \in OldCell
    OBVIOUS
  <2>1. c.pos[i] \in {-1} \cup Pos /\ c.seq[i] \in SUBSET Seqs /\ ((c.seq[i] = {}) <=> (c.pos[i] = -1))
    BY DEF Good, CellsType, Views
  <2> QED BY <2>1 DEF OldCell
<1>3. \A j \in 1 .. Len(idxs) : [pos |-> c.pos[idxs[j]], seq |-> c.seq[idxs[j]]] \in OldCell
  BY <1>1, <1>2
<1> QED BY <1>1, <1>3 DEF Cp

(* A slot changes no token. *)
LEMMA WithSlotTokens ==
    ASSUME NEW k, NEW ub \in UbType
    PROVE  TokensOf(WithSlot(k, ub)) = TokensOf(ub)
<1> DEFINE w == WithSlot(k, ub)
           F(j) == FindSlot(mode.swa, k.cells[ub[j].strm], k.head[ub[j].strm], Len(ub[j].toks))
<1>1. \A j \in DOMAIN ub : ub[j] \in GroupType
  BY DEF UbType
<1>2. w = [j \in DOMAIN ub |-> [ub[j] EXCEPT !.idxs = F(j)]]
  BY DEF WithSlot
<1> HIDE DEF F, w
<1>3. DOMAIN w = DOMAIN ub
  BY <1>2
<1>4. \A j \in DOMAIN ub : w[j].toks = ub[j].toks
  BY <1>1, <1>2 DEF GroupType
<1>5. TokensOf(w) = TokensOf(ub)
  BY <1>3, <1>4 DEF TokensOf
<1> QED BY <1>5 DEF w

\* f has the tokens of the first m ubatches.
SameTokens(f, ubs, m) == Len(f) = m /\ \A i \in 1 .. m : TokensOf(f[i]) = TokensOf(ubs[i])

(* One ubatch of prepare's loop. *)
LEMMA TryOneIs ==
    ASSUME NEW a \in TrialType, NEW ub \in UbType, NEW x, x = TryOne(a, ub)
    PROVE  /\ x \in TrialType
           /\ x.ok => a.ok /\ \E u \in PlacedUb : x.found = Append(a.found, u) /\ TokensOf(u) = TokensOf(ub)
<1> DEFINE u == WithSlot(a.kv, ub)
           y == ApplyUbatch(a.kv, u)
           sv == [j \in DOMAIN u |-> Cp(a.kv.cells[u[j].strm], u[j].idxs)]
           one == [ub |-> u, head |-> a.kv.head, saved |-> sv]
<1>0. /\ a.kv \in GoodKv /\ a.found \in Seq(PlacedUb) /\ a.undo \in Seq(UndoType)
      /\ \A n \in DOMAIN a.undo : Undoable(a.kv, a.undo[n])
  BY DEF TrialType
<1>1. CASE ~a.ok \/ ~SlotFound(u)
  <2>1. x = [a EXCEPT !.ok = FALSE]
    BY <1>1 DEF TryOne
  <2>2. x \in TrialType /\ ~x.ok
    BY <2>1 DEF TrialType
  <2> QED BY <2>2
<1>2. CASE a.ok /\ SlotFound(u)
  <2>1. x = [ok |-> TRUE, kv |-> y, found |-> Append(a.found, u), undo |-> Append(a.undo, one)]
    BY <1>2 DEF TryOne
  <2>2. u \in PlacedUb /\ TokensOf(u) = TokensOf(ub)
    BY <1>0, <1>2, WithSlotIs, WithSlotTokens
  <2> HIDE DEF u
  <2>3. y \in From(a.kv) /\ y \in GoodKv /\ \A j \in DOMAIN u : Rested(y, u[j])
    <3> HIDE DEF y
    <3> QED BY <1>0, <2>2, ApplyUbatchGood, FromFrom DEF y
  <2>4. Len(u) \in Nat /\ DOMAIN u = 1 .. Len(u) /\ \A j \in 1 .. Len(u) : u[j] \in Slotted
    BY <2>2, Indexes DEF PlacedUb
  <2>5. \A j \in 1 .. Len(u) : /\ Cp(a.kv.cells[u[j].strm], u[j].idxs) \in Seq(OldCell)
                               /\ DOMAIN Cp(a.kv.cells[u[j].strm], u[j].idxs) = DOMAIN u[j].idxs
    <3> SUFFICES ASSUME NEW j \in 1 .. Len(u)
                 PROVE  /\ Cp(a.kv.cells[u[j].strm], u[j].idxs) \in Seq(OldCell)
                        /\ DOMAIN Cp(a.kv.cells[u[j].strm], u[j].idxs) = DOMAIN u[j].idxs
      OBVIOUS
    <3>1. u[j].strm \in Seqs /\ u[j].idxs \in Seq(Idx)
      BY <2>4 DEF Slotted, GroupType
    <3>2. Good(a.kv.cells[u[j].strm])
      BY <1>0, <3>1 DEF GoodKv, KvGood
    <3> QED BY <3>1, <3>2, CpIs
  <2>6. sv \in Seq(Seq(OldCell)) /\ DOMAIN sv = DOMAIN u /\ \A j \in DOMAIN u : DOMAIN sv[j] = DOMAIN u[j].idxs
    BY <2>4, <2>5
  <2> HIDE DEF sv, y
  <2>7. one \in UndoType
    <3>1. a.kv.head \in [Seqs -> 0 .. Size]
      BY <1>0 DEF GoodKv, KvType
    <3> QED BY <2>2, <2>6, <3>1 DEF UndoType
  <2>u. Undoable(y, one)
    BY <2>3 DEF Undoable
  <2> HIDE DEF one
  <2> DEFINE F == Append(a.found, u)
             U == Append(a.undo, one)
  <2>8. F \in Seq(PlacedUb) /\ U \in Seq(UndoType)
    BY <1>0, <2>2, <2>7
  <2> HIDE DEF F, U
  <2>9. x = [ok |-> TRUE, kv |-> y, found |-> F, undo |-> U]
    BY <2>1 DEF F, U
  <2>o. \A n \in DOMAIN U : Undoable(y, U[n])
    <3> SUFFICES ASSUME NEW n \in DOMAIN U PROVE Undoable(y, U[n])
      OBVIOUS
    <3>1. U[n] = one \/ (n \in DOMAIN a.undo /\ U[n] = a.undo[n] /\ a.undo[n] \in UndoType)
      BY <1>0, <2>7 DEF U
    <3>2. CASE U[n] = one
      BY <2>u, <3>2
    <3>3. CASE n \in DOMAIN a.undo /\ U[n] = a.undo[n] /\ a.undo[n] \in UndoType
      BY <1>0, <2>3, <3>3, FromUndoable
    <3> QED BY <3>1, <3>2, <3>3
  <2>10. x \in TrialType /\ x.found = F
    BY ONLY <2>9, <2>3, <2>8, <2>o DEF TrialType
  <2> QED BY <1>2, <2>2, <2>10 DEF F
<1> QED BY <1>1, <1>2

(* The trial of one ubatch is undone. *)
LEMMA UndoOneGood ==
    ASSUME NEW k \in GoodKv, NEW u \in UndoType, Undoable(k, u), NEW x, x = UndoOne(k, u)
    PROVE  x \in From(k)
<1> DEFINE n == Len(u.ub)
           js == [j \in DOMAIN u.ub |-> j]
           J == [m \in 0 .. n |-> From(k)]
<1>0. u.ub \in Seq(Slotted) /\ Len(u.ub) <= NSeq /\ u.head \in [Seqs -> 0 .. Size]
  BY DEF UndoType, PlacedUb
<1>1. /\ n \in Nat /\ DOMAIN js = 1 .. n /\ DOMAIN u.ub = 1 .. n
      /\ \A j \in 1 .. n : js[j] = j /\ u.ub[j] \in Slotted
  BY <1>0, Indexes
<1>2. k \in J[0]
  BY <1>1, FromSelf
<1>3. ASSUME NEW j \in 1 .. n, NEW a \in J[j - 1]
      PROVE  UndoGroupOp(u, js[j], a) \in J[j]
  <2> DEFINE g == u.ub[j]
             d == Set(a.cells[g.strm], g.idxs, u.saved[j])
             y == Put(a, g.strm, d, u.head[j - 1])
  <2>1. a \in From(k) /\ j \in 0 .. n /\ j - 1 \in Seqs
    BY <1>0, <1>1, <1>3, Sizes DEF Seqs
  <2>2. js[j] = j /\ g \in Slotted
    <3> HIDE DEF js, n
    <3> QED BY <1>1
  <2>3. UndoGroupOp(u, js[j], a) = y
    <3> HIDE DEF js
    <3> QED BY <2>2 DEF UndoGroupOp
  <2>4. g.strm \in Seqs /\ g.idxs \in Seq(Idx) /\ u.head[j - 1] \in 0 .. Size
    BY <1>0, <2>1, <2>2 DEF Slotted, GroupType
  <2>5. \A m \in DOMAIN g.idxs : u.saved[j][m] \in OldCell
    <3>1. u.saved \in Seq(Seq(OldCell)) /\ j \in DOMAIN u.saved /\ DOMAIN u.saved[j] = DOMAIN u.ub[j].idxs
      BY <1>1, <1>3 DEF UndoType
    <3>2. u.saved[j] \in Seq(OldCell)
      BY <3>1
    <3> QED BY <3>1, <3>2
  <2>6. KvGood(a) /\ Good(a.cells[g.strm])
    BY <2>1, <2>4 DEF From, KvGood
  <2>r. \A m \in DOMAIN g.idxs : a.cells[g.strm].shift[g.idxs[m]] = 0
    <3>1. Rested(k, g)
      BY <1>1, <1>3 DEF Undoable
    <3> HIDE DEF g, n, js, J
    <3>2. Rested(a, g)
      BY <2>1, <2>2, <3>1, FromRested
    <3> QED BY <3>2 DEF Rested
  <2> HIDE DEF g, n, js, J
  <2>7. Good(d) /\ Calmer(a.cells[g.strm], d)
    <3> HIDE DEF d
    <3> QED BY <2>4, <2>5, <2>6, <2>r, SetGood DEF d
  <2> HIDE DEF d
  <2>8. KvGood(y) /\ Calms(a, y)
    <3> HIDE DEF y
    <3> QED BY <2>4, <2>6, <2>7, PutGood DEF y
  <2> HIDE DEF y
  <2>9. y \in From(k)
    <3>1. y \in From(a)
      BY <2>8 DEF From, KvGood
    <3> QED BY <2>1, <3>1, FromFrom
  <2> QED BY <2>1, <2>3, <2>9 DEF J
<1>4. UndoGroupIn!LeftFold(u, k, js) \in J[n]
  <2>1. \A j \in 1 .. n : \A a \in J[j - 1] : UndoGroupOp(u, js[j], a) \in J[j]
    BY <1>3
  <2> HIDE DEF J, js, n
  <2>r. UndoGroupIn!WellOrdered /\ UndoGroupIn!Ranked(1 .. n)
    <3>1. IsFiniteSet(1 .. n)
      BY <1>1, FS_Interval
    <3> QED BY Zenon, <3>1, LeastNatural, FiniteRanks DEF UndoGroupIn!WellOrdered, UndoGroupIn!Ranked
  <2> QED BY ONLY <1>1, <1>2, <2>1, <2>r, UndoGroupIn!FoldLeftInduction
<1>5. x = UndoGroupIn!LeftFold(u, k, js)
  BY Zenon DEF UndoOne, UndoGroupIn!LeftFold, UndoGroupOp, FoldLeft, MapThenFoldSet,
         UndoGroupIn!MapThenFoldSet, Max, UndoGroupIn!Top
<1> QED BY <1>1, <1>4, <1>5

(* prepare: it finds slots, and what it undoes is as good as before. *)
LEMMA PrepareGood ==
    ASSUME NEW k \in GoodKv, NEW ubs \in Seq(UbType)
    PROVE  /\ Prepare(k, ubs).kv \in GoodKv /\ Prepare(k, ubs).found \in Seq(PlacedUb)
           /\ Prepare(k, ubs).ok \in BOOLEAN
           /\ Prepare(k, ubs).ok => SameTokens(Prepare(k, ubs).found, ubs, Len(ubs))
<1> DEFINE n == Len(ubs)
           base == [ok |-> TRUE, kv |-> k, found |-> << >>, undo |-> << >>]
           J == [m \in 0 .. n |-> {a \in TrialType : a.ok => SameTokens(a.found, ubs, m)}]
           t == TryIn!LeftFold(0, base, ubs)
<1>1. n \in Nat /\ DOMAIN ubs = 1 .. n /\ \A j \in 1 .. n : ubs[j] \in UbType
  BY Indexes
<1>2. base \in J[0]
  <2>1. base \in TrialType /\ base.found = << >>
    BY DEF TrialType
  <2> HIDE DEF base
  <2>2. SameTokens(base.found, ubs, 0)
    BY <2>1 DEF SameTokens
  <2> QED BY <1>1, <2>1, <2>2
<1>3. ASSUME NEW j \in 1 .. n, NEW a \in J[j - 1]
      PROVE  TryOp(0, ubs[j], a) \in J[j]
  <2>1. a \in TrialType /\ ubs[j] \in UbType /\ j \in 0 .. n /\ (a.ok => SameTokens(a.found, ubs, j - 1))
    <3>1. j - 1 \in 0 .. n /\ j \in 0 .. n
      BY <1>1
    <3> HIDE DEF n
    <3> QED BY <1>1, <1>3, <3>1
  <2> DEFINE x == TryOp(0, ubs[j], a)
  <2>a. /\ x \in TrialType
        /\ x.ok => a.ok /\ \E u \in PlacedUb : x.found = Append(a.found, u) /\ TokensOf(u) = TokensOf(ubs[j])
    <3> HIDE DEF n, J
    <3> QED BY <2>1, TryOneIs DEF TryOp
  <2> HIDE DEF x
  <2>2. x \in TrialType /\ (x.ok => SameTokens(x.found, ubs, j))
    <3> SUFFICES ASSUME x.ok PROVE SameTokens(x.found, ubs, j)
      BY <2>a
    <3> DEFINE f == a.found
    <3>1. PICK u \in PlacedUb : x.found = Append(f, u) /\ TokensOf(u) = TokensOf(ubs[j])
      BY <2>a
    <3>2. f \in Seq(PlacedUb) /\ SameTokens(f, ubs, j - 1) /\ j \in Nat
      BY <1>1, <2>1, <2>a DEF TrialType
    <3> HIDE DEF f
    <3>3. Len(f) = j - 1 /\ Len(Append(f, u)) = j /\ Append(f, u)[j] = u
          /\ \A i \in 1 .. j - 1 : Append(f, u)[i] = f[i] /\ TokensOf(f[i]) = TokensOf(ubs[i])
      <4>1. Len(f) = j - 1 /\ \A i \in 1 .. j - 1 : TokensOf(f[i]) = TokensOf(ubs[i])
        BY ONLY <3>2 DEF SameTokens
      <4>2. Len(Append(f, u)) = Len(f) + 1 /\ Append(f, u)[Len(f) + 1] = u /\ \A i \in 1 .. Len(f) : Append(f, u)[i] = f[i]
        BY ONLY <3>2
      <4> QED BY ONLY <3>2, <4>1, <4>2
    <3>4. ASSUME NEW i \in 1 .. j PROVE TokensOf(Append(f, u)[i]) = TokensOf(ubs[i])
      <4>1. i = j \/ i \in 1 .. j - 1
        BY <3>2
      <4> QED BY <3>1, <3>3, <4>1
    <3> QED BY <3>1, <3>3, <3>4 DEF SameTokens
  <2>3. x \in J[j]
    BY <2>1, <2>2
  <2> QED BY <2>3 DEF x
<1>4. t \in TrialType /\ (t.ok => SameTokens(t.found, ubs, n))
  <2>1. \A j \in 1 .. n : \A a \in J[j - 1] : TryOp(0, ubs[j], a) \in J[j]
    BY <1>3
  <2>2. t \in J[n]
    <3> HIDE DEF J, n, base
    <3>r. TryIn!WellOrdered /\ TryIn!Ranked(1 .. n)
      <4>1. IsFiniteSet(1 .. n)
        BY <1>1, FS_Interval
      <4> QED BY <4>1, LeastNatural, FiniteRanks DEF TryIn!WellOrdered, TryIn!Ranked
    <3> QED BY ONLY <1>1, <1>2, <2>1, <3>r, TryIn!FoldLeftInduction
  <2> HIDE DEF t
  <2> QED BY <1>1, <2>2
<1> DEFINE w == FoldLeft(TryOne, base, ubs)
           r == Reverse(t.undo)
           m == Len(t.undo)
           K == [i \in 0 .. m |-> From(t.kv)]
           z == UndoIn!LeftFold(0, t.kv, r)
<1>5. w = t
  BY DEF TryIn!LeftFold, TryOp, FoldLeft, MapThenFoldSet, TryIn!MapThenFoldSet, Max, TryIn!Top
<1> HIDE DEF t
<1>6. t.kv \in GoodKv /\ t.undo \in Seq(UndoType) /\ t.found \in Seq(PlacedUb) /\ t.ok \in BOOLEAN
  BY <1>4 DEF TrialType
<1>7. /\ m \in Nat /\ DOMAIN r = 1 .. m
      /\ \A j \in 1 .. m : r[j] \in UndoType /\ Undoable(t.kv, r[j])
  <2>1. /\ m \in Nat /\ DOMAIN t.undo = 1 .. m
        /\ \A j \in 1 .. m : t.undo[j] \in UndoType /\ Undoable(t.kv, t.undo[j])
    <3>1. m \in Nat /\ DOMAIN t.undo = 1 .. m /\ \A j \in 1 .. m : t.undo[j] \in UndoType
      BY <1>6, Indexes
    <3>2. \A j \in DOMAIN t.undo : Undoable(t.kv, t.undo[j])
      BY <1>4 DEF TrialType
    <3> QED BY <3>1, <3>2
  <2> HIDE DEF m
  <2>2. r = [i \in 1 .. m |-> t.undo[(m - i) + 1]]
    BY DEF Reverse, m
  <2>3. \A i \in 1 .. m : (m - i) + 1 \in 1 .. m
    BY <2>1
  <2> QED BY <2>1, <2>2, <2>3
<1> HIDE DEF r, m
<1>8. t.kv \in K[0]
  BY <1>6, <1>7, FromSelf
<1>9. ASSUME NEW j \in 1 .. m, NEW a \in K[j - 1]
      PROVE  UndoOp(0, r[j], a) \in K[j]
  <2>1. a \in From(t.kv) /\ a \in GoodKv /\ r[j] \in UndoType /\ Undoable(t.kv, r[j]) /\ j \in 0 .. m
    BY <1>7, <1>9, FromFrom
  <2>2. UndoOp(0, r[j], a) \in From(t.kv)
    <3> HIDE DEF K
    <3>1. Undoable(a, r[j])
      BY <2>1, FromUndoable
    <3>2. UndoOp(0, r[j], a) \in From(a)
      BY <2>1, <3>1, UndoOneGood DEF UndoOp
    <3> QED BY <2>1, <3>2, FromFrom
  <2> QED BY <2>1, <2>2
<1>10. z \in GoodKv
  <2>1. \A j \in 1 .. m : \A a \in K[j - 1] : UndoOp(0, r[j], a) \in K[j]
    BY <1>9
  <2>2. z \in K[m]
    <3> HIDE DEF K
    <3>r. UndoIn!WellOrdered /\ UndoIn!Ranked(1 .. m)
      <4>1. IsFiniteSet(1 .. m)
        BY <1>7, FS_Interval
      <4> QED BY <4>1, LeastNatural, FiniteRanks DEF UndoIn!WellOrdered, UndoIn!Ranked
    <3> QED BY ONLY <1>7, <1>8, <2>1, <3>r, UndoIn!FoldLeftInduction
  <2> HIDE DEF z
  <2> QED BY <1>7, <2>2, FromFrom
<1>11. FoldLeft(UndoOne, t.kv, r) = z
  BY DEF UndoIn!LeftFold, UndoOp, FoldLeft, MapThenFoldSet, UndoIn!MapThenFoldSet, Max, UndoIn!Top
<1>12. Prepare(k, ubs) = [ok |-> w.ok, found |-> w.found, kv |-> FoldLeft(UndoOne, w.kv, Reverse(w.undo))]
  BY DEF Prepare
<1> HIDE DEF w, z
<1>13. FoldLeft(UndoOne, w.kv, Reverse(w.undo)) = z
  BY <1>5, <1>11 DEF r
<1> DEFINE y == FoldLeft(UndoOne, w.kv, Reverse(w.undo))
<1>14. Prepare(k, ubs) = [ok |-> t.ok, found |-> t.found, kv |-> z]
  <2> HIDE DEF y
  <2> QED BY <1>5, <1>12, <1>13 DEF y
<1> HIDE DEF y, n
<1> QED BY ONLY <1>4, <1>6, <1>10, <1>14 DEF n

-----------------------------------------------------------------------------
(* decode: the update, the batch and its split into ubatches. *)

RetractOp(ub, s, a) == SeqRm(a, Strm(s), s, Min({t.p : t \in {x \in TokensOf(ub) : x.s = s}}), -1)
BatchOp(n, s, a) == a \o [j \in 1 .. n[s] |-> [s |-> s, p |-> Len(hist[s]) + j - 1]]
JoinOp(par, t, a) == IF a = << >> \/ t.s = Last(a) + 1 THEN Append(a, t.s) ELSE a
MoreOp(par, t, a) == IF a.left = << >> THEN a
                     ELSE [left |-> Only(a.left, Range(a.left) \ TokensOf(TakeEqual(a.left))),
                           ubs  |-> Append(a.ubs, TakeEqual(a.left))]
RetractIn == INSTANCE FoldInduction WITH Op <- RetractOp
BatchIn == INSTANCE FoldInduction WITH Op <- BatchOp
JoinIn == INSTANCE FoldInduction WITH Op <- JoinOp
MoreIn == INSTANCE FoldInduction WITH Op <- MoreOp

(* The stream of a sequence. *)
LEMMA StrmIn == \A s \in Seqs : Strm(s) \in Seqs
BY Sizes DEF Strm, Seqs

(* The tokens of a ubatch. *)
LEMMA TokensIn ==
    ASSUME NEW ub \in UbType
    PROVE  TokensOf(ub) \subseteq TokType
<1>1. \A j \in DOMAIN ub : ub[j] \in GroupType
  BY DEF UbType
<1>2. \A j \in DOMAIN ub : ub[j].toks \in Seq(TokType)
  BY <1>1 DEF GroupType
<1>3. \A j \in DOMAIN ub : Range(ub[j].toks) \subseteq TokType
  BY <1>2 DEF Range
<1> QED BY <1>3 DEF TokensOf

(* A placed ubatch is a ubatch. *)
LEMMA PlacedIsUb == PlacedUb \subseteq UbType
BY DEF PlacedUb, UbType, Slotted

(* The positions of a ubatch that failed are removed. *)
LEMMA RetractGood ==
    ASSUME NEW k \in GoodKv, NEW ub \in UbType, NEW x, x = Retract(k, ub)
    PROVE  x \in GoodKv
<1> DEFINE S == {t.s : t \in TokensOf(ub)}
           J == [T \in SUBSET S |-> GoodKv]
<1>1. S \subseteq Seqs
  BY TokensIn DEF TokType
<1>2. k \in J[{}]
  OBVIOUS
<1> HIDE DEF S
<1>3. ASSUME NEW T \in SUBSET S, NEW s \in S \ T, NEW a \in J[T]
      PROVE  RetractOp(ub, s, a) \in J[T \cup {s}]
  <2> DEFINE y == RetractOp(ub, s, a)
  <2>1. a \in GoodKv /\ s \in Seqs /\ Strm(s) \in Seqs /\ T \cup {s} \in SUBSET S
    BY <1>1, <1>3, StrmIn
  <2>2. KvGood(a)
    BY <2>1 DEF GoodKv
  <2>3. KvGood(y)
    <3>1. y = SeqRm(a, Strm(s), s, Min({t.p : t \in {z \in TokensOf(ub) : z.s = s}}), -1)
      BY DEF RetractOp
    <3> HIDE DEF y, J
    <3> QED BY <2>1, <2>2, <3>1, SeqRmGood
  <2> HIDE DEF y
  <2>4. y \in GoodKv
    BY <2>3 DEF GoodKv, KvGood
  <2> QED BY <2>1, <2>4 DEF y
<1>4. RetractIn!SetFold(ub, k, S) \in J[S]
  <2>1. RetractIn!WellOrdered /\ RetractIn!Ranked(S)
    <3>1. IsFiniteSet(S)
      BY <1>1, SeqSetsFinite
    <3> QED BY <3>1, LeastNatural, FiniteRanks DEF RetractIn!WellOrdered, RetractIn!Ranked
  <2>2. \A T \in SUBSET S : \A s \in S \ T : \A a \in J[T] : RetractOp(ub, s, a) \in J[T \cup {s}]
    BY Zenon, <1>3
  <2> HIDE DEF J
  <2> QED BY ONLY <2>1, <2>2, <1>2, RetractIn!FoldSetInduction
<1>5. x = RetractIn!SetFold(ub, k, S)
  BY DEF Retract, S, RetractIn!SetFold, RetractOp, FoldSet, MapThenFoldSet, RetractIn!MapThenFoldSet
<1> QED BY <1>4, <1>5

(* The K-shift, whether it succeeds or fails. *)
LEMMA KShiftGood ==
    ASSUME NEW k, KvGood(k), NEW d, NEW u \in KShift(d, k)
    PROVE  u.kv \in GoodKv
<1>0. k \in KvType /\ k.cells \in [Seqs -> CellsType] /\ k \in GoodKv
  BY DEF KvGood, KvType, GoodKv
<1> DEFINE C == [s \in Seqs |-> ResetShift(k.cells[s])]
           x == [k EXCEPT !.cells = C]
<1>1. u.kv = k \/ u.kv = x
  BY DEF KShift
<1>2. \A s \in Seqs : Good(C[s]) /\ C[s] \in CellsType
  <2> SUFFICES ASSUME NEW s \in Seqs PROVE Good(C[s]) /\ C[s] \in CellsType
    OBVIOUS
  <2>1. Good(k.cells[s])
    BY DEF KvGood
  <2>2. Good(ResetShift(k.cells[s]))
    BY <2>1, ResetShiftGood
  <2> QED BY <2>2 DEF Good
<1>3. C \in [Seqs -> CellsType]
  BY <1>2
<1> HIDE DEF C
<1>4. x \in KvType /\ x.cells = C
  BY <1>0, <1>3 DEF KvType
<1> HIDE DEF x
<1>5. x \in GoodKv
  BY <1>2, <1>4 DEF GoodKv, KvGood
<1> QED BY <1>0, <1>1, <1>5

\* The text of every sequence is a sequence.
Texted(h) == h = [s \in Seqs |-> h[s]] /\ \A s \in Seqs : \E V : h[s] \in Seq(V)
Texts == Texted(hist)

\* What a batch may add to the texts; no token of a batch occurs twice.
Fresh == {t \in TokType : Len(hist[t.s]) <= t.p /\ t.p < mode.text}
Distinct(b) == \A i, j \in DOMAIN b : b[i] = b[j] => i = j
NoCommon(a, q) == \A i \in DOMAIN a, j \in DOMAIN q : a[i] # q[j]
FromEither(r, a, q) == \A i \in DOMAIN r : (\E j \in DOMAIN a : r[i] = a[j]) \/ (\E j \in DOMAIN q : r[i] = q[j])

(* The remainder of a number below twice the divisor. *)
LEMMA ModIs ==
    ASSUME NEW N \in Nat \ {0}, NEW x \in Nat, x < 2 * N
    PROVE  x % N = IF x < N THEN x ELSE x - N
OBVIOUS

(* Two sequences with different elements, one behind the other. *)
LEMMA ConcatIs ==
    ASSUME NEW X, NEW a \in Seq(X), NEW q \in Seq(X), Distinct(a), Distinct(q), NoCommon(a, q)
    PROVE  a \o q \in Seq(X) /\ Distinct(a \o q) /\ FromEither(a \o q, a, q)
<1> DEFINE r == a \o q
           m == Len(a)
           n == Len(q)
<1>1. /\ m \in Nat /\ n \in Nat /\ DOMAIN a = 1 .. m /\ DOMAIN q = 1 .. n /\ DOMAIN r = 1 .. m + n
      /\ r \in Seq(X)
  BY ONLY a \in Seq(X), q \in Seq(X)
<1>2. (\A i \in 1 .. m : r[i] = a[i]) /\ (\A i \in 1 .. m + n : i > m => r[i] = q[i - m])
  BY ONLY a \in Seq(X), q \in Seq(X)
<1> HIDE DEF r, m, n
<1>3. \A i \in 1 .. m + n : i <= m => i \in DOMAIN a /\ r[i] = a[i]
  BY <1>1, <1>2
<1>4. \A i \in 1 .. m + n : i > m => i - m \in DOMAIN q /\ r[i] = q[i - m]
  BY <1>1, <1>2
<1>5. ASSUME NEW i \in DOMAIN r, NEW j \in DOMAIN r, r[i] = r[j] PROVE i = j
  <2>1. i \in 1 .. m + n /\ j \in 1 .. m + n
    BY <1>1
  <2>2. CASE i <= m /\ j <= m
    BY <1>3, <1>5, <2>1, <2>2 DEF Distinct
  <2>3. CASE i > m /\ j > m
    <3>1. i - m \in DOMAIN q /\ j - m \in DOMAIN q /\ q[i - m] = q[j - m]
      BY <1>4, <1>5, <2>1, <2>3
    <3>2. i - m = j - m
      BY <3>1 DEF Distinct
    <3> QED BY <1>1, <2>1, <3>2
  <2>4. CASE i <= m /\ j > m
    BY <1>3, <1>4, <1>5, <2>1, <2>4 DEF NoCommon
  <2>5. CASE i > m /\ j <= m
    BY <1>3, <1>4, <1>5, <2>1, <2>5 DEF NoCommon
  <2> QED BY <1>1, <2>1, <2>2, <2>3, <2>4, <2>5
<1>6. Distinct(r)
  BY <1>5 DEF Distinct
<1>7. FromEither(r, a, q)
  <2> SUFFICES ASSUME NEW i \in DOMAIN r PROVE (\E j \in DOMAIN a : r[i] = a[j]) \/ (\E j \in DOMAIN q : r[i] = q[j])
    BY DEF FromEither
  <2>1. i \in 1 .. m + n /\ (i <= m \/ i > m)
    BY <1>1
  <2> QED BY <1>3, <1>4, <2>1
<1> QED BY <1>1, <1>6, <1>7 DEF r

(* The tokens of a batch are new, and all of them are different. *)
LEMMA BatchIs ==
    ASSUME Texts, mode \in Modes, NEW b \in Batches
    PROVE  b \in Seq(TokType) /\ Distinct(b) /\ \A i \in DOMAIN b : b[i] \in Fresh
<1>1. PICK f \in Seqs, n \in [Seqs -> 0 .. MaxTok] :
         b = BatchOf(n, f) /\ \A s \in Seqs : Len(hist[s]) + n[s] <= mode.text
  BY DEF Batches
<1> DEFINE order == [k \in 1 .. NSeq |-> (f + k - 1) % NSeq]
           In(a, m) == \A i \in DOMAIN a : a[i] \in Fresh /\ \E l \in 1 .. m : a[i].s = order[l]
           J == [m \in 0 .. NSeq |-> {a \in Seq(TokType) : Distinct(a) /\ In(a, m)}]
<1>2. NSeq \in Nat /\ DOMAIN order = 1 .. NSeq /\ \A m \in 1 .. NSeq : order[m] \in Seqs
  <2>1. f \in Nat /\ NSeq \in Nat \ {0}
    BY Sizes
  <2>2. \A m \in 1 .. NSeq : (f + m - 1) % NSeq \in 0 .. NSeq - 1
    BY <2>1
  <2> QED BY <2>1, <2>2 DEF Seqs
<1>o. \A m, l \in 1 .. NSeq : order[m] = order[l] => m = l
  <2> SUFFICES ASSUME NEW m \in 1 .. NSeq, NEW l \in 1 .. NSeq, order[m] = order[l] PROVE m = l
    OBVIOUS
  <2> DEFINE x == f + m - 1
             y == f + l - 1
  <2>1. NSeq \in Nat \ {0} /\ f \in Nat /\ f < NSeq
    BY Sizes DEF Seqs
  <2>2. x \in Nat /\ y \in Nat /\ x < 2 * NSeq /\ y < 2 * NSeq
    BY <2>1
  <2>3. x % NSeq = y % NSeq
    OBVIOUS
  <2> HIDE DEF x, y
  <2>4. /\ x % NSeq = IF x < NSeq THEN x ELSE x - NSeq
        /\ y % NSeq = IF y < NSeq THEN y ELSE y - NSeq
    BY ONLY <2>1, <2>2, ModIs
  <2>5. x = y \/ x = y + NSeq \/ y = x + NSeq
    BY ONLY <2>1, <2>2, <2>3, <2>4
  <2> QED BY ONLY <2>1, <2>5, m \in 1 .. NSeq, l \in 1 .. NSeq DEF x, y
<1> DEFINE q(s) == [j \in 1 .. n[s] |-> [s |-> s, p |-> Len(hist[s]) + j - 1]]
<1>3. ASSUME NEW s \in Seqs
      PROVE  q(s) \in Seq(TokType) /\ Distinct(q(s)) /\ \A i \in DOMAIN q(s) : q(s)[i] \in Fresh /\ q(s)[i].s = s
  <2>1. /\ n[s] \in Nat /\ Len(hist[s]) \in Nat /\ Len(hist[s]) + n[s] <= mode.text
        /\ mode.text \in Nat /\ mode.text <= MaxPos + 1
    <3>1. mode.text \in 0 .. MaxPos + 1 /\ MaxPos \in Nat
      BY CallerAssumption, Sizes
    <3>2. n[s] \in Nat
      BY CallerAssumption
    <3>3. Len(hist[s]) \in Nat
      BY DEF Texts, Texted
    <3> QED BY <1>1, <3>1, <3>2, <3>3
  <2> DEFINE L == Len(hist[s])
             T(j) == [s |-> s, p |-> L + j - 1]
  <2>2. \A j \in 1 .. n[s] : L + j - 1 \in Pos /\ L <= L + j - 1 /\ L + j - 1 < mode.text
    <3> HIDE DEF L
    <3>1. L \in Nat /\ L + n[s] <= mode.text
      BY <2>1 DEF L
    <3> QED BY <2>1, <3>1, Sizes DEF Pos
  <2>3. \A j \in 1 .. n[s] : T(j) \in Fresh /\ T(j).s = s /\ T(j) \in TokType /\ T(j).p = L + j - 1
    BY <2>2 DEF TokType, Fresh
  <2>4. L \in Int
    BY <2>1
  <2> HIDE DEF L
  <2>5. q(s) = [j \in 1 .. n[s] |-> T(j)]
    BY DEF L
  <2> HIDE DEF q, T
  <2>6. q(s) \in Seq(TokType) /\ DOMAIN q(s) = 1 .. n[s] /\ \A j \in 1 .. n[s] : q(s)[j] = T(j)
    BY <2>1, <2>3, <2>5
  <2>7. Distinct(q(s))
    <3> SUFFICES ASSUME NEW i \in 1 .. n[s], NEW j \in 1 .. n[s], T(i) = T(j) PROVE i = j
      BY <2>6 DEF Distinct
    <3>1. L + i - 1 = L + j - 1
      BY <2>3
    <3> QED BY <2>4, <3>1
  <2> QED BY <2>3, <2>6, <2>7
<1> HIDE DEF q
<1>4. << >> \in J[0]
  <2>1. Distinct(<< >>) /\ In(<< >>, 0)
    BY DEF Distinct
  <2> QED BY <1>2, <2>1
<1> HIDE DEF order
<1>5. ASSUME NEW m \in 1 .. NSeq, NEW a \in J[m - 1]
      PROVE  BatchOp(n, order[m], a) \in J[m]
  <2> DEFINE s == order[m]
             x == BatchOp(n, s, a)
  <2>1. a \in Seq(TokType) /\ Distinct(a) /\ In(a, m - 1) /\ m \in 0 .. NSeq /\ s \in Seqs
    <3>1. m - 1 \in 0 .. NSeq /\ m \in 0 .. NSeq
      BY <1>2
    <3> HIDE DEF In
    <3> QED BY <1>2, <1>5, <3>1
  <2>2. x = a \o q(s)
    BY DEF BatchOp, q
  <2>3. q(s) \in Seq(TokType) /\ Distinct(q(s)) /\ \A i \in DOMAIN q(s) : q(s)[i] \in Fresh /\ q(s)[i].s = s
    BY <1>3, <2>1
  <2>4. NoCommon(a, q(s))
    <3> SUFFICES ASSUME NEW i \in DOMAIN a, NEW j \in DOMAIN q(s), a[i] = q(s)[j] PROVE FALSE
      BY DEF NoCommon
    <3>1. PICK l \in 1 .. m - 1 : a[i].s = order[l]
      BY <2>1
    <3>2. l \in 1 .. NSeq /\ l # m
      BY <1>2
    <3>3. order[l] = order[m]
      BY <2>3, <3>1
    <3> QED BY <1>o, <3>2, <3>3
  <2> HIDE DEF x
  <2>5. x \in Seq(TokType) /\ Distinct(x) /\ FromEither(x, a, q(s))
    BY ONLY <2>1, <2>2, <2>3, <2>4, ConcatIs
  <2>6. In(x, m)
    <3> SUFFICES ASSUME NEW i \in DOMAIN x PROVE x[i] \in Fresh /\ \E l \in 1 .. m : x[i].s = order[l]
      OBVIOUS
    <3>1. CASE \E j \in DOMAIN a : x[i] = a[j]
      <4>1. x[i] \in Fresh /\ \E l \in 1 .. m - 1 : x[i].s = order[l]
        BY <2>1, <3>1
      <4>2. \A l \in 1 .. m - 1 : l \in 1 .. m
        BY <1>2
      <4> QED BY <4>1, <4>2
    <3>2. CASE \E j \in DOMAIN q(s) : x[i] = q(s)[j]
      <4>1. m \in 1 .. m
        BY <1>2
      <4> QED BY <2>3, <3>2, <4>1
    <3> QED BY <2>5, <3>1, <3>2 DEF FromEither
  <2> HIDE DEF In
  <2> QED BY <2>1, <2>5, <2>6 DEF x
<1>6. BatchIn!LeftFold(n, << >>, order) \in J[NSeq]
  <2>1. \A m \in 1 .. NSeq : \A a \in J[m - 1] : BatchOp(n, order[m], a) \in J[m]
    BY <1>5
  <2> HIDE DEF J
  <2>r. BatchIn!WellOrdered /\ BatchIn!Ranked(1 .. NSeq)
    <3>1. IsFiniteSet(1 .. NSeq)
      BY <1>2, FS_Interval
    <3> QED BY <3>1, LeastNatural, FiniteRanks DEF BatchIn!WellOrdered, BatchIn!Ranked
  <2> QED BY ONLY <1>2, <1>4, <2>1, <2>r, BatchIn!FoldLeftInduction
<1>7. BatchOf(n, f) = BatchIn!LeftFold(n, << >>, order)
  BY DEF BatchOf, order, BatchIn!LeftFold, BatchOp, FoldLeft, MapThenFoldSet, BatchIn!MapThenFoldSet,
         Max, BatchIn!Top
<1>8. b \in J[NSeq] /\ NSeq \in 0 .. NSeq
  BY <1>1, <1>2, <1>6, <1>7
<1> QED BY <1>8

(* Parts of a sequence. *)
LEMMA PartIs ==
    ASSUME NEW X, NEW q \in Seq(X), NEW m \in Int, NEW n \in Int, m >= 1, n <= Len(q)
    PROVE  SubSeq(q, m, n) \in Seq(X)
OBVIOUS

(* The elements of a part are elements at its places. *)
LEMMA PartOf ==
    ASSUME NEW X, NEW q \in Seq(X), NEW m \in Int, NEW n \in Int, m >= 1, n <= Len(q)
    PROVE  \A x \in Range(SubSeq(q, m, n)) : \E i \in m .. n : i \in DOMAIN q /\ x = q[i]
<1> DEFINE r == SubSeq(q, m, n)
<1>1. \A j \in DOMAIN r : j + m - 1 \in m .. n /\ j + m - 1 \in DOMAIN q /\ r[j] = q[j + m - 1]
  OBVIOUS
<1> HIDE DEF r
<1>2. \A x \in Range(r) : \E i \in m .. n : i \in DOMAIN q /\ x = q[i]
  BY <1>1 DEF Range
<1> QED BY <1>2 DEF r

\* No token is in two ubatches; the ubatches have no other tokens than S.
Disjoint(ubs) == \A i, j \in DOMAIN ubs : i # j => TokensOf(ubs[i]) \cap TokensOf(ubs[j]) = {}
Within(ubs, S) == \A i \in DOMAIN ubs : TokensOf(ubs[i]) \subseteq S

(* The tokens of a ubatch of one group. *)
LEMMA OneGroup ==
    ASSUME NEW st, NEW q
    PROVE  TokensOf(<<Group(st, q)>>) = Range(q)
<1> DEFINE g == Group(st, q)
           u == <<g>>
<1>1. g.toks = q
  BY DEF Group
<1> HIDE DEF g
<1>2. DOMAIN u = {1} /\ u[1] = g
  OBVIOUS
<1> HIDE DEF u
<1>3. TokensOf(u) = Range(q)
  BY <1>1, <1>2 DEF TokensOf
<1> QED BY <1>3 DEF u, g

(* split_simple *)
LEMMA SplitSimpleIs ==
    ASSUME NEW b \in Seq(TokType)
    PROVE  /\ SplitSimple(b) \in Seq(UbType) /\ Within(SplitSimple(b), Range(b))
           /\ Distinct(b) => Disjoint(SplitSimple(b))
<1> DEFINE N == (Len(b) + NUbatch - 1) \div NUbatch
           hi(k) == Min({k * NUbatch, Len(b)})
           g(k) == Group(0, SubSeq(b, (k - 1) * NUbatch + 1, hi(k)))
<1>1. Len(b) \in Nat /\ NUbatch \in Nat /\ NUbatch >= 1
  BY Sizes, CallerAssumption
<1>2. N \in Nat
  <2>1. Len(b) + NUbatch - 1 \in Nat
    BY <1>1
  <2> QED BY <1>1, <2>1
<1>3. ASSUME NEW k \in 1 .. N
      PROVE  /\ <<g(k)>> \in UbType
             /\ \A x \in TokensOf(<<g(k)>>) : \E i \in (k - 1) * NUbatch + 1 .. k * NUbatch : i \in DOMAIN b /\ x = b[i]
  <2>1. k * NUbatch \in Nat /\ (k - 1) * NUbatch \in Nat
    <3>1. k \in Nat /\ k - 1 \in Nat
      BY <1>2, <1>3
    <3> HIDE DEF N
    <3> QED BY <1>1, <3>1
  <2>2. hi(k) \in Nat /\ hi(k) <= Len(b) /\ hi(k) <= k * NUbatch
    <3> DEFINE T == {k * NUbatch, Len(b)}
    <3>1. T \subseteq Nat /\ T # {} /\ Len(b) \in T /\ k * NUbatch \in T
      BY <1>1, <2>1
    <3> HIDE DEF T
    <3>2. Min(T) \in T /\ Min(T) <= Len(b) /\ Min(T) <= k * NUbatch
      BY <3>1, MinIn
    <3>3. hi(k) = Min(T)
      BY DEF T
    <3> HIDE DEF hi
    <3> QED BY <3>1, <3>2, <3>3
  <2> HIDE DEF hi, N
  <2>3. SubSeq(b, (k - 1) * NUbatch + 1, hi(k)) \in Seq(TokType)
    <3> DEFINE lo == (k - 1) * NUbatch + 1
    <3>1. lo \in Int /\ lo >= 1
      BY <2>1
    <3> HIDE DEF lo
    <3>2. SubSeq(b, lo, hi(k)) \in Seq(TokType)
      BY <2>2, <3>1, PartIs
    <3> QED BY <3>2 DEF lo
  <2>4. g(k) \in GroupType
    <3>1. 0 \in Seqs
      BY Sizes DEF Seqs
    <3> QED BY <2>3, <3>1 DEF Group, GroupType
  <2>6. ASSUME NEW x \in TokensOf(<<g(k)>>)
        PROVE  \E i \in (k - 1) * NUbatch + 1 .. k * NUbatch : i \in DOMAIN b /\ x = b[i]
    <3> DEFINE lo == (k - 1) * NUbatch + 1
               up == k * NUbatch
    <3>1. lo \in Int /\ lo >= 1 /\ up \in Int
      BY <2>1
    <3>2. x \in Range(SubSeq(b, lo, hi(k)))
      BY <2>6, OneGroup
    <3> HIDE DEF lo, up
    <3>3. \E i \in lo .. hi(k) : i \in DOMAIN b /\ x = b[i]
      BY <2>2, <3>1, <3>2, PartOf
    <3>4. hi(k) <= up
      BY <2>2 DEF up
    <3>5. \E i \in lo .. up : i \in DOMAIN b /\ x = b[i]
      BY <2>2, <3>1, <3>3, <3>4
    <3> QED BY <3>5 DEF lo, up
  <2> HIDE DEF g
  <2>5. <<g(k)>> \in Seq(GroupType) /\ Len(<<g(k)>>) = 1
    BY <2>4
  <2>7. <<g(k)>> \in UbType
    BY <2>5, Sizes DEF UbType
  <2> QED BY <2>6, <2>7
<1>4. SplitSimple(b) = [k \in 1 .. N |-> <<g(k)>>]
  BY DEF SplitSimple
<1> HIDE DEF N, g
<1> DEFINE ubs == SplitSimple(b)
<1>5. ubs \in Seq(UbType) /\ DOMAIN ubs = 1 .. N /\ \A k \in 1 .. N : ubs[k] = <<g(k)>>
  BY <1>2, <1>3, <1>4
<1> HIDE DEF ubs
<1>6. Within(ubs, Range(b))
  <2>1. ASSUME NEW k \in 1 .. N, NEW x \in TokensOf(ubs[k]) PROVE x \in Range(b)
    <3>1. x \in TokensOf(<<g(k)>>)
      BY ONLY <1>5, <2>1
    <3>2. \E i \in (k - 1) * NUbatch + 1 .. k * NUbatch : i \in DOMAIN b /\ x = b[i]
      BY ONLY <1>3, <3>1, k \in 1 .. N
    <3>3. \E i \in DOMAIN b : x = b[i]
      BY ONLY <3>2
    <3> QED BY <3>3 DEF Range
  <2> QED BY <1>5, <2>1 DEF Within
<1>7. ASSUME Distinct(b), NEW k \in 1 .. N, NEW l \in 1 .. N, k < l, NEW x \in TokensOf(ubs[k]), x \in TokensOf(ubs[l])
      PROVE  FALSE
  <2> DEFINE A == k * NUbatch
             C == (l - 1) * NUbatch
             D == l * NUbatch
             B == (k - 1) * NUbatch
  <2>1. A \in Nat /\ B \in Nat /\ C \in Nat /\ D \in Nat /\ A <= C
    <3>1. k \in Nat /\ k - 1 \in Nat /\ l - 1 \in Nat /\ l \in Nat /\ k <= l - 1
      BY <1>2, <1>7
    <3>2. ASSUME NEW u \in Nat, NEW w \in Nat, u <= w PROVE u * NUbatch <= w * NUbatch
      <4>1. PICK v \in Nat : w = u + v
        BY <3>2
      <4>2. w * NUbatch = u * NUbatch + v * NUbatch /\ v * NUbatch \in Nat /\ u * NUbatch \in Nat
        BY <1>1, <4>1
      <4> QED BY <4>2
    <3>3. A <= C
      BY <3>1, <3>2
    <3> QED BY <1>1, <3>1, <3>3
  <2>2. (\E i \in B + 1 .. A : i \in DOMAIN b /\ x = b[i]) /\ (\E i \in C + 1 .. D : i \in DOMAIN b /\ x = b[i])
    <3>1. x \in TokensOf(<<g(k)>>) /\ x \in TokensOf(<<g(l)>>)
      BY ONLY <1>5, <1>7
    <3>2. \E i \in B + 1 .. A : i \in DOMAIN b /\ x = b[i]
      BY ONLY <1>3, <3>1, k \in 1 .. N
    <3>3. \E i \in C + 1 .. D : i \in DOMAIN b /\ x = b[i]
      BY ONLY <1>3, <3>1, l \in 1 .. N
    <3> QED BY <3>2, <3>3
  <2> HIDE DEF A, B, C, D
  <2>3. PICK i \in B + 1 .. A, j \in C + 1 .. D : i \in DOMAIN b /\ j \in DOMAIN b /\ b[i] = b[j]
    BY <2>2
  <2>4. i = j
    BY <1>7, <2>3 DEF Distinct
  <2> QED BY <2>1, <2>3, <2>4
<1>8. ASSUME Distinct(b) PROVE Disjoint(ubs)
  <2> SUFFICES ASSUME NEW k \in 1 .. N, NEW l \in 1 .. N, k # l, NEW x \in TokensOf(ubs[k]), x \in TokensOf(ubs[l])
               PROVE  FALSE
    BY <1>5 DEF Disjoint
  <2>1. k < l \/ l < k
    BY <1>2
  <2> QED BY <1>7, <1>8, <2>1
<1> QED BY <1>5, <1>6, <1>8 DEF ubs

(* What Append adds. *)
LEMMA AppendIs ==
    ASSUME NEW S, NEW a \in Seq(S), NEW v \in S
    PROVE  /\ Append(a, v) \in Seq(S) /\ Append(a, v) # << >>
           /\ DOMAIN Append(a, v) = 1 .. Len(a) + 1 /\ Append(a, v)[Len(a) + 1] = v
           /\ \A i \in 1 .. Len(a) : Append(a, v)[i] = a[i]
OBVIOUS

(* The sequences that join a ubatch have consecutive ids, so there are no  *)
(* more of them than sequences.                                            *)
LEMMA JoiningIs ==
    ASSUME NEW b \in Seq(TokType), b # << >>
    PROVE  Joining(b) \in Seq(Seqs) /\ Len(Joining(b)) \in 1 .. NSeq
<1> DEFINE n == Len(b)
           Run(a) == \A i \in DOMAIN a : a[i] = a[1] + i - 1
           J == [m \in 0 .. n |-> {a \in Seq(Seqs) : (m >= 1 => a # << >>) /\ Run(a)}]
<1>1. n \in Nat /\ n >= 1 /\ DOMAIN b = 1 .. n /\ \A j \in 1 .. n : b[j] \in TokType
  BY Indexes
<1>2. << >> \in J[0]
  BY <1>1
<1>3. ASSUME NEW j \in 1 .. n, NEW a \in J[j - 1]
      PROVE  JoinOp(0, b[j], a) \in J[j]
  <2> DEFINE x == JoinOp(0, b[j], a)
             v == b[j].s
  <2>1. a \in Seq(Seqs) /\ Run(a) /\ j \in 0 .. n /\ j >= 1 /\ b[j] \in TokType
    BY <1>1, <1>3
  <2>2. v \in Seqs /\ v \in Nat
    BY <2>1, Sizes DEF TokType
  <2>3. x = IF a = << >> \/ v = Last(a) + 1 THEN Append(a, v) ELSE a
    BY DEF JoinOp
  <2> HIDE DEF v, x
  <2>4. x \in Seq(Seqs) /\ x # << >> /\ Run(x)
    <3>1. CASE a = << >>
      <4>1. x = Append(a, v)
        BY <2>3, <3>1
      <4>2. x = <<v>>
        BY <3>1, <4>1
      <4> QED BY <2>2, <4>2
    <3>2. CASE a # << >> /\ v = Last(a) + 1
      <4>1. x = Append(a, v)
        BY <2>3, <3>2
      <4>2. Len(a) \in Nat /\ Len(a) >= 1 /\ DOMAIN a = 1 .. Len(a) /\ a[1] \in Seqs
        BY <2>1, <3>2
      <4>3. /\ x \in Seq(Seqs) /\ x # << >> /\ DOMAIN x = 1 .. Len(a) + 1 /\ x[Len(a) + 1] = v
            /\ \A i \in 1 .. Len(a) : x[i] = a[i]
        BY ONLY <2>1, <2>2, <4>1, AppendIs
      <4>4. a[Len(a)] = a[1] + Len(a) - 1
        <5>1. Len(a) \in DOMAIN a
          BY ONLY <4>2
        <5> QED BY ONLY <2>1, <5>1
      <4>5. v = a[1] + (Len(a) + 1) - 1
        <5>1. a[1] \in Nat
          BY <4>2, Sizes
        <5> QED BY <3>2, <4>2, <4>4, <5>1 DEF Last
      <4>6. ASSUME NEW i \in DOMAIN x PROVE x[i] = x[1] + i - 1
        <5>1. x[1] = a[1]
          BY <4>2, <4>3
        <5>2. CASE i \in 1 .. Len(a)
          BY <2>1, <4>2, <4>3, <5>1, <5>2
        <5>3. CASE i = Len(a) + 1
          BY <4>3, <4>5, <5>1, <5>3
        <5> QED BY <4>2, <4>3, <5>2, <5>3
      <4> QED BY <4>3, <4>6
    <3>3. CASE a # << >> /\ v # Last(a) + 1
      BY <2>1, <2>3, <3>3
    <3> QED BY <3>1, <3>2, <3>3
  <2> HIDE DEF Run
  <2> QED BY <2>1, <2>4 DEF x
<1>4. JoinIn!LeftFold(0, << >>, b) \in J[n]
  <2>1. \A j \in 1 .. n : \A a \in J[j - 1] : JoinOp(0, b[j], a) \in J[j]
    BY <1>3
  <2> HIDE DEF J, n
  <2>r. JoinIn!WellOrdered /\ JoinIn!Ranked(1 .. n)
    <3>1. IsFiniteSet(1 .. n)
      BY <1>1, FS_Interval
    <3> QED BY <3>1, LeastNatural, FiniteRanks DEF JoinIn!WellOrdered, JoinIn!Ranked
  <2> QED BY ONLY <1>1, <1>2, <2>1, <2>r, JoinIn!FoldLeftInduction
<1>5. Joining(b) = JoinIn!LeftFold(0, << >>, b)
  BY DEF Joining, JoinIn!LeftFold, JoinOp, FoldLeft, MapThenFoldSet, JoinIn!MapThenFoldSet, Max, JoinIn!Top
<1> DEFINE ss == Joining(b)
<1> HIDE DEF ss
<1>6. ss \in Seq(Seqs) /\ ss # << >> /\ Run(ss)
  BY <1>1, <1>4, <1>5 DEF ss
<1>7. Len(ss) \in 1 .. NSeq
  <2>1. Len(ss) \in Nat /\ Len(ss) >= 1 /\ ss[1] \in Seqs /\ ss[Len(ss)] \in Seqs /\ Len(ss) \in DOMAIN ss
    BY <1>6
  <2>2. ss[Len(ss)] = ss[1] + Len(ss) - 1
    BY <1>6, <2>1
  <2> QED BY <2>1, <2>2, Sizes DEF Seqs
<1> QED BY <1>6, <1>7 DEF ss

(* split_equal: one ubatch. *)
LEMMA TakeEqualIs ==
    ASSUME NEW b \in Seq(TokType), b # << >>
    PROVE  TakeEqual(b) \in UbType /\ TokensOf(TakeEqual(b)) \subseteq Range(b)
<1> DEFINE ss == Joining(b)
           Of(s) == Only(b, {t \in Range(b) : t.s = s})
           q == NUbatch \div Len(ss)
           M == Max({1, q})
           L == {Len(Of(ss[j])) : j \in DOMAIN ss} \cup {M}
           k == Min(L)
           g(j) == Group(ss[j], SubSeq(Of(ss[j]), 1, k))
<1>1. /\ ss \in Seq(Seqs) /\ Len(ss) \in Nat /\ Len(ss) >= 1 /\ Len(ss) <= NSeq /\ DOMAIN ss = 1 .. Len(ss)
      /\ \A j \in 1 .. Len(ss) : ss[j] \in Seqs
  <2>1. ss \in Seq(Seqs) /\ Len(ss) \in 1 .. NSeq
    BY JoiningIs
  <2> HIDE DEF ss
  <2> QED BY <2>1, Sizes
<1>2. TakeEqual(b) = [j \in DOMAIN ss |-> g(j)]
  BY DEF TakeEqual
<1> HIDE DEF ss
<1>3. \A s : Of(s) \in Seq(TokType) /\ Len(Of(s)) \in Nat /\ Of(s) \in Seq(Range(b))
  <2> SUFFICES ASSUME NEW s PROVE Of(s) \in Seq(TokType) /\ Len(Of(s)) \in Nat /\ Of(s) \in Seq(Range(b))
    OBVIOUS
  <2> DEFINE S == {t \in Range(b) : t.s = s}
  <2>1. Only(b, S) \in Seq(TokType \cap S)
    <3> HIDE DEF S
    <3> QED BY OnlyIs
  <2>s. S \subseteq Range(b)
    OBVIOUS
  <2> HIDE DEF S
  <2>2. Only(b, S) \in Seq(TokType) /\ Len(Only(b, S)) \in Nat /\ Only(b, S) \in Seq(Range(b))
    <3> DEFINE R == Range(b)
    <3> HIDE DEF R
    <3>1. S \subseteq R
      BY <2>s DEF R
    <3>2. Only(b, S) \in Seq(TokType) /\ Len(Only(b, S)) \in Nat /\ Only(b, S) \in Seq(R)
      BY ONLY <2>1, <3>1
    <3> QED BY <3>2 DEF R
  <2> QED BY <2>2 DEF S
<1> HIDE DEF Of
<1>4. M \in Nat
  <2>1. NUbatch \in Nat
    BY CallerAssumption
  <2>2. q \in Nat
    BY <1>1, <2>1
  <2> HIDE DEF q
  <2>3. \E x \in {1, q} : \A y \in {1, q} : x >= y
    BY <2>2
  <2>4. M \in {1, q}
    BY <2>3 DEF Max
  <2> HIDE DEF M
  <2> QED BY <2>2, <2>4
<1> HIDE DEF M
<1>5. k \in Nat /\ \A j \in 1 .. Len(ss) : k <= Len(Of(ss[j]))
  <2>1. L \subseteq Nat /\ L # {} /\ \A j \in 1 .. Len(ss) : Len(Of(ss[j])) \in L
    BY <1>1, <1>3, <1>4
  <2> HIDE DEF L
  <2>2. Min(L) \in L /\ \A x \in L : Min(L) <= x
    BY <2>1, MinIn
  <2> QED BY <2>1, <2>2
<1> HIDE DEF k
<1>6. \A j \in 1 .. Len(ss) : g(j) \in GroupType
  <2> SUFFICES ASSUME NEW j \in 1 .. Len(ss) PROVE g(j) \in GroupType
    OBVIOUS
  <2>1. SubSeq(Of(ss[j]), 1, k) \in Seq(TokType)
    <3>1. Of(ss[j]) \in Seq(TokType) /\ k \in Int /\ k <= Len(Of(ss[j]))
      BY <1>3, <1>5
    <3> QED BY <3>1, PartIs
  <2> QED BY <1>1, <2>1 DEF Group, GroupType
<1>8. \A j \in 1 .. Len(ss) : Range(g(j).toks) \subseteq Range(b)
  <2> SUFFICES ASSUME NEW j \in 1 .. Len(ss) PROVE Range(g(j).toks) \subseteq Range(b)
    OBVIOUS
  <2> DEFINE part == SubSeq(Of(ss[j]), 1, k)
             R == Range(b)
  <2>1. g(j).toks = part
    BY DEF Group
  <2>2. Of(ss[j]) \in Seq(R) /\ k \in Int /\ k <= Len(Of(ss[j]))
    BY <1>3, <1>5
  <2> HIDE DEF R
  <2>3. part \in Seq(R)
    BY <2>2, PartIs
  <2> HIDE DEF part
  <2>4. Range(part) \subseteq R
    BY <2>3 DEF Range
  <2> QED BY <2>1, <2>4 DEF R
<1> HIDE DEF g
<1>7. TakeEqual(b) \in Seq(GroupType) /\ Len(TakeEqual(b)) = Len(ss)
  BY <1>1, <1>2, <1>6
<1>9. TokensOf(TakeEqual(b)) \subseteq Range(b)
  <2>1. DOMAIN TakeEqual(b) = 1 .. Len(ss) /\ \A j \in 1 .. Len(ss) : TakeEqual(b)[j] = g(j)
    BY <1>1, <1>2
  <2> DEFINE R == Range(b)
  <2> HIDE DEF R
  <2>2. \A j \in 1 .. Len(ss) : Range(TakeEqual(b)[j].toks) \subseteq R
    BY <1>8, <2>1 DEF R
  <2>3. TokensOf(TakeEqual(b)) \subseteq R
    BY ONLY <2>1, <2>2 DEF TokensOf
  <2> QED BY <2>3 DEF R
<1> QED BY <1>1, <1>7, <1>9 DEF UbType

(* split_equal *)
LEMMA SplitEqualIs ==
    ASSUME NEW b \in Seq(TokType)
    PROVE  SplitEqual(b) \in Seq(UbType) /\ Within(SplitEqual(b), Range(b)) /\ Disjoint(SplitEqual(b))
<1> DEFINE n == Len(b)
           base == [left |-> b, ubs |-> << >>]
           A == {a \in [left : Seq(TokType), ubs : Seq(UbType)] :
                    /\ Range(a.left) \subseteq Range(b) /\ Within(a.ubs, Range(b) \ Range(a.left)) /\ Disjoint(a.ubs)}
           J == [m \in 0 .. n |-> A]
           x == MoreIn!LeftFold(0, base, b)
<1>1. n \in Nat /\ DOMAIN b = 1 .. n
  BY Indexes
<1>2. base \in J[0]
  <2>1. base \in A
    <3>1. base.left = b /\ base.ubs = << >> /\ base \in [left : Seq(TokType), ubs : Seq(UbType)]
      OBVIOUS
    <3> HIDE DEF base
    <3> QED BY <3>1 DEF Within, Disjoint
  <2> HIDE DEF base, A
  <2> QED BY <1>1, <2>1
<1>3. ASSUME NEW j \in 1 .. n, NEW a \in J[j - 1]
      PROVE  MoreOp(0, b[j], a) \in J[j]
  <2>1. a \in A /\ j \in 0 .. n
    BY <1>1, <1>3
  <2>2. /\ a.left \in Seq(TokType) /\ a.ubs \in Seq(UbType)
        /\ Range(a.left) \subseteq Range(b) /\ Within(a.ubs, Range(b) \ Range(a.left)) /\ Disjoint(a.ubs)
    BY <2>1
  <2>3. MoreOp(0, b[j], a) \in A
    <3>1. CASE a.left = << >>
      BY <2>1, <3>1 DEF MoreOp
    <3>2. CASE a.left # << >>
      <4> DEFINE u == TakeEqual(a.left)
                 S == Range(a.left) \ TokensOf(u)
                 l == Only(a.left, S)
      <4>1. u \in UbType /\ TokensOf(u) \subseteq Range(a.left)
        BY <2>2, <3>2, TakeEqualIs
      <4>2. MoreOp(0, b[j], a) = [left |-> l, ubs |-> Append(a.ubs, u)]
        BY <3>2 DEF MoreOp
      <4>s. S \subseteq Range(a.left) /\ S \cap TokensOf(u) = {}
        OBVIOUS
      <4> HIDE DEF u, S
      <4>3. l \in Seq(TokType) /\ Range(l) \subseteq S
        <5>1. l \in Seq(TokType \cap S)
          BY <2>2, OnlyIs
        <5> HIDE DEF l
        <5>2. l \in Seq(TokType) /\ l \in Seq(S)
          BY <5>1
        <5> QED BY <5>2 DEF Range
      <4> HIDE DEF l
      <4> DEFINE w == Append(a.ubs, u)
      <4>4. w \in Seq(UbType)
        BY <2>2, <4>1
      <4>5. MoreOp(0, b[j], a) = [left |-> l, ubs |-> w]
        BY <4>2
      <4> DEFINE v == a.ubs
      <4>6. /\ v \in Seq(UbType) /\ Len(v) \in Nat /\ DOMAIN v = 1 .. Len(v)
            /\ DOMAIN w = 1 .. Len(v) + 1 /\ w[Len(v) + 1] = u /\ \A i \in 1 .. Len(v) : w[i] = v[i]
        <5>1. v \in Seq(UbType)
          BY <2>2
        <5>2. w = Append(v, u)
          OBVIOUS
        <5> HIDE DEF v, w
        <5> QED BY ONLY <4>1, <5>1, <5>2, AppendIs
      <4> HIDE DEF w
      <4>7. \A i \in 1 .. Len(v) : TokensOf(v[i]) \subseteq Range(b) \ Range(a.left)
        BY <2>2, <4>6 DEF Within
      <4>8. \A i, h \in 1 .. Len(v) : i # h => TokensOf(v[i]) \cap TokensOf(v[h]) = {}
        BY <2>2, <4>6 DEF Disjoint
      <4> HIDE DEF v
      <4>9. \A i \in DOMAIN w : i \in 1 .. Len(v) \/ i = Len(v) + 1
        BY <4>6
      <4>10. Within(w, Range(b) \ Range(l))
        <5> SUFFICES ASSUME NEW i \in DOMAIN w PROVE TokensOf(w[i]) \subseteq Range(b) \ Range(l)
          BY DEF Within
        <5>1. CASE i \in 1 .. Len(v)
          BY <4>3, <4>6, <4>7, <4>s, <5>1
        <5>2. CASE i = Len(v) + 1
          BY <2>2, <4>1, <4>3, <4>6, <4>s, <5>2
        <5> QED BY <4>9, <5>1, <5>2
      <4>11. Disjoint(w)
        <5> SUFFICES ASSUME NEW i \in DOMAIN w, NEW h \in DOMAIN w, i # h
                     PROVE  TokensOf(w[i]) \cap TokensOf(w[h]) = {}
          BY DEF Disjoint
        <5>1. CASE i \in 1 .. Len(v) /\ h \in 1 .. Len(v)
          BY <4>6, <4>8, <5>1
        <5>2. CASE i \in 1 .. Len(v) /\ h = Len(v) + 1
          BY <4>1, <4>6, <4>7, <5>2
        <5>3. CASE h \in 1 .. Len(v) /\ i = Len(v) + 1
          BY <4>1, <4>6, <4>7, <5>3
        <5> QED BY <4>9, <5>1, <5>2, <5>3
      <4>12. Range(l) \subseteq Range(b)
        BY <2>2, <4>3, <4>s
      <4> DEFINE y == [left |-> l, ubs |-> w]
      <4>13. y \in [left : Seq(TokType), ubs : Seq(UbType)] /\ y.left = l /\ y.ubs = w
        BY ONLY <4>3, <4>4
      <4>14. y = MoreOp(0, b[j], a)
        BY <4>5
      <4> HIDE DEF y
      <4>15. y \in A
        BY ONLY <4>10, <4>11, <4>12, <4>13
      <4> QED BY <4>14, <4>15
    <3> QED BY <3>1, <3>2
  <2> HIDE DEF A
  <2> QED BY <2>1, <2>3
<1>4. x \in A
  <2>1. \A j \in 1 .. n : \A a \in J[j - 1] : MoreOp(0, b[j], a) \in J[j]
    BY <1>3
  <2>2. x \in J[n]
    <3> HIDE DEF J, n, base
    <3>r. MoreIn!WellOrdered /\ MoreIn!Ranked(1 .. n)
      <4>1. IsFiniteSet(1 .. n)
        BY <1>1, FS_Interval
      <4> QED BY <4>1, LeastNatural, FiniteRanks DEF MoreIn!WellOrdered, MoreIn!Ranked
    <3> QED BY ONLY <1>1, <1>2, <2>1, <3>r, MoreIn!FoldLeftInduction
  <2> HIDE DEF x, A
  <2> QED BY <1>1, <2>2
<1>5. SplitEqual(b) = x.ubs
  BY DEF SplitEqual, MoreIn!LeftFold, MoreOp, FoldLeft, MapThenFoldSet, MoreIn!MapThenFoldSet, Max, MoreIn!Top
<1> HIDE DEF x
<1>6. x.ubs \in Seq(UbType) /\ Within(x.ubs, Range(b) \ Range(x.left)) /\ Disjoint(x.ubs)
  BY <1>4
<1>7. Within(x.ubs, Range(b))
  BY <1>6 DEF Within
<1> QED BY <1>5, <1>6, <1>7
(* The ubatches of a batch, in either kind of context. *)
LEMMA SplitIs ==
    ASSUME NEW b \in Seq(TokType)
    PROVE  /\ Split(b) \in Seq(UbType) /\ Within(Split(b), Range(b))
           /\ Distinct(b) => Disjoint(Split(b))
BY SplitSimpleIs, SplitEqualIs DEF Split

-----------------------------------------------------------------------------
(* The invariant: the cells are Good, whether or not a shift is pending in *)
(* them while a decode goes on.                                            *)
DecType == [status : {"idle", "ubatches", "refused"}, ubs : Seq(PlacedUb)]

KvInv ==
    /\ mode \in Modes
    /\ KvGood(kv)
    /\ Texts
    /\ dec \in DecType
    /\ dec.status = "ubatches" => dec.ubs # << >>

(* One text is replaced. *)
LEMMA NewText ==
    ASSUME NEW h, Texted(h), NEW s \in Seqs, NEW V, NEW e \in Seq(V), NEW g, g = [h EXCEPT ![s] = e]
    PROVE  Texted(g)
<1>1. h = [t \in Seqs |-> h[t]]
  BY DEF Texted
<1>2. g = [t \in Seqs |-> IF t = s THEN e ELSE h[t]]
  BY <1>1
<1>3. \A t \in Seqs : g[t] = IF t = s THEN e ELSE h[t]
  BY <1>2
<1>4. g = [t \in Seqs |-> g[t]]
  BY <1>2
<1>5. \A t \in Seqs : \E W : g[t] \in Seq(W)
  BY <1>3 DEF Texted
<1> QED BY <1>4, <1>5 DEF Texted

(* The texts of an empty cache. *)
LEMMA NoText == Texted([s \in Seqs |-> << >>])
<1> DEFINE h == [s \in Seqs |-> << >>]
<1>1. \A s \in Seqs : h[s] \in Seq({})
  OBVIOUS
<1>2. h = [s \in Seqs |-> h[s]]
  OBVIOUS
<1> HIDE DEF h
<1>3. Texted(h)
  BY <1>1, <1>2 DEF Texted
<1> QED BY <1>3 DEF h

(* The empty cache. *)
LEMMA EmptyGood ==
    ASSUME NEW k, k = [cells |-> [s \in Seqs |-> Reset], head |-> [s \in Seqs |-> 0]]
    PROVE  KvGood(k)
<1>1. Good(Reset) /\ Reset \in CellsType /\ 0 \in 0 .. Size
  BY ResetGood, Sizes DEF Good
<1>2. \A s \in Seqs : k.cells[s] = Reset
  OBVIOUS
<1>3. k \in KvType
  <2> HIDE DEF Reset
  <2> QED BY <1>1 DEF KvType
<1> QED BY <1>1, <1>2, <1>3 DEF KvGood

(* At rest there is nothing to place. *)
LEMMA RestIs == /\ AtRest \in DecType /\ AtRest.status # "ubatches"
                /\ Refused \in DecType /\ Refused.status # "ubatches"
<1>1. << >> \in Seq(PlacedUb)
  OBVIOUS
<1> QED BY <1>1 DEF AtRest, Refused, DecType

\* What decode has tried before its first ubatch: a batch on a good cache.
Begun(x, b) ==
    LET try == Prepare(x, Split(b))
    IN  /\ kv' = try.kv /\ hist' = hist /\ mode' = mode /\ sc_info' = << >>
        /\ dec' = Refused \/ (try.ok /\ dec' = [status |-> "ubatches", ubs |-> try.found])

(* Whatever became of the K-shifts, decode has tried a good cache. *)
LEMMA DecodeTries ==
    ASSUME KvInv, NEW b \in Batches, DecodeStart(b)
    PROVE  /\ b \in Seq(TokType) /\ Split(b) \in Seq(UbType) /\ Len(Split(b)) >= 1
           /\ \E x \in GoodKv : Begun(x, b)
<1>1. b \in Seq(TokType)
  BY BatchIs DEF KvInv
<1>2. Split(b) \in Seq(UbType) /\ Len(Split(b)) >= 1
  <2>1. Len(Split(b)) \in 1 .. mode.ubatches /\ mode.ubatches \in Nat
    BY CallerAssumption DEF DecodeStart, DecodeFrom, KvInv
  <2> QED BY <1>1, <2>1, SplitIs
<1> DEFINE ubs == Split(b)
           d == CopyStreams(data, sc_info)
<1>3. hist' = hist /\ mode' = mode /\ sc_info' = << >>
  BY DEF DecodeStart, DecodeFrom
<1>4. \E u \in KShift(d, kv) :
         IF Prepare(u.kv, ubs).ok \/ ~HasShift(Prepare(u.kv, ubs).kv) THEN Tried(u, Prepare(u.kv, ubs))
         ELSE \E v \in KShift(u.data, Prepare(u.kv, ubs).kv) : Tried(v, Prepare(v.kv, ubs))
  BY DEF DecodeStart, DecodeFrom
<1> HIDE DEF d
<1>5. ASSUME NEW u, Tried(u, Prepare(u.kv, ubs)), u.kv \in GoodKv
      PROVE  \E x \in GoodKv : Begun(x, b)
  <2> DEFINE try == Prepare(u.kv, ubs)
  <2>1. /\ kv' = try.kv
        /\ dec' = Refused \/ (try.ok /\ dec' = [status |-> "ubatches", ubs |-> try.found])
    <3> HIDE DEF try
    <3>1. Tried(u, try)
      BY <1>5 DEF try
    <3> QED BY <3>1 DEF Tried
  <2>2. Begun(u.kv, b)
    BY <1>3, <2>1 DEF Begun
  <2> QED BY <1>5, <2>2
<1> HIDE DEF ubs
<1>6. PICK u \in KShift(d, kv) :
         IF Prepare(u.kv, ubs).ok \/ ~HasShift(Prepare(u.kv, ubs).kv) THEN Tried(u, Prepare(u.kv, ubs))
         ELSE \E v \in KShift(u.data, Prepare(u.kv, ubs).kv) : Tried(v, Prepare(v.kv, ubs))
  BY <1>4
<1>7. u.kv \in GoodKv
  BY KShiftGood DEF KvInv
<1>8. KvGood(Prepare(u.kv, ubs).kv)
  BY <1>2, <1>7, PrepareGood DEF GoodKv, ubs
<1>9. Tried(u, Prepare(u.kv, ubs)) => \E x \in GoodKv : Begun(x, b)
  BY <1>5, <1>7
<1>10. ASSUME NEW v \in KShift(u.data, Prepare(u.kv, ubs).kv), Tried(v, Prepare(v.kv, ubs))
       PROVE  \E x \in GoodKv : Begun(x, b)
  <2>1. v.kv \in GoodKv
    BY <1>8, KShiftGood
  <2> QED BY <1>5, <1>10, <2>1
<1>11. \E x \in GoodKv : Begun(x, b)
  BY Zenon, <1>6, <1>9, <1>10
<1> QED BY Zenon, <1>1, <1>2, <1>11

(* decode begins. *)
LEMMA DecodeKeeps ==
    ASSUME KvInv, NEW b \in Batches, DecodeStart(b)
    PROVE  KvInv'
<1>1. Split(b) \in Seq(UbType) /\ Len(Split(b)) >= 1
  BY DecodeTries
<1>2. PICK k \in GoodKv : Begun(k, b)
  BY DecodeTries
<1> DEFINE ubs == Split(b)
           try == Prepare(k, ubs)
           F == try.found
<1>3. /\ kv' = try.kv /\ hist' = hist /\ mode' = mode
      /\ dec' = Refused \/ (try.ok /\ dec' = [status |-> "ubatches", ubs |-> F])
  BY <1>2 DEF Begun
<1> HIDE DEF ubs
<1>4. try.kv \in GoodKv /\ F \in Seq(PlacedUb) /\ (try.ok => F # << >>)
  <2>1. try.kv \in GoodKv /\ F \in Seq(PlacedUb) /\ (try.ok => SameTokens(F, ubs, Len(ubs)))
    BY <1>1, PrepareGood DEF ubs
  <2> HIDE DEF try, F
  <2>2. Len(<< >>) = 0
    OBVIOUS
  <2> QED BY <1>1, <2>1, <2>2 DEF SameTokens, ubs
<1> HIDE DEF try, F
<1>5. KvGood(kv')
  BY <1>3, <1>4 DEF GoodKv
<1>6. dec' \in DecType /\ (dec'.status = "ubatches" => dec'.ubs # << >>)
  BY ONLY <1>3, <1>4, RestIs DEF DecType
<1>7. Texts' /\ mode' \in Modes
  BY <1>3 DEF KvInv, Texts
<1> QED BY <1>5, <1>6, <1>7 DEF KvInv

(* There are finitely many tokens. *)
LEMMA TokensFinite == IsFiniteSet(TokType)
<1>1. IsFiniteSet(Seqs) /\ IsFiniteSet(Pos)
  BY Sizes, FS_Interval DEF Pos
<1>2. IsFiniteSet(Seqs \X Pos)
  BY <1>1, FS_Product
<1> DEFINE f == [x \in Seqs \X Pos |-> [s |-> x[1], p |-> x[2]]]
<1>3. f \in Surjection(Seqs \X Pos, TokType)
  <2>1. \A x \in Seqs \X Pos : f[x] \in TokType
    BY DEF TokType
  <2>2. \A t \in TokType : \E x \in Seqs \X Pos : f[x] = t
    <3> SUFFICES ASSUME NEW t \in TokType PROVE \E x \in Seqs \X Pos : f[x] = t
      OBVIOUS
    <3>1. <<t.s, t.p>> \in Seqs \X Pos /\ t = [s |-> t.s, p |-> t.p]
      BY DEF TokType
    <3>2. f[<<t.s, t.p>>] = t
      BY <3>1
    <3> QED BY <3>1, <3>2
  <2> HIDE DEF f
  <2>3. f \in [Seqs \X Pos -> TokType]
    BY <2>1 DEF f
  <2> QED BY <2>2, <2>3 DEF Surjection
<1> HIDE DEF f
<1> QED BY <1>2, <1>3, FS_Surjection

(* A ubatch has finitely many tokens. *)
LEMMA UbTokensFinite ==
    ASSUME NEW ub \in PlacedUb
    PROVE  /\ IsFiniteSet(TokensOf(ub))
           /\ \A s : Cardinality({x \in TokensOf(ub) : x.s = s}) \in Nat
<1>1. TokensOf(ub) \subseteq TokType
  BY PlacedIsUb, TokensIn
<1>3. IsFiniteSet(TokensOf(ub))
  BY <1>1, TokensFinite, FS_Subset
<1>4. ASSUME NEW s PROVE Cardinality({x \in TokensOf(ub) : x.s = s}) \in Nat
  <2> DEFINE S == {x \in TokensOf(ub) : x.s = s}
  <2>1. S \subseteq TokensOf(ub)
    OBVIOUS
  <2> HIDE DEF S
  <2>2. Cardinality(S) \in Nat
    BY <1>3, <2>1, FS_Subset, FS_CardinalityType
  <2> QED BY <2>2 DEF S
<1> QED BY <1>3, <1>4

(* A ubatch is computed. *)
LEMMA ComputeKeeps ==
    ASSUME KvInv, NEW tok, ComputeUbatch(tok)
    PROVE  KvInv'
<1> DEFINE ub == Head(dec.ubs)
           D == dec.ubs
           more(s) == [k \in 1 .. Cardinality({x \in TokensOf(ub) : x.s = s}) |->
                         tok[[s |-> s, p |-> Len(hist[s]) + k - 1]]]
<1>1. D \in Seq(PlacedUb) /\ D # << >> /\ kv \in GoodKv /\ dec.status = "ubatches"
  BY DEF ComputeUbatch, KvInv, GoodKv, KvGood, DecType
<1>2. ub \in PlacedUb
  <2> HIDE DEF D
  <2>1. Head(D) \in PlacedUb
    BY <1>1
  <2> QED BY <2>1 DEF D
<1>3. /\ kv' = ApplyUbatch(kv, ub) /\ mode' = mode
      /\ hist' = [s \in Seqs |-> hist[s] \o more(s)]
      /\ dec' = IF Len(D) = 1 THEN AtRest ELSE [dec EXCEPT !.ubs = Tail(D)]
  BY DEF ComputeUbatch, KvInv
<1> HIDE DEF ub
<1>4. kv' \in GoodKv
  BY <1>1, <1>2, <1>3, ApplyUbatchGood, FromFrom
<1>5. KvGood(kv')
  BY <1>4 DEF GoodKv
<1>6. dec' \in DecType /\ (dec'.status = "ubatches" => dec'.ubs # << >>)
  <2>1. CASE Len(D) = 1
    BY <1>3, <2>1, RestIs
  <2>2. CASE Len(D) # 1
    <3> DEFINE E == Tail(D)
    <3>1. E \in Seq(PlacedUb) /\ E # << >>
      <4> HIDE DEF D, E
      <4>1. Tail(D) \in Seq(PlacedUb) /\ Len(D) \in Nat /\ Len(D) # 0 /\ Len(Tail(D)) = Len(D) - 1
        BY ONLY <1>1
      <4>2. Len(Tail(D)) # 0
        BY ONLY <2>2, <4>1
      <4>3. Tail(D) # << >>
        <5>1. Len(<< >>) = 0
          OBVIOUS
        <5> QED BY ONLY <4>2, <5>1
      <4> QED BY ONLY <4>1, <4>3 DEF E
    <3>2. dec' = [dec EXCEPT !.ubs = E]
      BY <1>3, <2>2
    <3> HIDE DEF E
    <3> QED BY <3>1, <3>2 DEF KvInv, DecType
  <2> QED BY <2>1, <2>2
<1>7. Texts'
  <2>1. \A s \in Seqs : \E V : hist'[s] \in Seq(V)
    <3> SUFFICES ASSUME NEW s \in Seqs PROVE \E V : hist'[s] \in Seq(V)
      OBVIOUS
    <3> DEFINE S == {x \in TokensOf(ub) : x.s = s}
               n == Cardinality(S)
               old == hist[s]
    <3>1. n \in Nat
      BY <1>2, UbTokensFinite
    <3>2. PICK V : old \in Seq(V)
      BY DEF KvInv, Texts, Texted
    <3>3. hist'[s] = old \o more(s)
      BY <1>3
    <3> HIDE DEF n, old
    <3> DEFINE f(k) == tok[[s |-> s, p |-> Len(hist[s]) + k - 1]]
               W == V \cup {f(k) : k \in 1 .. n}
               q == [k \in 1 .. n |-> f(k)]
    <3>4. more(s) = q
      BY DEF n
    <3> HIDE DEF f
    <3>5. q \in Seq(W) /\ old \in Seq(W)
      BY <3>1, <3>2
    <3> HIDE DEF q, W
    <3>6. old \o q \in Seq(W)
      BY <3>5
    <3> QED BY <3>3, <3>4, <3>6
  <2>2. hist' = [s \in Seqs |-> hist'[s]]
    BY <1>3
  <2> QED BY <2>1, <2>2 DEF Texts, Texted
<1>8. mode' \in Modes
  BY <1>3 DEF KvInv
<1> QED BY <1>5, <1>6, <1>7, <1>8 DEF KvInv
(* A ubatch fails. *)
LEMMA FailKeeps ==
    ASSUME KvInv, UbatchFails
    PROVE  KvInv'
<1> DEFINE ub == Head(dec.ubs)
           D == dec.ubs
           k == ApplyUbatch(kv, ub)
<1>1. D \in Seq(PlacedUb) /\ D # << >> /\ kv \in GoodKv
  BY DEF UbatchFails, KvInv, GoodKv, KvGood, DecType
<1>2. ub \in PlacedUb
  <2> HIDE DEF D
  <2>1. Head(D) \in PlacedUb
    BY <1>1
  <2> QED BY <2>1 DEF D
<1>3. kv' = Retract(k, ub) /\ mode' = mode /\ hist' = hist /\ dec' = AtRest
  BY DEF UbatchFails
<1> HIDE DEF ub
<1>4. k \in GoodKv
  <2> HIDE DEF k
  <2> QED BY <1>1, <1>2, ApplyUbatchGood, FromFrom DEF k
<1> HIDE DEF k
<1>5. kv' \in GoodKv
  BY <1>2, <1>3, <1>4, PlacedIsUb, RetractGood
<1> QED BY <1>3, <1>5, RestIs DEF KvInv, GoodKv, KvGood, Texts

(* What the operations between two decodes have in common. *)
LEMMA IdleKeeps ==
    ASSUME KvInv, Idle, NEW x, KvGood(x), kv' = x, Texted(hist'), mode' = mode, dec' = dec
    PROVE  KvInv'
BY DEF KvInv, Idle, Texts

(* seq_rm from a position on. *)
LEMMA RmKeeps ==
    ASSUME KvInv, NEW s \in Seqs, NEW p \in Pos, p < Len(hist[s]), SeqRmOp(s, p)
    PROVE  KvInv'
<1> DEFINE x == SeqRm(kv, Strm(s), s, p, -1)
           old == hist[s]
           e == SubSeq(old, 1, p)
<1>1. Idle /\ kv' = x /\ hist' = [hist EXCEPT ![s] = e] /\ mode' = mode /\ dec' = dec
  BY DEF SeqRmOp, SetKv
<1>2. KvGood(x)
  <2> HIDE DEF x
  <2> QED BY StrmIn, SeqRmGood DEF x, KvInv
<1>3. PICK V : old \in Seq(V)
  BY DEF KvInv, Texts, Texted
<1>4. e \in Seq(V)
  <2> HIDE DEF old
  <2>1. p \in Nat /\ p < Len(old) /\ Len(old) \in Nat
    BY <1>3, Sizes DEF old
  <2> QED BY <1>3, <2>1, PartIs
<1> HIDE DEF x, e
<1>5. Texted(hist')
  BY <1>1, <1>4, NewText DEF KvInv, Texts
<1> QED BY <1>1, <1>2, <1>5, IdleKeeps

(* seq_rm of everything leaves a sequence without a cell. *)
LEMMA RmAll ==
    ASSUME NEW k, KvGood(k), NEW st \in Seqs, NEW s \in Seqs, NEW x, x = SeqRm(k, st, s, 0, -1)
    PROVE  KvGood(x) /\ \A i \in Idx : s \notin x.cells[st].seq[i]
<1> DEFINE c == k.cells[st]
           S == InRange(c, s, 0, -1)
<1>1. /\ KvGood(x)
      /\ \A i \in S : s \notin x.cells[st].seq[i]
      /\ \A i \in Idx \ S : x.cells[st].seq[i] = c.seq[i]
  BY SeqRmGood
<1>2. Good(c)
  BY DEF KvGood
<1> HIDE DEF c
<1>3. \A i \in Idx : s \in c.seq[i] => i \in S
  <2> SUFFICES ASSUME NEW i \in Idx, s \in c.seq[i] PROVE i \in S
    OBVIOUS
  <2>1. c.pos[i] \in Pos
    BY <1>2, GoodLoose
  <2>2. c.pos[i] >= 0 /\ c.pos[i] < MaxPos + 1
    BY <2>1, Sizes DEF Pos
  <2> QED BY <2>2, Sizes DEF InRange, PosIn, Lo, Hi
<1> HIDE DEF S
<1> QED BY <1>1, <1>3

(* seq_cp, after the target was emptied. *)
LEMMA CpKeeps ==
    ASSUME KvInv, NEW src \in Seqs, NEW dst \in Seqs, NEW p \in Pos, p \in 1 .. Len(hist[src]), SeqCpOp(src, dst, p)
    PROVE  KvInv'
<1> DEFINE k == SeqRm(kv, Strm(dst), dst, 0, -1)
           old == hist[src]
           e == SubSeq(old, 1, p)
<1>1. Idle /\ hist' = [hist EXCEPT ![dst] = e] /\ mode' = mode /\ dec' = dec
  BY DEF SeqCpOp
<1>2. \/ Unified /\ kv' = SeqCpShare(k, 0, src, dst, 0, p)
      \/ ~Unified /\ kv' = SeqCpStream(k, src, dst, src, dst)
  BY DEF SeqCpOp, SetKv
<1>3. KvGood(k) /\ \A i \in Idx : dst \notin k.cells[Strm(dst)].seq[i]
  <2> HIDE DEF k
  <2> QED BY StrmIn, RmAll DEF k, KvInv
<1> HIDE DEF k
<1>4. KvGood(kv')
  <2>1. CASE Unified /\ kv' = SeqCpShare(k, 0, src, dst, 0, p)
    <3>1. Strm(dst) = 0 /\ 0 \in Seqs /\ p \in Nat
      BY <2>1, Sizes DEF Strm, Seqs
    <3> QED BY <1>3, <2>1, <3>1, SeqCpShareGood
  <2>2. CASE ~Unified /\ kv' = SeqCpStream(k, src, dst, src, dst)
    BY <1>3, <2>2, SeqCpStreamGood
  <2> QED BY <1>2, <2>1, <2>2
<1>5. PICK V : old \in Seq(V)
  BY DEF KvInv, Texts, Texted
<1>6. e \in Seq(V)
  <2> HIDE DEF old
  <2>1. p \in Nat /\ p <= Len(old) /\ Len(old) \in Nat
    BY <1>5, Sizes DEF old
  <2> QED BY <1>5, <2>1, PartIs
<1> HIDE DEF e
<1>7. Texted(hist')
  BY <1>1, <1>6, NewText DEF KvInv, Texts
<1> QED BY <1>1, <1>4, <1>7, IdleKeeps

(* seq_keep: the other sequences of the stream are emptied. *)
LEMMA KeepKeeps ==
    ASSUME KvInv, NEW s \in Seqs, SeqKeepOp(s)
    PROVE  KvInv'
<1> DEFINE x == SeqKeep(kv, Strm(s), s)
           h == [t \in Seqs |-> IF t = s THEN hist[s] ELSE << >>]
<1>1. Idle /\ kv' = x /\ hist' = (IF Unified THEN h ELSE hist) /\ mode' = mode /\ dec' = dec
  BY DEF SeqKeepOp, SetKv
<1>2. KvGood(x)
  <2> HIDE DEF x
  <2> QED BY StrmIn, SeqKeepGood DEF x, KvInv
<1>3. Texted(h)
  <2>1. \A t \in Seqs : h[t] = IF t = s THEN hist[s] ELSE << >>
    OBVIOUS
  <2>2. h = [t \in Seqs |-> h[t]]
    OBVIOUS
  <2>3. << >> \in Seq({})
    OBVIOUS
  <2> HIDE DEF h
  <2> QED BY <2>1, <2>2, <2>3 DEF KvInv, Texts, Texted
<1> HIDE DEF x, h
<1>4. Texted(hist')
  BY <1>1, <1>3 DEF KvInv, Texts
<1> QED BY <1>1, <1>2, <1>4, IdleKeeps

(* A context shift. *)
LEMMA ShiftKeeps ==
    ASSUME KvInv, NEW s \in Seqs, NEW keep \in 0 .. 1, NEW d \in 1 .. 2, ShiftOp(s, keep, d)
    PROVE  KvInv'
<1> DEFINE old == hist[s]
           n == Len(old)
           k == SeqRm(kv, Strm(s), s, keep, keep + d)
           x == SeqAdd(k, Strm(s), s, keep + d, n, -d)
           e == SubSeq(old, 1, keep) \o SubSeq(old, keep + d + 1, n)
<1>1. Idle /\ keep + d < n /\ kv' = x /\ hist' = [hist EXCEPT ![s] = e] /\ mode' = mode /\ dec' = dec
  BY DEF ShiftOp, SetKv
<1>2. PICK V : old \in Seq(V)
  BY DEF KvInv, Texts, Texted
<1>3. KvGood(k)
  <2> HIDE DEF k
  <2> QED BY StrmIn, SeqRmGood DEF k, KvInv
<1> HIDE DEF k, old
<1>4. n \in Nat /\ keep \in Nat /\ keep + d \in Nat /\ -d \in Int /\ -d <= 0 /\ keep <= n
  BY <1>1, <1>2
<1>5. KvGood(x)
  <2> HIDE DEF x, n
  <2> QED BY <1>3, <1>4, StrmIn, SeqAddGood DEF x
<1>6. e \in Seq(V)
  <2> DEFINE u == SubSeq(old, 1, keep)
             w == SubSeq(old, keep + d + 1, n)
  <2>1. u \in Seq(V)
    BY <1>2, <1>4, PartIs
  <2>2. w \in Seq(V)
    <3>1. keep + d + 1 \in Int /\ keep + d + 1 >= 1 /\ n <= Len(old)
      BY <1>4
    <3> QED BY <1>2, <1>4, <3>1, PartIs
  <2> HIDE DEF u, w
  <2>3. u \o w \in Seq(V)
    BY <2>1, <2>2
  <2> QED BY <2>3 DEF u, w
<1> HIDE DEF x, e
<1>7. Texted(hist')
  BY <1>1, <1>6, NewText DEF KvInv, Texts, old
<1> QED BY <1>1, <1>5, <1>7, IdleKeeps

(* clear *)
LEMMA ClearKeeps ==
    ASSUME KvInv, Clear
    PROVE  KvInv'
<1> DEFINE x == [cells |-> [s \in Seqs |-> Reset], head |-> [s \in Seqs |-> 0]]
           h == [s \in Seqs |-> << >>]
<1>1. kv' = x /\ hist' = h /\ dec' = AtRest /\ mode' = mode
  BY DEF Clear, SetKv
<1>2. KvGood(x)
  <2> HIDE DEF x
  <2> QED BY EmptyGood DEF x
<1>3. Texted(h)
  BY NoText
<1> HIDE DEF x, h
<1> QED BY <1>1, <1>2, <1>3, RestIs DEF KvInv, Texts

(* Every cell is seen alike by the three views. *)
LEMMA GoodExact == KvInv => IndexExact
<1> SUFFICES ASSUME KvInv PROVE IndexExact
  OBVIOUS
<1>1. \A st \in Seqs : Good(kv.cells[st])
  BY DEF KvInv, KvGood
<1>2. ASSUME NEW st \in Seqs, NEW c, c = kv.cells[st]
      PROVE  /\ \A i \in Idx : /\ (i \in c.used) <=> (c.pos[i] # -1)
                               /\ (c.seq[i] = {}) <=> (c.pos[i] = -1)
             /\ \A s \in Seqs, p \in Pos :
                   c.seq_pos[s][p] = Cardinality({i \in Idx : s \in c.seq[i] /\ c.pos[i] = p})
  <2>1. Good(c)
    BY <1>1, <1>2
  <2> QED BY <2>1 DEF Good, Views, Counted, Holders
<1> QED BY <1>2 DEF IndexExact

(* The invariant holds in the beginning. *)
LEMMA InitGood == Init => KvInv
<1> SUFFICES ASSUME Init PROVE KvInv
  OBVIOUS
<1>1. KvGood(kv)
  BY EmptyGood DEF Init
<1>2. Texts
  BY NoText DEF Init, Texts
<1> QED BY <1>1, <1>2, RestIs DEF Init, KvInv

(* Every step keeps it. *)
LEMMA NextGood == KvInv /\ [Next]_vars => KvInv'
<1> SUFFICES ASSUME KvInv, [Next]_vars PROVE KvInv'
  OBVIOUS
<1>1. CASE \E b \in Batches : DecodeStart(b)
  BY <1>1, DecodeKeeps
<1>2. CASE \E t \in Toks : ComputeUbatch([x \in TokensOf(Head(dec.ubs)) |-> t])
  BY <1>2, ComputeKeeps
<1>3. CASE UbatchFails
  BY <1>3, FailKeeps
<1>4. CASE \E s \in Seqs, p \in Pos : p < Len(hist[s]) /\ WindowStored(s, p) /\ SeqRmOp(s, p)
  BY <1>4, RmKeeps
<1>5. CASE \E src, dst \in Seqs, p \in Pos :
              p \in 1 .. Len(hist[src]) /\ WindowStored(src, p) /\ SeqCpOp(src, dst, p)
  BY <1>5, CpKeeps
<1>6. CASE \E s \in Seqs : SeqKeepOp(s)
  BY <1>6, KeepKeeps
<1>7. CASE \E s \in Seqs, keep \in 0 .. 1, d \in 1 .. 2 : mode.shift /\ ShiftOp(s, keep, d)
  BY <1>7, ShiftKeeps
<1>8. CASE (Idle \/ dec.status = "refused") /\ Clear
  BY <1>8, ClearKeeps
<1>9. CASE UNCHANGED vars
  BY <1>9 DEF vars, KvInv, Texts
<1> QED BY <1>1, <1>2, <1>3, <1>4, <1>5, <1>6, <1>7, <1>8, <1>9 DEF Next

(***************************************************************************)
(* Whatever the caller, the contexts, the sizes and the order of decodes,  *)
(* failures and sequence operations, "used", the positions and the owners  *)
(* of the cells agree in every stream, and seq_pos counts the cells of     *)
(* every sequence at every position.                                       *)
(***************************************************************************)
THEOREM IndexAlwaysExact == Spec => []IndexExact
<1> QED BY InitGood, NextGood, GoodExact, PTL DEF Spec
-----------------------------------------------------------------------------
(* The texts stay within the positions: what is still to be computed of a  *)
(* batch fits behind the texts.                                            *)
Pending(ubs, s) == {x \in UNION {TokensOf(ubs[i]) : i \in DOMAIN ubs} : x.s = s}

BoundInv ==
    /\ sc_info \in Seq(Seqs \X Seqs)
    /\ \A s \in Seqs : Len(hist[s]) <= mode.text
    /\ dec.status = "ubatches" =>
          /\ Disjoint(dec.ubs)
          /\ \A s \in Seqs : Len(hist[s]) + Cardinality(Pending(dec.ubs, s)) <= mode.text

(* The length of a text and the limit are numbers. *)
LEMMA LengthsIn ==
    ASSUME KvInv
    PROVE  mode.text \in Nat /\ mode.text <= MaxPos + 1 /\ \A s \in Seqs : Len(hist[s]) \in Nat
<1>1. mode.text \in 0 .. MaxPos + 1 /\ MaxPos \in Nat
  BY CallerAssumption, Sizes DEF KvInv
<1>2. \A s \in Seqs : Len(hist[s]) \in Nat
  BY DEF KvInv, Texts, Texted
<1> QED BY <1>1, <1>2

(* New tokens of one sequence fit. *)
LEMMA FreshFits ==
    ASSUME KvInv, NEW s \in Seqs, Len(hist[s]) <= mode.text, NEW T, T \subseteq Fresh, \A t \in T : t.s = s
    PROVE  IsFiniteSet(T) /\ Len(hist[s]) + Cardinality(T) <= mode.text
<1> DEFINE L == Len(hist[s])
           M == mode.text - 1
           f == [t \in T |-> t.p]
<1>1. L \in Nat /\ M \in Int /\ mode.text \in Nat /\ L <= M + 1 /\ M + 1 = mode.text
  BY LengthsIn
<1>2. \A t \in T : t.p \in L .. M /\ t = [s |-> s, p |-> t.p]
  <2> SUFFICES ASSUME NEW t \in T PROVE t.p \in L .. M /\ t = [s |-> s, p |-> t.p]
    OBVIOUS
  <2>1. t \in TokType /\ t.s = s /\ Len(hist[t.s]) <= t.p /\ t.p < mode.text
    BY DEF Fresh
  <2>2. t = [s |-> t.s, p |-> t.p] /\ t.p \in Pos
    BY <2>1 DEF TokType
  <2>3. t.p \in Nat /\ L <= t.p
    BY <2>1, <2>2, Sizes
  <2>4. t.p \in L .. M
    BY <1>1, <2>1, <2>3
  <2> QED BY <2>1, <2>2, <2>4
<1> HIDE DEF L, M
<1>3. f \in [T -> L .. M] /\ \A t, u \in T : f[t] = f[u] => t = u
  BY <1>2
<1> HIDE DEF f
<1>4. f \in Injection(T, L .. M)
  BY <1>3 DEF Injection, IsInjective
<1>5. IsFiniteSet(L .. M) /\ Cardinality(L .. M) = IF L > M THEN 0 ELSE M - L + 1
  <2>1. L \in Int /\ M \in Int
    BY ONLY <1>1
  <2> QED BY ONLY <2>1, FS_Interval
<1>6. IsFiniteSet(T) /\ Cardinality(T) <= Cardinality(L .. M)
  BY <1>4, <1>5, FS_Injection
<1>7. Cardinality(T) \in Nat
  BY <1>6, FS_CardinalityType
<1>8. Cardinality(T) <= mode.text - L
  BY <1>1, <1>5, <1>6, <1>7
<1> QED BY <1>1, <1>6, <1>7, <1>8 DEF L

(* The first ubatch and those behind it share what is still to come. *)
LEMMA PendingIs ==
    ASSUME NEW D \in Seq(PlacedUb), D # << >>, Disjoint(D), NEW s
    PROVE  /\ Disjoint(Tail(D))
           /\ Cardinality({x \in TokensOf(Head(D)) : x.s = s}) \in Nat
           /\ Cardinality(Pending(Tail(D), s)) \in Nat
           /\ Cardinality(Pending(D, s)) =
                Cardinality({x \in TokensOf(Head(D)) : x.s = s}) + Cardinality(Pending(Tail(D), s))
<1> DEFINE E == Tail(D)
           m == Len(D)
           H == {x \in TokensOf(Head(D)) : x.s = s}
           R == Pending(E, s)
           P == Pending(D, s)
<1>1. /\ m \in Nat /\ m >= 1 /\ DOMAIN D = 1 .. m /\ Head(D) = D[1] /\ DOMAIN E = 1 .. m - 1
      /\ \A i \in 1 .. m - 1 : E[i] = D[i + 1]
  OBVIOUS
<1>2. \A i \in DOMAIN D : D[i] \in PlacedUb
  OBVIOUS
<1> HIDE DEF m, E
<1>3. \A i \in DOMAIN E : i + 1 \in DOMAIN D /\ E[i] = D[i + 1] /\ i + 1 # 1 /\ i \in Int
  BY <1>1
<1>4. Disjoint(E)
  <2> SUFFICES ASSUME NEW i \in DOMAIN E, NEW j \in DOMAIN E, i # j
               PROVE  TokensOf(E[i]) \cap TokensOf(E[j]) = {}
    BY DEF Disjoint
  <2>1. i + 1 # j + 1
    BY <1>3
  <2> QED BY <1>3, <2>1 DEF Disjoint
<1>5. \A j \in DOMAIN D : j = 1 \/ \E i \in DOMAIN E : j = i + 1
  <2> SUFFICES ASSUME NEW j \in DOMAIN D, j # 1 PROVE \E i \in DOMAIN E : j = i + 1
    OBVIOUS
  <2>1. j - 1 \in DOMAIN E /\ j = (j - 1) + 1
    BY <1>1
  <2> QED BY <2>1
<1>6. P = H \cup R
  <2>1. ASSUME NEW x \in P PROVE x \in H \cup R
    <3>1. PICK j \in DOMAIN D : x \in TokensOf(D[j]) /\ x.s = s
      BY <2>1 DEF Pending
    <3>2. CASE j = 1
      BY <1>1, <3>1, <3>2
    <3>3. CASE \E i \in DOMAIN E : j = i + 1
      BY <1>3, <3>1, <3>3 DEF Pending
    <3> QED BY <1>5, <3>2, <3>3
  <2>2. ASSUME NEW x \in H PROVE x \in P
    <3>1. 1 \in DOMAIN D
      BY <1>1
    <3> QED BY <1>1, <2>2, <3>1 DEF Pending
  <2>3. ASSUME NEW x \in R PROVE x \in P
    BY <1>3, <2>3 DEF Pending
  <2> QED BY <2>1, <2>2, <2>3
<1>7. H \cap R = {}
  <2> SUFFICES ASSUME NEW x \in H, x \in R PROVE FALSE
    OBVIOUS
  <2>1. PICK i \in DOMAIN E : x \in TokensOf(E[i])
    BY DEF Pending
  <2>2. 1 \in DOMAIN D /\ i + 1 \in DOMAIN D /\ 1 # i + 1 /\ x \in TokensOf(D[1]) /\ x \in TokensOf(D[i + 1])
    BY <1>1, <1>3, <2>1
  <2> QED BY <2>2 DEF Disjoint
<1>8. IsFiniteSet(H) /\ IsFiniteSet(R)
  <2>1. P \subseteq TokType
    <3>1. \A i \in DOMAIN D : TokensOf(D[i]) \subseteq TokType
      BY <1>2, PlacedIsUb, TokensIn
    <3> QED BY <3>1 DEF Pending
  <2>2. H \subseteq TokType /\ R \subseteq TokType
    BY <1>6, <2>1
  <2> HIDE DEF H, R
  <2> QED BY <2>2, TokensFinite, FS_Subset
<1> HIDE DEF H, R, P
<1>9. Cardinality(P) = Cardinality(H) + Cardinality(R) - Cardinality({})
  BY <1>6, <1>7, <1>8, FS_Union
<1>10. Cardinality({}) = 0 /\ Cardinality(H) \in Nat /\ Cardinality(R) \in Nat
  BY <1>8, FS_EmptySet, FS_CardinalityType
<1>11. Cardinality(P) = Cardinality(H) + Cardinality(R)
  BY <1>9, <1>10
<1> QED BY <1>4, <1>10, <1>11 DEF E, H, R, P

(* One text is replaced by one that is not too long. *)
LEMMA NewLength ==
    ASSUME NEW h, Texted(h), NEW n, \A t \in Seqs : Len(h[t]) <= n, NEW s \in Seqs, NEW e, Len(e) <= n,
           NEW g, g = [h EXCEPT ![s] = e]
    PROVE  \A t \in Seqs : Len(g[t]) <= n
<1>1. h = [t \in Seqs |-> h[t]]
  BY DEF Texted
<1>2. \A t \in Seqs : g[t] = IF t = s THEN e ELSE h[t]
  BY <1>1
<1> QED BY <1>2

(* The length of a part. *)
LEMMA PartLen ==
    ASSUME NEW X, NEW q \in Seq(X), NEW m \in Int, NEW n \in Int, m >= 1, n <= Len(q)
    PROVE  Len(SubSeq(q, m, n)) = IF m <= n THEN n - m + 1 ELSE 0
OBVIOUS
(* decode begins: the batch fits. *)
LEMMA DecodeBounded ==
    ASSUME KvInv, BoundInv, NEW b \in Batches, DecodeStart(b)
    PROVE  BoundInv'
<1>1. b \in Seq(TokType) /\ Distinct(b) /\ \A i \in DOMAIN b : b[i] \in Fresh
  BY BatchIs DEF KvInv
<1>2. PICK k \in GoodKv : Begun(k, b)
  BY DecodeTries
<1> DEFINE ubs == Split(b)
           try == Prepare(k, ubs)
<1>3. ubs \in Seq(UbType) /\ Within(ubs, Range(b)) /\ Disjoint(ubs)
  BY <1>1, SplitIs
<1>4. /\ hist' = hist /\ mode' = mode /\ sc_info' = << >>
      /\ dec' = Refused \/ (try.ok /\ dec' = [status |-> "ubatches", ubs |-> try.found])
  BY <1>2 DEF Begun
<1>r. Range(b) \subseteq Fresh
  BY <1>1 DEF Range
<1> HIDE DEF ubs
<1>5. try.found \in Seq(PlacedUb) /\ (try.ok => SameTokens(try.found, ubs, Len(ubs)))
  BY <1>3, PrepareGood
<1> HIDE DEF try
<1>6. ASSUME dec'.status = "ubatches"
      PROVE  /\ Disjoint(dec'.ubs)
             /\ \A s \in Seqs : Len(hist[s]) + Cardinality(Pending(dec'.ubs, s)) <= mode.text
  <2> DEFINE f == try.found
  <2>1. try.ok /\ dec'.ubs = f
    BY <1>4, <1>6, RestIs
  <2>2. f \in Seq(PlacedUb) /\ SameTokens(f, ubs, Len(ubs))
    BY <1>5, <2>1
  <2> HIDE DEF f
  <2>3. DOMAIN f = DOMAIN ubs /\ \A i \in DOMAIN f : TokensOf(f[i]) = TokensOf(ubs[i])
    <3>1. DOMAIN f = 1 .. Len(f) /\ DOMAIN ubs = 1 .. Len(ubs)
      BY <1>3, <2>2
    <3> QED BY <2>2, <3>1 DEF SameTokens
  <2>4. Disjoint(f)
    BY <1>3, <2>3 DEF Disjoint
  <2>5. \A i \in DOMAIN f : TokensOf(f[i]) \subseteq Fresh
    BY <1>3, <1>r, <2>3 DEF Within
  <2>6. ASSUME NEW s \in Seqs PROVE Len(hist[s]) + Cardinality(Pending(f, s)) <= mode.text
    <3> DEFINE T == Pending(f, s)
    <3>1. T \subseteq Fresh /\ \A t \in T : t.s = s
      BY <2>5 DEF Pending
    <3>2. Len(hist[s]) <= mode.text
      BY DEF BoundInv
    <3> HIDE DEF T
    <3>3. Len(hist[s]) + Cardinality(T) <= mode.text
      BY <3>1, <3>2, FreshFits
    <3> QED BY <3>3 DEF T
  <2> QED BY <2>1, <2>4, <2>6
<1>7. << >> \in Seq(Seqs \X Seqs)
  OBVIOUS
<1> QED BY <1>4, <1>6, <1>7 DEF BoundInv

(* A ubatch is computed: its tokens are no longer to come. *)
LEMMA ComputeBounded ==
    ASSUME KvInv, BoundInv, NEW tok, ComputeUbatch(tok)
    PROVE  BoundInv'
<1> DEFINE ub == Head(dec.ubs)
           D == dec.ubs
           C(s) == Cardinality({x \in TokensOf(ub) : x.s = s})
           R(s) == Cardinality(Pending(Tail(D), s))
           more(s) == [k \in 1 .. C(s) |-> tok[[s |-> s, p |-> Len(hist[s]) + k - 1]]]
<1>1. /\ D \in Seq(PlacedUb) /\ D # << >> /\ dec.status = "ubatches" /\ Disjoint(D)
      /\ \A s \in Seqs : Len(hist[s]) + Cardinality(Pending(D, s)) <= mode.text
  BY DEF ComputeUbatch, KvInv, DecType, BoundInv
<1>3. /\ mode' = mode /\ sc_info' = sc_info
      /\ hist' = [s \in Seqs |-> hist[s] \o more(s)]
      /\ dec' = IF Len(D) = 1 THEN AtRest ELSE [dec EXCEPT !.ubs = Tail(D)]
  BY DEF ComputeUbatch, KvInv
<1> DEFINE Whole(s) == Cardinality(Pending(D, s))
<1>4. Disjoint(Tail(D)) /\ \A s \in Seqs : C(s) \in Nat /\ R(s) \in Nat /\ Whole(s) = C(s) + R(s)
  <2> HIDE DEF D
  <2>1. \A s : /\ Disjoint(Tail(D)) /\ Cardinality({x \in TokensOf(Head(D)) : x.s = s}) \in Nat
               /\ Cardinality(Pending(Tail(D), s)) \in Nat
               /\ Cardinality(Pending(D, s)) =
                    Cardinality({x \in TokensOf(Head(D)) : x.s = s}) + Cardinality(Pending(Tail(D), s))
    BY <1>1, PendingIs
  <2>2. ub = Head(D)
    BY DEF D
  <2> QED BY <2>1, <2>2
<1> HIDE DEF ub, C, R, Whole
<1>5. \A s \in Seqs : Len(hist'[s]) = Len(hist[s]) + C(s)
  <2> SUFFICES ASSUME NEW s \in Seqs PROVE Len(hist'[s]) = Len(hist[s]) + C(s)
    OBVIOUS
  <2> DEFINE old == hist[s]
             q == more(s)
  <2>1. hist'[s] = old \o q
    BY <1>3
  <2>2. PICK V : old \in Seq(V)
    BY DEF KvInv, Texts, Texted
  <2>3. q \in Seq({q[k] : k \in 1 .. C(s)}) /\ Len(q) = C(s)
    <3> DEFINE g(k) == tok[[s |-> s, p |-> Len(hist[s]) + k - 1]]
    <3> HIDE DEF g
    <3>1. q = [k \in 1 .. C(s) |-> g(k)]
      BY DEF g
    <3> HIDE DEF q
    <3> QED BY <1>4, <3>1
  <2> HIDE DEF old, q
  <2>4. Len(old \o q) = Len(old) + Len(q)
    BY <2>2, <2>3
  <2> QED BY <2>1, <2>3, <2>4 DEF old
<1>6. \A s \in Seqs : Len(hist[s]) + Whole(s) <= mode.text
  BY <1>1 DEF Whole
<1>7. \A s \in Seqs : Len(hist[s]) \in Nat /\ mode.text \in Nat
  BY LengthsIn
<1>8. \A s \in Seqs : Len(hist'[s]) <= mode.text /\ Len(hist'[s]) + R(s) <= mode.text
  BY <1>4, <1>5, <1>6, <1>7
<1>9. dec'.status = "ubatches" => dec'.ubs = Tail(D)
  <2>1. CASE Len(D) = 1
    BY <1>3, <2>1, RestIs
  <2>2. CASE Len(D) # 1
    BY <1>3, <2>2 DEF KvInv, DecType
  <2> QED BY <2>1, <2>2
<1> QED BY <1>3, <1>4, <1>8, <1>9 DEF BoundInv, R

(* What the other operations have in common. *)
LEMMA IdleBounded ==
    ASSUME BoundInv, \A s \in Seqs : Len(hist'[s]) <= mode.text, mode' = mode, dec'.status # "ubatches",
           sc_info' \in Seq(Seqs \X Seqs)
    PROVE  BoundInv'
BY DEF BoundInv

(* The operations between two decodes make no text longer. *)
LEMMA RestBounded ==
    ASSUME KvInv, BoundInv,
           \/ UbatchFails
           \/ \E s \in Seqs, p \in Pos : p < Len(hist[s]) /\ SeqRmOp(s, p)
           \/ \E src, dst \in Seqs, p \in Pos : p \in 1 .. Len(hist[src]) /\ SeqCpOp(src, dst, p)
           \/ \E s \in Seqs : SeqKeepOp(s)
           \/ \E s \in Seqs, keep \in 0 .. 1, d \in 1 .. 2 : ShiftOp(s, keep, d)
           \/ Clear
    PROVE  BoundInv'
<1> DEFINE n == mode.text
<1>1. Texted(hist) /\ n \in Nat /\ \A s \in Seqs : Len(hist[s]) \in Nat /\ Len(hist[s]) <= n
  BY LengthsIn DEF KvInv, Texts, BoundInv
<1>2. sc_info \in Seq(Seqs \X Seqs)
  BY DEF BoundInv
<1>e. Len(<< >>) = 0
  OBVIOUS
<1>3. CASE UbatchFails
  <2>1. hist' = hist /\ mode' = mode /\ sc_info' = sc_info /\ dec'.status # "ubatches"
    BY <1>3, RestIs DEF UbatchFails
  <2> QED BY <1>1, <1>2, <2>1, IdleBounded
<1>4. CASE \E s \in Seqs, p \in Pos : p < Len(hist[s]) /\ SeqRmOp(s, p)
  <2>1. PICK s \in Seqs, p \in Pos : p < Len(hist[s]) /\ SeqRmOp(s, p)
    BY <1>4
  <2> DEFINE old == hist[s]
             e == SubSeq(old, 1, p)
  <2>2. hist' = [hist EXCEPT ![s] = e] /\ mode' = mode /\ sc_info' = sc_info /\ dec'.status # "ubatches"
    BY <2>1 DEF SeqRmOp, Idle
  <2>3. Len(e) <= n
    <3>1. PICK V : old \in Seq(V)
      BY <1>1 DEF Texted
    <3>2. p \in Nat /\ p <= Len(old) /\ Len(old) \in Nat /\ Len(old) <= n
      BY <1>1, <2>1, Sizes
    <3> HIDE DEF old, n
    <3>3. Len(e) = IF 1 <= p THEN p - 1 + 1 ELSE 0
      BY <3>1, <3>2, PartLen
    <3> QED BY <1>1, <3>2, <3>3
  <2> HIDE DEF e, n
  <2>4. \A t \in Seqs : Len(hist'[t]) <= n
    BY <1>1, <2>2, <2>3, NewLength
  <2> QED BY <1>2, <2>2, <2>4, IdleBounded DEF n
<1>5. CASE \E src, dst \in Seqs, p \in Pos : p \in 1 .. Len(hist[src]) /\ SeqCpOp(src, dst, p)
  <2>1. PICK src \in Seqs, dst \in Seqs, p \in Pos : p \in 1 .. Len(hist[src]) /\ SeqCpOp(src, dst, p)
    BY <1>5
  <2> DEFINE old == hist[src]
             e == SubSeq(old, 1, p)
  <2>2. hist' = [hist EXCEPT ![dst] = e] /\ mode' = mode /\ dec'.status # "ubatches"
    BY <2>1 DEF SeqCpOp, Idle
  <2>s. sc_info' \in Seq(Seqs \X Seqs)
    <3>1. sc_info' = sc_info \/ sc_info' = Append(sc_info, <<src, dst>>)
      BY <2>1 DEF SeqCpOp
    <3> DEFINE S == Seqs \X Seqs
               c == <<src, dst>>
    <3>2. c \in S
      OBVIOUS
    <3> HIDE DEF S, c
    <3>3. Append(sc_info, c) \in Seq(S)
      BY <1>2, <3>2 DEF S
    <3> QED BY <1>2, <3>1, <3>3 DEF S, c
  <2>3. Len(e) <= n
    <3>1. PICK V : old \in Seq(V)
      BY <1>1 DEF Texted
    <3>2. p \in Nat /\ p <= Len(old) /\ Len(old) \in Nat /\ Len(old) <= n
      BY <1>1, <2>1, Sizes
    <3> HIDE DEF old, n
    <3>3. Len(e) = IF 1 <= p THEN p - 1 + 1 ELSE 0
      BY <3>1, <3>2, PartLen
    <3> QED BY <1>1, <3>2, <3>3
  <2> HIDE DEF e, n
  <2>4. \A t \in Seqs : Len(hist'[t]) <= n
    BY <1>1, <2>2, <2>3, NewLength
  <2> QED BY <2>s, <2>2, <2>4, IdleBounded DEF n
<1>6. CASE \E s \in Seqs : SeqKeepOp(s)
  <2>1. PICK s \in Seqs : SeqKeepOp(s)
    BY <1>6
  <2>2. /\ hist' = IF Unified THEN [t \in Seqs |-> IF t = s THEN hist[s] ELSE << >>] ELSE hist
        /\ mode' = mode /\ sc_info' = sc_info /\ dec'.status # "ubatches"
    BY <2>1 DEF SeqKeepOp, Idle
  <2>3. \A t \in Seqs : hist'[t] \in {hist[t], << >>}
    BY <2>2
  <2>4. \A t \in Seqs : Len(hist'[t]) <= n
    BY <1>1, <1>e, <2>3
  <2> QED BY <1>2, <2>2, <2>4, IdleBounded
<1>7. CASE \E s \in Seqs, keep \in 0 .. 1, d \in 1 .. 2 : ShiftOp(s, keep, d)
  <2>1. PICK s \in Seqs, keep \in 0 .. 1, d \in 1 .. 2 : ShiftOp(s, keep, d)
    BY ONLY <1>7
  <2> DEFINE old == hist[s]
             m == Len(old)
             u == SubSeq(old, 1, keep)
             w == SubSeq(old, keep + d + 1, m)
             e == u \o w
  <2>2. /\ hist' = [hist EXCEPT ![s] = e] /\ mode' = mode /\ sc_info' = sc_info /\ dec'.status # "ubatches"
        /\ keep + d < m
    BY <2>1 DEF ShiftOp, Idle
  <2>3. Len(e) <= n
    <3>1. PICK V : old \in Seq(V)
      BY <1>1 DEF Texted
    <3>2. m \in Nat /\ m <= n /\ keep \in Nat /\ d \in Nat /\ keep <= m /\ keep + d + 1 >= 1 /\ keep + d + 1 <= m
      BY <1>1, <2>2
    <3>3. u \in Seq(V) /\ Len(u) = IF 1 <= keep THEN keep - 1 + 1 ELSE 0
      <4> HIDE DEF old, n
      <4> QED BY <3>1, <3>2, PartIs, PartLen
    <3>4. w \in Seq(V) /\ Len(w) = m - (keep + d + 1) + 1
      <4> DEFINE lo == keep + d + 1
      <4>1. lo \in Int /\ lo >= 1 /\ lo <= m /\ m \in Int /\ m <= Len(old)
        BY <3>2
      <4> HIDE DEF old, n, lo
      <4>2. SubSeq(old, lo, m) \in Seq(V) /\ Len(SubSeq(old, lo, m)) = m - lo + 1
        BY <3>1, <4>1, PartIs, PartLen
      <4> QED BY <4>2 DEF lo
    <3> HIDE DEF u, w, m, n
    <3>5. Len(u \o w) = Len(u) + Len(w)
      BY <3>3, <3>4
    <3> QED BY <1>1, <3>2, <3>3, <3>4, <3>5
  <2> HIDE DEF e, n
  <2>4. \A t \in Seqs : Len(hist'[t]) <= n
    BY <1>1, <2>2, <2>3, NewLength
  <2> QED BY <1>2, <2>2, <2>4, IdleBounded DEF n
<1>8. CASE Clear
  <2>1. hist' = [s \in Seqs |-> << >>] /\ mode' = mode /\ sc_info' = sc_info /\ dec'.status # "ubatches"
    BY <1>8, RestIs DEF Clear
  <2>2. \A t \in Seqs : Len(hist'[t]) <= n
    BY <1>1, <1>e, <2>1
  <2> QED BY <1>2, <2>1, <2>2, IdleBounded
<1> QED BY <1>3, <1>4, <1>5, <1>6, <1>7, <1>8
(* Every step keeps the texts within their bound. *)
LEMMA NextBounded == KvInv /\ BoundInv /\ [Next]_vars => BoundInv'
<1> SUFFICES ASSUME KvInv, BoundInv, [Next]_vars PROVE BoundInv'
  OBVIOUS
<1>1. CASE \E b \in Batches : DecodeStart(b)
  BY <1>1, DecodeBounded
<1>2. CASE \E t \in Toks : ComputeUbatch([x \in TokensOf(Head(dec.ubs)) |-> t])
  BY <1>2, ComputeBounded
<1>3. CASE \/ UbatchFails
           \/ \E s \in Seqs, p \in Pos : p < Len(hist[s]) /\ SeqRmOp(s, p)
           \/ \E src, dst \in Seqs, p \in Pos : p \in 1 .. Len(hist[src]) /\ SeqCpOp(src, dst, p)
           \/ \E s \in Seqs : SeqKeepOp(s)
           \/ \E s \in Seqs, keep \in 0 .. 1, d \in 1 .. 2 : ShiftOp(s, keep, d)
           \/ Clear
  BY <1>3, RestBounded
<1>4. CASE UNCHANGED vars
  BY <1>4 DEF vars, BoundInv
<1> QED BY <1>1, <1>2, <1>3, <1>4 DEF Next

(* The invariants say what TypeOK says. *)
LEMMA BoundedIsTyped == KvInv /\ BoundInv => TypeOK
<1> SUFFICES ASSUME KvInv, BoundInv PROVE TypeOK
  OBVIOUS
<1>1. mode.text \in Nat /\ mode.text <= MaxPos + 1 /\ MaxPos \in Nat /\ \A s \in Seqs : Len(hist[s]) \in Nat
  BY LengthsIn, Sizes
<1>2. \A s \in Seqs : Len(hist[s]) <= mode.text
  BY DEF BoundInv
<1>3. \A s \in Seqs : Len(hist[s]) <= MaxPos + 1
  BY <1>1, <1>2
<1>4. \A s \in Seqs : kv.cells[s] \in CellsType /\ kv.head[s] \in 0 .. Size
  BY DEF KvInv, KvGood, KvType
<1>5. mode \in Modes /\ dec.status \in {"idle", "ubatches", "refused"} /\ sc_info \in Seq(Seqs \X Seqs)
  BY DEF KvInv, DecType, BoundInv
<1> QED BY <1>3, <1>4, <1>5 DEF TypeOK

(***************************************************************************)
(* The cells, the heads, the queued copies and the decode keep their       *)
(* types; above all, a head never leaves the buffer and no text grows past *)
(* the last position, however a batch was split and whichever of its       *)
(* ubatches were computed before one failed.                               *)
(***************************************************************************)
THEOREM TypeCorrect == Spec => []TypeOK
<1>1. Init => BoundInv
  <2> SUFFICES ASSUME Init PROVE BoundInv
    OBVIOUS
  <2>1. KvInv
    BY InitGood
  <2>2. Len(<< >>) = 0 /\ << >> \in Seq(Seqs \X Seqs)
    OBVIOUS
  <2>3. \A s \in Seqs : Len(hist[s]) <= mode.text
    BY <2>1, <2>2, LengthsIn DEF Init
  <2> QED BY <2>2, <2>3, RestIs DEF Init, BoundInv
<1> QED BY <1>1, InitGood, NextGood, NextBounded, BoundedIsTyped, PTL DEF Spec

=============================================================================

---------------------------- MODULE RunnerStored ----------------------------
(***************************************************************************)
(* The theorem that the inputs a slot records are those stored in the KV   *)
(* cache, for any number of requests, places, tokens and batches.          *)
(***************************************************************************)
EXTENDS RunnerProofs

(***************************************************************************)
(* The input e was given out: it is a token, or the placeholder of a token *)
(* that a sequence has asked for.  It is open while a batch b has yet to   *)
(* sample that token.                                                      *)
(***************************************************************************)
Met(k, e) == e \in Toks \/ (e \in Pieces /\ e[2] \in 1 .. Len(k[e[1]]))
Open(b, e) == e \notin Toks /\ \E i \in Idx : b.next[i] # None /\ b.next[i] = e

\* The cell d has the key of the input e, which no batch can change any more.
Backed(c, k, f, e, d) == c[d] = Val(k, e) /\ Met(k, e) /\ \A j \in DOMAIN f : ~Open(f[j], e)
Holds(x, f, s) ==
    \A p \in 1 .. Len(x.slots[s].Inputs) : Backed(x.cell, x.tok, f, x.slots[s].Inputs[p], x.kv[s][p])

\* The input e is to be computed: if it is open, then for the batch right
\* before the one that will compute it, which waits for that batch.
Behind(f, j) == IF Latest(f).st = "built" THEN j = Len(f) - 1 /\ ~Latest(f).ready ELSE j = Len(f)
Due(k, f, l, e) == Met(k, e) /\ \A j \in DOMAIN f : Open(f[j], e) => l = "flying" /\ Behind(f, j)
AllDue(k, f, l, R) == \A p \in 1 .. Len(R) : Due(k, f, l, R[p])
Follows(k, f, l, q, r) ==
    AllDue(k, f, l, r.inputs) /\ AllDue(k, f, l, r.pending) /\ Len(k[q]) = r.numPredicted

\* The pending inputs P of a slot with n inputs are in the batch ins, in the
\* cells K of the slot.
At(P, K, n, p) == [inp |-> P[p], cell |-> K[n + p]]
Carried(c, ins, P, K, n) ==
    \A p \in 1 .. Len(P) : c[K[n + p]] = Pending /\ At(P, K, n, p) \in Range(ins)
Carries(x, i, ins) ==
    Carried(x.cell, ins, Who(x, i).pending, x.kv[Who(x, i).slot], Len(Inp(x, i)))

\* A batch has a cell for each of its inputs, and asks for tokens given out.
Single(ins) == \A d, e \in Range(ins) : d.cell = e.cell => d = e
Proper(k, b) == Single(b.ins) /\ \A i \in Idx : b.next[i] # None => Met(k, b.next[i])

Stored(x, f, l) ==
    /\ \A s \in Idx : Holds(x, f, s)
    /\ \A i \in Idx : Used(x, i) => Follows(x.tok, f, l, x.seqs[i], Who(x, i))
    /\ \A i \in Idx : Used(x, i) => Carries(x, i, Latest(f).ins)
    /\ \A j \in DOMAIN f : Proper(x.tok, f[j])
Blank(k) == \A q \in Req : hpc[q] \in {"new", "waiting", "admit"} => k[q] = << >>

\* Once a batch has started too early, keys of placeholders may be computed.
StoredInv == ~early => Stored(srv, flight, last) /\ Blank(srv.tok)
-----------------------------------------------------------------------------
(* The steps of the handlers, but for admission *)

(* The invariant depends on the configuration through the places only. *)
LEMMA StoredStep ==
    ASSUME conf' = conf, ~early' => Stored(srv', flight', last') /\ Blank(srv.tok)'
    PROVE  StoredInv'
<1>1. Idx' = Idx
  BY SameTypes
<1>2. Stored(srv', flight', last') => Stored(srv, flight, last)'
  <2>1. \A s : Holds(srv', flight', s) => Holds(srv, flight, s)'
    BY ZenonT(40), <1>1 DEF Holds, Backed, Met, Open, Val
  <2>2. \A q, r : Follows(srv'.tok, flight', last', q, r) => Follows(srv.tok, flight, last, q, r)'
    BY Zenon, <1>1 DEF Follows, AllDue, Due, Met, Open, Behind, Latest
  <2>3. \A i : Carries(srv', i, Latest(flight').ins) => Carries(srv, i, Latest(flight).ins)'
    BY Zenon, <1>1 DEF Carries, Carried, At, Who, Inp, Latest
  <2>4. \A b : Proper(srv'.tok, b) => Proper(srv.tok, b)'
    BY Zenon, <1>1 DEF Proper, Single, Met
  <2> QED BY ZenonT(40), <1>1, <2>1, <2>2, <2>3, <2>4 DEF Stored, Used, Who
<1> QED BY Zenon, <1>2 DEF StoredInv

\* Places, slots, cells, tokens and sequences in places are those of x in y.
Quiet(x, y) ==
    /\ y.seqs = x.seqs /\ y.slots = x.slots /\ y.kv = x.kv /\ y.cell = x.cell /\ y.tok = x.tok
    /\ \A i \in Idx : Used(x, i) => y.seq[x.seqs[i]] = x.seq[x.seqs[i]]
NotYet == {"new", "waiting", "admit"}

(* A step that changes none of it keeps the invariant. *)
LEMMA QuietStored ==
    ASSUME StoredInv, conf' = conf, early' = early, flight' = flight, last' = last, Quiet(srv, srv'),
           \A q \in Req : hpc'[q] \in NotYet => hpc[q] \in NotYet
    PROVE  StoredInv'
<1>1. SUFFICES ASSUME ~early'  PROVE Stored(srv', flight', last') /\ Blank(srv.tok)'
  BY Zenon, StoredStep
<1>2. Stored(srv, flight, last) /\ Blank(srv.tok)
  BY Zenon, <1>1 DEF StoredInv
<1>3. Blank(srv.tok)'
  BY <1>2 DEF Blank, Quiet, NotYet
<1>4. \A s \in Idx : Holds(srv', flight', s)
  BY Zenon, <1>2 DEF Stored, Holds, Quiet
<1>5. \A i \in Idx : Used(srv', i) => Used(srv, i) /\ Who(srv', i) = Who(srv, i) /\ Inp(srv', i) = Inp(srv, i)
  BY Zenon DEF Quiet, Used, Who, Inp
<1>6. \A i \in Idx : Used(srv', i) => Follows(srv'.tok, flight', last', srv'.seqs[i], Who(srv', i))
  BY Zenon, <1>2, <1>5 DEF Stored, Quiet
<1>7. \A i \in Idx : Used(srv', i) => Carries(srv', i, Latest(flight').ins)
  BY Zenon, <1>2, <1>5 DEF Stored, Quiet, Carries
<1>8. \A j \in DOMAIN flight' : Proper(srv'.tok, flight'[j])
  BY Zenon, <1>2 DEF Stored, Quiet
<1> QED BY Zenon, <1>3, <1>4, <1>6, <1>7, <1>8 DEF Stored

(* A request arrives. *)
LEMMA ArriveStored ==
    ASSUME Inv, StoredInv, NEW q \in Req, Arrive(q)
    PROVE  StoredInv'
<1>1. hpc[q] = "new" /\ srv \in SrvType /\ (\A i \in Idx : srv.seqs[i] # q) /\ hpc \in [Req -> Stages]
  BY Zenon, NotSeated DEF Arrive
<1>2. PICK t : srv' = srv \/ srv' = SetSeq(srv, q, t)
  BY DEF Arrive, SetSeq
<1>3. Quiet(srv, srv')
  <2>1. CASE srv' = srv
    BY <2>1 DEF Quiet
  <2>2. CASE srv' = SetSeq(srv, q, t)
    BY <1>1, <2>2 DEF Quiet, SetSeq, SrvType, Used
  <2> QED BY <1>2, <2>1, <2>2
<1>4. conf' = conf /\ early' = early /\ flight' = flight /\ last' = last
  BY DEF Arrive
<1>5. \A p \in Req : hpc'[p] \in NotYet => hpc[p] \in NotYet
  BY <1>1 DEF Arrive, NotYet
<1> QED BY Zenon, <1>3, <1>4, <1>5, QuietStored

(* A request gets a permit, or gives up. *)
LEMMA AcquireStored ==
    ASSUME Inv, StoredInv, NEW q \in Req, Acquire(q)
    PROVE  StoredInv'
<1>1. hpc[q] = "waiting" /\ srv \in SrvType /\ (\A i \in Idx : srv.seqs[i] # q) /\ hpc \in [Req -> Stages]
  BY Zenon, NotSeated DEF Acquire
<1>2. srv' = [srv EXCEPT !.sem = srv.sem - 1] \/ srv' = SetSeq(srv, q, NoSeq)
  BY DEF Acquire, SetSeq
<1>3. Quiet(srv, srv')
  <2>1. CASE srv' = [srv EXCEPT !.sem = srv.sem - 1]
    BY <1>1, <2>1 DEF Quiet, SrvType
  <2>2. CASE srv' = SetSeq(srv, q, NoSeq)
    BY <1>1, <2>2 DEF Quiet, SetSeq, SrvType, Used
  <2> QED BY <1>2, <2>1, <2>2
<1>4. conf' = conf /\ early' = early /\ flight' = flight /\ last' = last
  BY DEF Acquire
<1>5. \A p \in Req : hpc'[p] \in NotYet => hpc[p] \in NotYet
  BY <1>1 DEF Acquire, NotYet
<1> QED BY Zenon, <1>3, <1>4, <1>5, QuietStored

(* The handler sends a response on, or leaves its loop. *)
LEMMA StreamStored ==
    ASSUME Inv, StoredInv, NEW q \in Req, Stream(q)
    PROVE  StoredInv'
<1>1. hpc[q] = "stream" /\ srv \in SrvType /\ hpc \in [Req -> Stages]
  BY DEF Stream, Inv, Sound, Around
<1>2. PICK h : srv' = srv \/ srv' = [srv EXCEPT !.ch = h]
  BY DEF Stream
<1>3. Quiet(srv, srv')
  BY <1>1, <1>2 DEF Quiet, SrvType
<1>4. conf' = conf /\ early' = early /\ flight' = flight /\ last' = last
  BY DEF Stream
<1>5. \A p \in Req : hpc'[p] \in NotYet => hpc[p] \in NotYet
  BY <1>1 DEF Stream, NotYet
<1> QED BY Zenon, <1>3, <1>4, <1>5, QuietStored

-----------------------------------------------------------------------------
(* Admission *)

(* The common prefix of two sequences is the same in both. *)
LEMMA PrefixSame ==
    ASSUME NEW S, NEW x \in Seq(S), NEW S2, NEW y \in Seq(S2), NEW p \in 1 .. CommonPrefix(x, y)
    PROVE  x[p] = y[p]
<1> DEFINE L == {Len(x), Len(y)}
           m == Min(L)
           N == {n \in 0 .. m : SubSeq(x, 1, n) = SubSeq(y, 1, n)}
           c == CommonPrefix(x, y)
<1>1. Len(x) \in Nat /\ Len(y) \in Nat /\ L \in SUBSET Nat /\ L # {}
  OBVIOUS
<1>2. c = Max(N)
  BY Zenon DEF CommonPrefix
<1> HIDE DEF L
<1>3. m \in Nat
  BY <1>1, MinIs
<1> HIDE DEF m
<1>4. N \in SUBSET (0 .. m) /\ 0 \in N
  <2>1. SubSeq(x, 1, 0) = << >> /\ SubSeq(y, 1, 0) = << >>
    OBVIOUS
  <2> QED BY <1>3, <2>1
<1> HIDE DEF N
<1>5. c \in N
  BY <1>2, <1>3, <1>4, MaxIs
<1>6. SubSeq(x, 1, c) = SubSeq(y, 1, c)
  BY Zenon, <1>5 DEF N
<1>7. c \in Nat /\ c <= Len(x) /\ c <= Len(y)
  BY Zenon, <1>1, PrefixIs
<1> HIDE DEF c
<1>8. p \in 1 .. c
  BY DEF c
<1>9. c \in 0 .. Len(x) /\ c \in 0 .. Len(y) /\ 1 \in 1 .. Len(x) + 1 /\ 1 \in 1 .. Len(y) + 1 /\ 1 <= c + 1
  BY ONLY <1>1, <1>7
<1>10. p \in 1 .. c - 1 + 1 /\ 1 + p - 1 = p
  BY ONLY <1>7, <1>8
<1>11. SubSeq(x, 1, c)[p] = x[1 + p - 1]
  BY Zenon, <1>9, <1>10, PartIs
<1>12. SubSeq(y, 1, c)[p] = y[1 + p - 1]
  BY Zenon, <1>9, <1>10, PartIs
<1> QED BY ONLY Zenon, <1>6, <1>10, <1>11, <1>12

(* The inputs to reuse are those of a common prefix. *)
LEMMA FindPrefix ==
    ASSUME NEW x, NEW n, NEW f, f = Find(x, n)
    PROVE  f.numPast = n[f.from] \/ ~(f.numPast > 0)
<1> DEFINE Use(s, g) == [slot |-> s, numPast |-> n[g], from |-> IF n[g] > 0 THEN g ELSE s]
<1>1. \E s, g : f = Use(s, g)
  BY Zenon DEF Find
<1>2. PICK s, g : f = Use(s, g)
  BY Zenon, <1>1
<1>3. f.numPast = n[g] /\ f.from = IF n[g] > 0 THEN g ELSE s
  BY <1>2
<1> HIDE DEF Use
<1> QED BY ONLY Zenon, <1>3

(* Forgetting what no slot owns keeps the cells of the slots. *)
LEMMA TidyCells ==
    ASSUME NEW x \in SrvType
    PROVE  /\ Tidy(x).tok = x.tok
           /\ \A t \in Idx : \A p \in 1 .. Len(x.kv[t]) : Tidy(x).cell[x.kv[t][p]] = x.cell[x.kv[t][p]]
<1> DEFINE C == [c \in CellIds |-> IF c \in Owned(x) THEN x.cell[c] ELSE None]
<1>1. Tidy(x) = [x EXCEPT !.cell = C]
  BY DEF Tidy
<1>2. Tidy(x).tok = x.tok /\ Tidy(x).cell = C
  <2> HIDE DEF C
  <2> QED BY <1>1 DEF SrvType
<1>3. ASSUME NEW t \in Idx, NEW p \in 1 .. Len(x.kv[t]) PROVE C[x.kv[t][p]] = x.cell[x.kv[t][p]]
  <2>1. x.kv[t] \in Seq(CellIds)
    BY DEF SrvType
  <2>2. \A S : \A v \in Seq(S) : \A i \in 1 .. Len(v) : v[i] \in S /\ v[i] \in Range(v)
    BY DEF Range
  <2>3. x.kv[t][p] \in CellIds /\ x.kv[t][p] \in Range(x.kv[t])
    BY Zenon, <1>3, <2>1, <2>2
  <2>4. x.kv[t][p] \in Owned(x)
    BY Zenon, <2>3 DEF Owned
  <2> QED BY <2>3, <2>4
<1> HIDE DEF C
<1> QED BY Zenon, <1>2, <1>3

\* The cells of the slot s after the admission of q are those of a slot whose
\* inputs have the values of the prompt.
Forked(q, s) ==
    \E g \in Idx : \A p \in 1 .. Len(srv'.kv[s]) :
        /\ p \in 1 .. Len(srv.slots[g].Inputs) /\ p \in 1 .. Len(srv.seq[q].prompt)
        /\ srv'.kv[s][p] = srv.kv[g][p] /\ Val(srv.tok, srv.slots[g].Inputs[p]) = srv.seq[q].prompt[p]

(* What LoadCacheSlot reuses has the values of the prompt. *)
LEMMA ReusedIs ==
    ASSUME Inv, NEW q \in Req, hpc[q] = "admit", NEW k, k = CachedPrefixes(srv, srv.seq[q].prompt),
           NEW f, f = Find(srv, k), NEW p \in 1 .. f.numPast
    PROVE  /\ p \in 1 .. Len(srv.slots[f.from].Inputs) /\ p \in 1 .. Len(srv.seq[q].prompt)
           /\ Val(srv.tok, srv.slots[f.from].Inputs[p]) = srv.seq[q].prompt[p]
<1> DEFINE I == srv.slots[f.from].Inputs
           T == srv.seq[q].prompt
           V == Vals(srv.tok, I)
           c == f.numPast
<1>1. Finds(q, f)
  BY Zenon, FindIs
<1>2. f.from \in Idx /\ c \in Nat /\ c <= Len(T) /\ c <= Len(I)
  BY Zenon, <1>1 DEF Finds
<1>3. I \in Seq(InputSet) /\ T \in Seq(Toks)
  BY <1>2 DEF Inv, Sound, SrvType, SlotType, SeqType
<1>4. c = k[f.from] \/ ~(c > 0)
  BY Zenon, FindPrefix
<1>5. k[f.from] = CommonPrefix(V, T)
  BY Zenon, <1>2 DEF CachedPrefixes
<1>6. V \in Seq({V[i] : i \in 1 .. Len(I)}) /\ Len(V) = Len(I) /\ \A i \in 1 .. Len(I) : V[i] = Val(srv.tok, I[i])
  <2> DEFINE n == Len(I)
             W(i) == Val(srv.tok, I[i])
             S == {W(i) : i \in 1 .. n}
  <2>1. n \in Nat /\ V = [i \in 1 .. n |-> W(i)]
    BY <1>3 DEF Vals
  <2> HIDE DEF W, V, I, n
  <2>2. V \in [1 .. n -> S] /\ \A i \in 1 .. n : V[i] = W(i)
    BY <2>1
  <2>3. S = {V[i] : i \in 1 .. n}
    BY <2>2
  <2> HIDE DEF S
  <2>4. V \in Seq(S) /\ Len(V) = n
    BY ONLY <2>1, <2>2
  <2> QED BY Zenon, <2>2, <2>3, <2>4 DEF n, W
<1> HIDE DEF V, I, T, c
<1>7. p \in 1 .. c /\ Len(I) \in Nat /\ Len(T) \in Nat
  BY <1>3 DEF c
<1>8. c > 0 /\ p \in 1 .. Len(I) /\ p \in 1 .. Len(T)
  BY ONLY <1>2, <1>7
<1>9. p \in 1 .. CommonPrefix(V, T)
  BY ONLY Zenon, <1>4, <1>5, <1>7, <1>8
<1>10. V[p] = T[p]
  BY Zenon, <1>3, <1>6, <1>9, PrefixSame
<1>11. V[p] = Val(srv.tok, I[p])
  BY Zenon, <1>6, <1>8
<1> QED BY Zenon, <1>8, <1>10, <1>11 DEF I, T

(* Admission: the slot that is loaded shares the cells of what it reuses. *)
LEMMA AdmitCells ==
    ASSUME Inv, NEW q \in Req, Admit(q)
    PROVE  /\ srv'.tok = srv.tok /\ Forked(q, srv'.seq[q].slot)
           /\ \A t \in Idx : \A p \in 1 .. Len(srv'.kv[t]) : srv'.cell[srv'.kv[t][p]] = srv.cell[srv'.kv[t][p]]
<1>1. hpc[q] = "admit" /\ srv \in SrvType
  BY DEF Admit, Inv, Sound
<1> DEFINE k == CachedPrefixes(srv, srv.seq[q].prompt)
           f == Find(srv, k)
           y == LoadCacheSlot(srv, q, f)
           m == Min(Free(srv))
           s == f.slot
           g == f.from
           n == Past(q, f)
           K == SubSeq(srv.kv[g], 1, n)
<1>2. srv' = PutAt(Tidy(y), m, q)
  BY DEF Admit, Free, PutAt
<1>3. Finds(q, f)
  BY Zenon, <1>1, FindIs
<1>15. k = CachedPrefixes(srv, srv.seq[q].prompt) /\ f = Find(srv, k)
  OBVIOUS
<1> HIDE DEF k, f
<1>4. \A p \in 1 .. f.numPast :
           /\ p \in 1 .. Len(srv.slots[g].Inputs) /\ p \in 1 .. Len(srv.seq[q].prompt)
           /\ Val(srv.tok, srv.slots[g].Inputs[p]) = srv.seq[q].prompt[p]
  BY <1>1, <1>15, ReusedIs
<1>5. y \in SrvType /\ y.seq[q].slot = s
  <2>1. \E i \in 0 .. Len(srv.seq[q].prompt) - 1 : Loads(q, s, i, y)
    BY <1>1, <1>3, LoadIs
  <2> HIDE DEF y, s
  <2> QED BY Zenon, <2>1 DEF Loads
<1>6. y = Loading(q, s, LoadSeq(q, f), LoadSlot(q, f), K, LoadOrder(s))
  BY Zenon, <1>1, <1>3, LoadMeans DEF Finds, Unused
<1>7. s \in Idx /\ g \in Idx /\ srv.kv[g] \in Seq(CellIds)
  BY <1>1, <1>3 DEF Finds, Unused, SrvType
<1> HIDE DEF K
<1>8. y.tok = srv.tok /\ y.cell = srv.cell /\ y.kv = [srv.kv EXCEPT ![s] = K]
  BY <1>1, <1>6 DEF Loading, SrvType
<1> HIDE DEF y, m
<1>9. y.kv[s] = K
  BY <1>1, <1>7, <1>8 DEF SrvType
<1>10. /\ Tidy(y) \in SrvType /\ Tidy(y).seq = y.seq /\ Tidy(y).kv = y.kv /\ Tidy(y).tok = y.tok
       /\ \A t \in Idx : \A p \in 1 .. Len(y.kv[t]) : Tidy(y).cell[y.kv[t][p]] = y.cell[y.kv[t][p]]
  BY Zenon, <1>5, TidyIs, TidyCells
<1>11. srv'.seq = y.seq /\ srv'.kv = y.kv /\ srv'.tok = y.tok /\ srv'.cell = Tidy(y).cell
  BY <1>2, <1>10 DEF PutAt, SrvType
<1>12. \A t \in Idx : \A p \in 1 .. Len(srv'.kv[t]) : srv'.cell[srv'.kv[t][p]] = srv.cell[srv'.kv[t][p]]
  <2> SUFFICES ASSUME NEW t \in Idx, NEW p \in 1 .. Len(srv'.kv[t])
               PROVE  srv'.cell[srv'.kv[t][p]] = srv.cell[srv'.kv[t][p]]
    BY Zenon
  <2>1. p \in 1 .. Len(y.kv[t])
    BY Zenon, <1>11
  <2>2. Tidy(y).cell[y.kv[t][p]] = y.cell[y.kv[t][p]]
    BY Zenon, <1>10, <2>1
  <2> QED BY Zenon, <1>8, <1>11, <2>2
<1>13. \A p \in 1 .. Len(K) : p \in 1 .. f.numPast /\ K[p] = srv.kv[g][p]
  <2>1. f.numPast \in Nat /\ n \in Int /\ n <= f.numPast
    BY <1>3 DEF Finds, Past
  <2>2. \A S : \A v \in Seq(S) : \A i \in Int : \A p \in 1 .. Len(SubSeq(v, 1, i)) : p \in 1 .. i /\ SubSeq(v, 1, i)[p] = v[p]
    OBVIOUS
  <2> HIDE DEF n
  <2>3. \A p \in 1 .. Len(K) : p \in 1 .. n /\ K[p] = srv.kv[g][p]
    BY Zenon, <1>7, <2>1, <2>2 DEF K
  <2>4. \A p \in 1 .. n : p \in 1 .. f.numPast
    BY ONLY <2>1
  <2> QED BY Zenon, <2>3, <2>4
<1>14. Forked(q, s)
  BY Zenon, <1>4, <1>7, <1>9, <1>11, <1>13 DEF Forked
<1> QED BY Zenon, <1>5, <1>8, <1>11, <1>12, <1>14

(* A token is backed by a cell that has it, and can be computed at once. *)
LEMMA TokenIs ==
    ASSUME NEW e \in Toks
    PROVE  /\ \A k, f, l : Due(k, f, l, e)
           /\ \A c, k, f, d : c[d] = e => Backed(c, k, f, e, d)
BY Zenon DEF Due, Backed, Met, Open, Val

(* Inputs of a slot or pending ones have cells. *)
LEMMA PlacesOf ==
    ASSUME NEW x, Sound(x)
    PROVE  /\ \A s \in Idx : \A p \in 1 .. Len(x.slots[s].Inputs) : p \in 1 .. Len(x.kv[s])
           /\ \A i \in Idx : Used(x, i) =>
                 \A p \in 1 .. Len(Who(x, i).pending) : Len(Inp(x, i)) + p \in 1 .. Len(x.kv[Who(x, i).slot])
<1>1. \A S : \A v \in Seq(S) : Len(v) \in Nat
  OBVIOUS
<1>2. \A a, b \in Nat : a <= b => \A p \in 1 .. a : p \in 1 .. b
  OBVIOUS
<1>3. \A a, b \in Nat : \A p \in 1 .. b : a + p \in 1 .. a + b
  OBVIOUS
<1>4. ASSUME NEW s \in Idx  PROVE Len(x.slots[s].Inputs) \in Nat /\ Len(x.kv[s]) \in Nat /\ Len(x.slots[s].Inputs) <= Len(x.kv[s])
  <2>1. x.slots[s].Inputs \in Seq(InputSet) /\ x.kv[s] \in Seq(CellIds) /\ Fits(x, s)
    BY <1>4 DEF Sound, SrvType, SlotType, Filled
  <2> QED BY Zenon, <1>1, <2>1 DEF Fits
<1>5. ASSUME NEW i \in Idx, Used(x, i)
      PROVE  Len(Inp(x, i)) \in Nat /\ Len(Who(x, i).pending) \in Nat
             /\ Len(x.kv[Who(x, i).slot]) = Len(Inp(x, i)) + Len(Who(x, i).pending)
  <2>1. x.seqs[i] \in Req
    BY <1>5 DEF Sound, SrvType, Used
  <2>2. Who(x, i) \in SeqType
    BY <2>1 DEF Sound, SrvType, Who
  <2>3. Who(x, i).slot \in Idx /\ Who(x, i).pending \in Seq(InputSet)
    BY <2>2 DEF SeqType
  <2>4. Inp(x, i) \in Seq(InputSet)
    BY <2>3 DEF Sound, SrvType, SlotType, Inp
  <2>5. Cached(x, i)
    BY <1>5 DEF Sound, Filled
  <2> QED BY Zenon, <1>1, <2>3, <2>4, <2>5 DEF Cached
<1>6. \A s \in Idx : \A p \in 1 .. Len(x.slots[s].Inputs) : p \in 1 .. Len(x.kv[s])
  <2> SUFFICES ASSUME NEW s \in Idx, NEW p \in 1 .. Len(x.slots[s].Inputs)  PROVE p \in 1 .. Len(x.kv[s])
    BY Zenon
  <2>1. Len(x.slots[s].Inputs) \in Nat /\ Len(x.kv[s]) \in Nat /\ Len(x.slots[s].Inputs) <= Len(x.kv[s])
    BY Zenon, <1>4
  <2> QED BY ONLY Zenon, <1>2, <2>1, p \in 1 .. Len(x.slots[s].Inputs)
<1>7. ASSUME NEW i \in Idx, Used(x, i), NEW p \in 1 .. Len(Who(x, i).pending)
      PROVE  Len(Inp(x, i)) + p \in 1 .. Len(x.kv[Who(x, i).slot])
  BY ONLY Zenon, <1>3, <1>5, <1>7, i \in Idx
<1> QED BY Zenon, <1>6, <1>7

(* A request is admitted. *)
LEMMA AdmitStored ==
    ASSUME Inv, Inv', StoredInv, NEW q \in Req, Admit(q)
    PROVE  StoredInv'
<1>1. PICK s, n, m : Seats(q, s, n, m)
  BY Zenon, AdmitMeans
<1> DEFINE T == srv.seq[q].prompt
           y == srv'
<1>2. /\ conf' = conf /\ flight' = flight /\ last' = last /\ early' = early /\ hpc' = [hpc EXCEPT ![q] = "stream"]
      /\ hpc[q] = "admit" /\ n \in 0 .. Len(T) - 1 /\ Loads(q, s, n, y)
  BY Zenon, <1>1 DEF Seats
<1>3. SUFFICES ASSUME ~early  PROVE Stored(y, flight, last) /\ Blank(srv.tok)'
  BY Zenon, <1>2, StoredStep
<1>4. Stored(srv, flight, last) /\ Blank(srv.tok)
  BY Zenon, <1>3 DEF StoredInv
<1>5. y.tok = srv.tok /\ \A t \in Idx : \A p \in 1 .. Len(y.kv[t]) : y.cell[y.kv[t][p]] = srv.cell[y.kv[t][p]]
  BY Zenon, AdmitCells
<1>6. /\ s \in Idx /\ m \in Idx /\ y.seqs[m] = q /\ Who(y, m) = y.seq[q] /\ Who(y, m).slot = s
      /\ Inp(y, m) = y.slots[s].Inputs
      /\ \A i \in Idx \ {m} : /\ Used(y, i) <=> Used(srv, i)
                              /\ y.seqs[i] = srv.seqs[i]
                              /\ Used(srv, i) => /\ Who(y, i) = Who(srv, i)
                                                 /\ Who(srv, i).slot \in Idx \ {s} /\ Inp(y, i) = Inp(srv, i)
  BY <1>1, SeatsIs
<1>7. /\ \A t \in Idx \ {s} : y.slots[t] = srv.slots[t] /\ y.kv[t] = srv.kv[t]
      /\ y.slots[s].Inputs = SubSeq(T, 1, n) /\ Len(y.kv[s]) = n
      /\ y.seq[q].inputs = SubSeq(T, n + 1, Len(T))
      /\ y.seq[q].pending = srv.seq[q].pending /\ y.seq[q].numPredicted = srv.seq[q].numPredicted
  BY Zenon, <1>2 DEF Loads
<1>8. Sound(srv) /\ srv \in SrvType /\ New(srv.seq[q]) /\ T \in Seq(Toks) /\ hpc \in [Req -> Stages]
  <2>1. Sound(srv) /\ srv \in SrvType /\ New(srv.seq[q]) /\ hpc \in [Req -> Stages]
    BY <1>2 DEF Inv, Sound, Placed, Queued, Around
  <2> QED BY <2>1 DEF SrvType, SeqType
<1>9. /\ \A p \in 1 .. n : SubSeq(T, 1, n)[p] = T[p] /\ T[p] \in Toks
      /\ Len(SubSeq(T, 1, n)) = n
      /\ \A p \in 1 .. Len(SubSeq(T, n + 1, Len(T))) : SubSeq(T, n + 1, Len(T))[p] \in Toks
  <2>1. \A S : \A v \in Seq(S) : \A i \in 0 .. Len(v) - 1 :
           /\ \A p \in 1 .. i : SubSeq(v, 1, i)[p] = v[p] /\ v[p] \in S
           /\ Len(SubSeq(v, 1, i)) = i
           /\ \A p \in 1 .. Len(SubSeq(v, i + 1, Len(v))) : SubSeq(v, i + 1, Len(v))[p] \in S
    OBVIOUS
  <2> HIDE DEF T
  <2> QED BY Zenon, <1>2, <1>8, <2>1
<1>10. Forked(q, s)
  BY Zenon, <1>6, AdmitCells
<1> HIDE DEF T
<1>11. ASSUME NEW t \in Idx  PROVE Holds(y, flight, t)
  <2>1. CASE t = s
    <3>1. PICK g \in Idx : \A p \in 1 .. n :
             /\ p \in 1 .. Len(srv.slots[g].Inputs) /\ y.kv[s][p] = srv.kv[g][p]
             /\ Val(srv.tok, srv.slots[g].Inputs[p]) = T[p]
      BY Zenon, <1>7, <1>10 DEF Forked, T
    <3>2. ASSUME NEW p \in 1 .. n PROVE Backed(y.cell, y.tok, flight, T[p], y.kv[s][p])
      <4>1. srv.cell[srv.kv[g][p]] = T[p]
        BY Zenon, <1>4, <3>1, <3>2 DEF Stored, Holds, Backed
      <4>2. y.cell[y.kv[s][p]] = T[p]
        <5>1. p \in 1 .. Len(y.kv[s])
          BY Zenon, <1>7, <3>2
        <5>2. y.cell[y.kv[s][p]] = srv.cell[y.kv[s][p]]
          BY Zenon, <1>5, <1>6, <5>1
        <5> QED BY Zenon, <3>1, <3>2, <4>1, <5>2
      <4> QED BY Zenon, <1>9, <3>2, <4>2, TokenIs
    <3> QED BY Zenon, <1>7, <1>9, <2>1, <3>2 DEF Holds
  <2>2. CASE t # s
    <3>1. y.slots[t] = srv.slots[t] /\ y.kv[t] = srv.kv[t]
      BY Zenon, <1>7, <1>11, <2>2
    <3>2. \A p \in 1 .. Len(srv.slots[t].Inputs) : y.cell[srv.kv[t][p]] = srv.cell[srv.kv[t][p]]
      <4> SUFFICES ASSUME NEW p \in 1 .. Len(srv.slots[t].Inputs)  PROVE y.cell[srv.kv[t][p]] = srv.cell[srv.kv[t][p]]
        BY Zenon
      <4>1. p \in 1 .. Len(srv.kv[t])
        BY Zenon, <1>8, <1>11, PlacesOf
      <4>2. p \in 1 .. Len(y.kv[t])
        BY Zenon, <3>1, <4>1
      <4>3. y.cell[y.kv[t][p]] = srv.cell[y.kv[t][p]]
        BY Zenon, <1>5, <1>11, <4>2
      <4> QED BY Zenon, <3>1, <4>3
    <3>3. Holds(srv, flight, t)
      BY Zenon, <1>4, <1>11 DEF Stored
    <3> QED BY Zenon, <1>5, <3>1, <3>2, <3>3 DEF Holds, Backed
  <2> QED BY Zenon, <2>1, <2>2
<1>12. srv.seq[q].pending = << >> /\ Len(srv.tok[q]) = srv.seq[q].numPredicted
  <2>1. srv.tok[q] = << >> /\ srv.seq[q].numPredicted = 0 /\ srv.seq[q].pending = << >>
    BY <1>2, <1>4, <1>8 DEF Blank, New
  <2> QED BY <2>1
<1>13. ASSUME NEW i \in Idx, Used(y, i)  PROVE Follows(y.tok, flight, last, y.seqs[i], Who(y, i)) /\ Carries(y, i, Latest(flight).ins)
  <2>1. CASE i = m
    <3>1. Who(y, i).pending = << >> /\ \A p \in 1 .. Len(Who(y, i).pending) : FALSE
      <4>1. \A p \in 1 .. Len(<< >>) : FALSE
        OBVIOUS
      <4> QED BY Zenon, <1>6, <1>7, <1>12, <2>1, <4>1
    <3>2. AllDue(y.tok, flight, last, Who(y, i).inputs)
      <4>1. Who(y, i).inputs = SubSeq(T, n + 1, Len(T))
        BY Zenon, <1>6, <1>7, <2>1
      <4>2. \A p \in 1 .. Len(Who(y, i).inputs) : Who(y, i).inputs[p] \in Toks
        BY ONLY Zenon, <1>9, <4>1
      <4> QED BY ONLY Zenon, <4>2, TokenIs DEF AllDue
    <3> QED BY Zenon, <1>5, <1>6, <1>7, <1>12, <2>1, <3>1, <3>2 DEF Follows, AllDue, Carries, Carried
  <2>2. CASE i # m
    <3>1. Used(srv, i) /\ y.seqs[i] = srv.seqs[i] /\ Who(y, i) = Who(srv, i) /\ Inp(y, i) = Inp(srv, i)
          /\ Who(srv, i).slot \in Idx \ {s}
      BY Zenon, <1>6, <1>13, <2>2
    <3>2. Follows(srv.tok, flight, last, srv.seqs[i], Who(srv, i)) /\ Carries(srv, i, Latest(flight).ins)
      BY Zenon, <1>4, <1>13, <3>1 DEF Stored
    <3>3. y.kv[Who(srv, i).slot] = srv.kv[Who(srv, i).slot]
      BY Zenon, <1>7, <3>1
    <3>4. \A p \in 1 .. Len(Who(srv, i).pending) :
             Len(Inp(srv, i)) + p \in 1 .. Len(y.kv[Who(srv, i).slot])
      BY Zenon, <1>8, <1>13, <3>1, <3>3, PlacesOf
    <3>5. \A p \in 1 .. Len(Who(srv, i).pending) :
             y.cell[srv.kv[Who(srv, i).slot][Len(Inp(srv, i)) + p]] = srv.cell[srv.kv[Who(srv, i).slot][Len(Inp(srv, i)) + p]]
      BY Zenon, <1>5, <3>1, <3>3, <3>4
    <3>6. Carries(y, i, Latest(flight).ins)
      BY Zenon, <3>1, <3>2, <3>3, <3>5 DEF Carries, Carried
    <3> QED BY Zenon, <1>5, <3>1, <3>2, <3>6
  <2> QED BY Zenon, <2>1, <2>2
<1>14. \A j \in DOMAIN flight : Proper(y.tok, flight[j])
  BY Zenon, <1>4, <1>5 DEF Stored
<1>15. Blank(srv.tok)'
  BY <1>2, <1>4, <1>5, <1>8 DEF Blank
<1> QED BY Zenon, <1>11, <1>13, <1>14, <1>15 DEF Stored

-----------------------------------------------------------------------------
(* Ending a sequence *)

(* flushPending leaves cells and tokens alone. *)
LEMMA FlushCells ==
    ASSUME NEW x \in SrvType, NEW q \in Req, NEW f \in FlushPending(x, q)
    PROVE  f.x.tok = x.tok /\ f.x.cell = x.cell
<1>1. f.x = x \/ f.x = Sent(x, q) \/ f.x = Lost(x, q)
  BY DEF FlushPending
<1>2. Sent(x, q).tok = x.tok /\ Sent(x, q).cell = x.cell
  BY DEF Sent, SrvType
<1>3. Lost(x, q).tok = x.tok /\ Lost(x, q).cell = x.cell
  BY DEF Lost, SrvType
<1> QED BY Zenon, <1>1, <1>2, <1>3

\* The sequence at the place j goes on in y as it was in x.
GoesOnAs(x, y, j) ==
    /\ Used(x, j) /\ y.seqs[j] = x.seqs[j] /\ Inp(y, j) = Inp(x, j) /\ Who(y, j).slot = Who(x, j).slot
    /\ Who(y, j).inputs = Who(x, j).inputs /\ Who(y, j).pending = Who(x, j).pending
    /\ Who(y, j).numPredicted = Who(x, j).numPredicted
\* At most sequences have ended.
Ends(x, y) ==
    /\ y.tok = x.tok /\ y.cell = x.cell /\ y.kv = x.kv
    /\ \A t \in Idx : y.slots[t].Inputs = x.slots[t].Inputs
    /\ \A j \in Idx : Used(y, j) => GoesOnAs(x, y, j)

(* flushPending ends nothing. *)
LEMMA FlushEnds ==
    ASSUME Ready, NEW x, NEW i \in Idx, Almost(x, i), Used(x, i), NEW f \in FlushPending(x, x.seqs[i])
    PROVE  Ends(x, f.x)
<1> DEFINE q == x.seqs[i]
<1>1. x \in SrvType /\ (\A p \in Req : Len(x.ch[p]) <= RespCap) /\ q \in Req
  BY DEF Almost, SrvType, Used
<1>2. /\ f.x.seqs = x.seqs /\ f.x.slots = x.slots /\ f.x.kv = x.kv
      /\ \A p \in Req \ {q} : f.x.seq[p] = x.seq[p]
      /\ f.x.seq[q].slot = x.seq[q].slot /\ f.x.seq[q].pending = x.seq[q].pending
      /\ f.x.seq[q].inputs = x.seq[q].inputs /\ f.x.seq[q].numPredicted = x.seq[q].numPredicted
  BY <1>1, FlushIs
<1>3. f.x.tok = x.tok /\ f.x.cell = x.cell
  BY Zenon, <1>1, FlushCells
<1>4. ASSUME NEW j \in Idx, Used(f.x, j)  PROVE GoesOnAs(x, f.x, j)
  <2>1. Used(x, j) /\ x.seqs[j] \in Req
    BY <1>1, <1>2, <1>4 DEF Used, SrvType
  <2>2. /\ Who(f.x, j).slot = Who(x, j).slot /\ Who(f.x, j).inputs = Who(x, j).inputs
        /\ Who(f.x, j).pending = Who(x, j).pending /\ Who(f.x, j).numPredicted = Who(x, j).numPredicted
    BY <1>2, <2>1 DEF Who
  <2> QED BY Zenon, <1>2, <2>1, <2>2 DEF GoesOnAs, Inp
<1> QED BY Zenon, <1>2, <1>3, <1>4 DEF Ends

(* removeSequence ends the sequence at the place i. *)
LEMMA RemoveEnds ==
    ASSUME Ready, NEW x, NEW i \in Idx, Almost(x, i), Used(x, i), NEW y \in RemoveSequence(x, i)
    PROVE  Ends(x, y) /\ ~Used(y, i)
<1> DEFINE q == x.seqs[i]
           s == x.seq[q].slot
<1>1. x \in SrvType
  BY DEF Almost
<1>2. q \in Req /\ s \in Idx /\ x.seqs \in [Idx -> Req \cup {None}]
  BY <1>1 DEF SrvType, SeqType, Used
<1>3. PICK f \in FlushPending(x, q) :
        y = [f.x EXCEPT !.closed = @ \cup {q}, !.slots[s].InUse = FALSE, !.seqs[i] = None, !.sem = @ + 1,
                        !.seq[q] = [NoSeq EXCEPT !.numPredict = x.seq[q].numPredict]]
  BY Zenon DEF RemoveSequence
<1> DEFINE z == f.x
           n == [NoSeq EXCEPT !.numPredict = x.seq[q].numPredict]
           u == [z.slots[s] EXCEPT !.InUse = FALSE]
<1>4. Almost(z, i) /\ Ends(x, z) /\ z.seqs = x.seqs /\ z.slots = x.slots
  BY Zenon, FlushSound, FlushEnds
<1>5. z \in SrvType
  BY <1>4 DEF Almost
<1>6. u.Inputs = z.slots[s].Inputs
  BY <1>2, <1>5 DEF SrvType, SlotType
<1> HIDE DEF n, u, z
<1>7. y = [z EXCEPT !.closed = z.closed \cup {q}, !.slots = [z.slots EXCEPT ![s] = u],
                    !.seqs = [z.seqs EXCEPT ![i] = None], !.sem = z.sem + 1, !.seq = [z.seq EXCEPT ![q] = n]]
  BY Zenon, <1>3 DEF n, u, z
<1>8. /\ y.slots = [z.slots EXCEPT ![s] = u] /\ y.seqs = [z.seqs EXCEPT ![i] = None]
      /\ y.seq = [z.seq EXCEPT ![q] = n] /\ y.kv = z.kv /\ y.tok = z.tok /\ y.cell = z.cell
  BY <1>5, <1>7 DEF SrvType
<1>9. \A t \in Idx : y.slots[t].Inputs = z.slots[t].Inputs
  BY <1>2, <1>5, <1>6, <1>8 DEF SrvType
<1>10. ~Used(y, i)
  BY <1>5, <1>8 DEF SrvType, Used
<1>11. ASSUME NEW j \in Idx, Used(y, j)  PROVE Used(z, j) /\ y.seqs[j] = z.seqs[j] /\ Who(y, j) = Who(z, j)
  <2>1. j # i /\ y.seqs[j] = z.seqs[j]
    BY <1>8, <1>11, <1>5 DEF Used, SrvType
  <2>2. Used(z, j) /\ Used(z, i)
    BY <1>11, <2>1, <1>4 DEF Used
  <2>3. z.seqs[j] # z.seqs[i]
    BY <2>1, <2>2, <1>4 DEF Almost, Placed, Seated
  <2>4. z.seqs[j] \in Req \ {q}
    BY <2>2, <2>3, <1>4, <1>5 DEF Used, SrvType
  <2>5. Who(y, j) = Who(z, j)
    BY <1>5, <1>8, <2>1, <2>4 DEF Who, SrvType
  <2> QED BY Zenon, <2>1, <2>2, <2>5
<1>12. ASSUME NEW j \in Idx, Used(y, j)  PROVE GoesOnAs(x, y, j)
  <2>1. GoesOnAs(x, z, j) /\ y.seqs[j] = z.seqs[j] /\ Who(y, j) = Who(z, j) /\ Who(z, j).slot \in Idx
    <3>1. Used(z, j) /\ y.seqs[j] = z.seqs[j] /\ Who(y, j) = Who(z, j)
      BY Zenon, <1>11, <1>12
    <3>2. z.seqs[j] \in Req
      BY <1>5, <3>1 DEF SrvType, Used
    <3>3. Who(z, j).slot \in Idx
      BY <1>5, <3>2 DEF SrvType, SeqType, Who
    <3> QED BY Zenon, <1>4, <1>12, <3>1, <3>3 DEF Ends
  <2>2. Inp(y, j) = Inp(z, j)
    BY Zenon, <1>9, <2>1 DEF Inp
  <2> QED BY Zenon, <2>1, <2>2 DEF GoesOnAs
<1> QED BY Zenon, <1>4, <1>8, <1>9, <1>10, <1>12 DEF Ends

-----------------------------------------------------------------------------
(* The second section of computeBatch *)

\* Only tokens that b has asked for change.
Asked(b, e) == \E i \in Idx : b.next[i] # None /\ b.next[i] = e
Settles(k, h, b) ==
    \A q \in Req : /\ Len(h[q]) = Len(k[q])
                   /\ \A m \in 1 .. Len(k[q]) : h[q][m] = k[q][m] \/ Asked(b, <<q, m>>)
Trimmed(J, I) == \A p \in 1 .. Len(J) : p \in 1 .. Len(I) /\ J[p] = I[p]

\* y is x after tokens of b were sampled: slots may be cut, sequences end.
Shortens(x, y, b) ==
    /\ y.cell = x.cell /\ y.kv = x.kv /\ Settles(x.tok, y.tok, b)
    /\ \A t \in Idx : Trimmed(y.slots[t].Inputs, x.slots[t].Inputs)
Answers(x, y, b) == Shortens(x, y, b) /\ \A j \in Idx : Used(y, j) => GoesOnAs(x, y, j)

(* The relations compose. *)
LEMMA ShortensTwice ==
    ASSUME NEW x, NEW y, NEW z, NEW b, Shortens(x, y, b), Shortens(y, z, b)
    PROVE  Shortens(x, z, b)
<1>1. Settles(x.tok, z.tok, b)
  BY Zenon DEF Settles, Shortens
<1>2. \A t \in Idx : Trimmed(z.slots[t].Inputs, x.slots[t].Inputs)
  BY Zenon DEF Shortens, Trimmed
<1> QED BY Zenon, <1>1, <1>2 DEF Shortens

LEMMA AnswersTwice ==
    ASSUME NEW x, NEW y, NEW z, NEW b, Answers(x, y, b), Answers(y, z, b)
    PROVE  Answers(x, z, b)
<1>1. Shortens(x, z, b)
  BY Zenon, ShortensTwice DEF Answers
<1>2. ASSUME NEW j \in Idx, Used(z, j)  PROVE GoesOnAs(x, z, j)
  <2>1. GoesOnAs(y, z, j)
    BY Zenon, <1>2 DEF Answers
  <2>2. GoesOnAs(x, y, j)
    BY Zenon, <2>1 DEF Answers, GoesOnAs
  <2> QED BY Zenon, <2>1, <2>2 DEF GoesOnAs
<1> QED BY Zenon, <1>1, <1>2 DEF Answers

(* Ending sequences is a case of it. *)
LEMMA EndsShortens ==
    ASSUME NEW x, NEW y, NEW b, Ends(x, y)
    PROVE  Shortens(x, y, b)
<1>1. Settles(x.tok, y.tok, b)
  BY Zenon DEF Settles, Ends
<1>2. \A t \in Idx : Trimmed(y.slots[t].Inputs, x.slots[t].Inputs)
  BY Zenon DEF Trimmed, Ends
<1> QED BY Zenon, <1>1, <1>2 DEF Shortens, Ends

(* A token that was sampled *)
LEMMA DecodedShortens ==
    ASSUME Ready, NEW x, NEW b, NEW i, NEW o, Samples(x, b, i, o), NEW y, y = Decoded(x, b, i, o)
    PROVE  /\ Shortens(x, y, b)
           /\ \A j \in Idx : Used(y, j) /\ (j # i \/ o.cut = 0) => GoesOnAs(x, y, j)
<1> DEFINE q == x.seqs[i]
           r == Who(x, i)
           s == r.slot
           p == b.next[i]
           I == x.slots[s].Inputs
           J == SubSeq(I, 1, Len(I) - o.cut)
           h == HeldAfter(r.held, b.outs[b.rows[i]], o)
           t == [r EXCEPT !.held = h]
           w == [x.tok[p[1]] EXCEPT ![p[2]] = o.tok]
           k == [x.tok EXCEPT ![p[1]] = w]
           S == [x.slots[s] EXCEPT !.Inputs = J]
<1>1. /\ Sound(x) /\ x \in SrvType /\ i \in Idx /\ Used(x, i) /\ b \in BatchType /\ b.next[i] # None
      /\ ~(Len(x.slots[x.seq[x.seqs[i]].slot].Inputs) < o.cut) /\ o \in Outcomes(x, x.seqs[i])
  BY Zenon DEF Samples, Sound
<1>2. q \in Req /\ r \in SeqType /\ s \in Idx /\ p \in Pieces
  <2>1. q \in Req
    BY <1>1 DEF SrvType, Used
  <2>2. r \in SeqType
    BY <1>1, <2>1 DEF SrvType, Who
  <2> QED BY <1>1, <2>1, <2>2 DEF SeqType, BatchType
<1>3. I \in Seq(InputSet) /\ x.slots[s] \in SlotType /\ r.held \in Seq(Pieces)
  BY <1>1, <1>2 DEF SrvType, SlotType, SeqType
<1>4. o.cut \in Nat /\ ~(Len(I) < o.cut)
  <2>1. Len(x.seq[q].held) \in Nat
    <3>1. \A A : \A v \in Seq(A) : Len(v) \in Nat
      OBVIOUS
    <3> QED BY Zenon, <1>3, <3>1 DEF Who
  <2>2. o.cut \in 0 .. Len(x.seq[q].held)
    BY Zenon, <1>1, <2>1, OutcomeIs
  <2> QED BY <1>1, <2>1, <2>2 DEF Who
<1>5. y = [x EXCEPT !.tok = k, !.seq = [x.seq EXCEPT ![q] = t], !.slots = [x.slots EXCEPT ![s] = S]]
  BY Zenon, <1>1 DEF Decoded, Who
<1>6. Trimmed(J, I) /\ (o.cut = 0 => J = I)
  <2> HIDE DEF I
  <2>1. Len(I) \in Nat
    BY <1>3
  <2> DEFINE n == Len(I) - o.cut
  <2>2. n \in 0 .. Len(I) /\ (o.cut = 0 => n = Len(I))
    BY <1>4, <2>1
  <2> HIDE DEF n
  <2>3. \A u \in Seq(InputSet) : \A a \in 0 .. Len(u) : Trimmed(SubSeq(u, 1, a), u) /\ SubSeq(u, 1, Len(u)) = u
    BY DEF Trimmed
  <2>4. Trimmed(SubSeq(I, 1, n), I) /\ SubSeq(I, 1, Len(I)) = I
    BY Zenon, <1>3, <2>2, <2>3
  <2> QED BY Zenon, <2>2, <2>4 DEF n
<1>7. t.slot = r.slot /\ t.inputs = r.inputs /\ t.pending = r.pending /\ t.numPredicted = r.numPredicted
  BY <1>2 DEF SeqType
<1>8. S.Inputs = J
  BY <1>3 DEF SlotType
<1>9. Settles(x.tok, k, b)
  <2> SUFFICES ASSUME NEW u \in Req
               PROVE  /\ Len(k[u]) = Len(x.tok[u])
                      /\ \A m \in 1 .. Len(x.tok[u]) : k[u][m] = x.tok[u][m] \/ Asked(b, <<u, m>>)
    BY Zenon DEF Settles
  <2>1. x.tok \in [Req -> Seq(TokVals)] /\ p[1] \in Req
    BY <1>1, <1>2 DEF SrvType, Pieces
  <2>2. CASE u # p[1]
    BY <2>1, <2>2
  <2>3. CASE u = p[1]
    <3>1. k[u] = w /\ x.tok[u] \in Seq(TokVals)
      BY <2>1, <2>3
    <3>2. \A v \in Seq(TokVals) : \A a, e : Len([v EXCEPT ![a] = e]) = Len(v) /\ \A m \in 1 .. Len(v) : m # a => [v EXCEPT ![a] = e][m] = v[m]
      OBVIOUS
    <3>3. Len(w) = Len(x.tok[u]) /\ \A m \in 1 .. Len(x.tok[u]) : m # p[2] => w[m] = x.tok[u][m]
      <4>1. w = [x.tok[u] EXCEPT ![p[2]] = o.tok]
        BY Zenon, <2>3
      <4> HIDE DEF w
      <4> QED BY ONLY <3>1, <3>2, <4>1
    <3>4. p = <<p[1], p[2]>>
      BY <1>2 DEF Pieces
    <3>5. Asked(b, <<u, p[2]>>)
      BY Zenon, <1>1, <2>3, <3>4 DEF Asked
    <3> QED BY Zenon, <3>1, <3>3, <3>5
  <2> QED BY Zenon, <2>2, <2>3
<1> HIDE DEF k, t, S, J
<1>10. y.cell = x.cell /\ y.kv = x.kv /\ y.tok = k /\ y.seqs = x.seqs /\ y.seq = [x.seq EXCEPT ![q] = t]
       /\ y.slots = [x.slots EXCEPT ![s] = S]
  BY <1>1, <1>5 DEF SrvType
<1>11. y.slots[s] = S /\ \A u \in Idx \ {s} : y.slots[u] = x.slots[u]
  BY <1>1, <1>2, <1>10 DEF SrvType
<1>12. \A u \in Idx : Trimmed(y.slots[u].Inputs, x.slots[u].Inputs)
  <2> SUFFICES ASSUME NEW u \in Idx  PROVE Trimmed(y.slots[u].Inputs, x.slots[u].Inputs)
    BY Zenon
  <2>1. CASE u = s
    BY Zenon, <1>6, <1>8, <1>11, <2>1
  <2>2. CASE u # s
    BY Zenon, <1>11, <2>2 DEF Trimmed
  <2> QED BY Zenon, <2>1, <2>2
<1>13. ASSUME NEW j \in Idx, Used(y, j), j # i \/ o.cut = 0  PROVE GoesOnAs(x, y, j)
  <2>1. CASE j = i
    <3>1. Who(y, j) = t
      BY <1>1, <1>2, <1>10, <2>1 DEF SrvType, Who
    <3>2. Inp(y, j) = I
      BY Zenon, <1>6, <1>7, <1>8, <1>11, <1>13, <2>1, <3>1 DEF Inp
    <3> QED BY Zenon, <1>1, <1>7, <1>10, <2>1, <3>1, <3>2 DEF GoesOnAs, Inp
  <2>2. CASE j # i
    <3>1. Used(x, j) /\ y.seqs[j] = x.seqs[j]
      BY Zenon, <1>10, <1>13 DEF Used
    <3>2. x.seqs[j] # q /\ x.seqs[j] \in Req
      BY <1>1, <2>2, <3>1 DEF Sound, Placed, Seated, SrvType, Used
    <3>3. Who(y, j) = Who(x, j)
      BY <1>1, <1>10, <3>2 DEF Who, SrvType
    <3>4. Who(x, j).slot \in Idx \ {s}
      <4>1. Who(x, j).slot \in Idx
        BY <1>1, <3>2 DEF Who, SrvType, SeqType
      <4> QED BY <1>1, <2>2, <3>1, <4>1 DEF Sound, Placed, Slotted
    <3>5. Inp(y, j) = Inp(x, j)
      BY Zenon, <1>11, <3>3, <3>4 DEF Inp
    <3> QED BY Zenon, <3>1, <3>3, <3>5 DEF GoesOnAs
  <2> QED BY Zenon, <2>1, <2>2
<1> QED BY Zenon, <1>9, <1>10, <1>12, <1>13 DEF Shortens
LEMMA EndsAnswers ==
    ASSUME NEW x, NEW y, NEW b, Ends(x, y)
    PROVE  Answers(x, y, b)
BY Zenon, EndsShortens DEF Answers, Ends

(* One sequence in the second section *)
LEMMA DecodeOneAnswers ==
    ASSUME Ready, NEW x, NEW b, NEW i, NEW o, Sound(x), i \in Idx, Used(x, i), b \in BatchType, RowsOf(b),
           b.next[i] # None, o \in Outcomes(x, x.seqs[i]), NEW z \in DecodeOne(x, b, i, o), z # Panicked
    PROVE  Answers(x, z, b)
<1> DEFINE y == Decoded(x, b, i, o)
<1>1. /\ ~(Len(x.slots[x.seq[x.seqs[i]].slot].Inputs) < o.cut)
      /\ \/ o.kind \in {"eos", "stop"} /\ z \in RemoveSequence(y, i)
         \/ o.kind = "hold" /\ z = y
         \/ o.kind = "send" /\ \E f \in FlushPending(y, x.seqs[i]) : z = f.x \/ z \in RemoveSequence(f.x, i)
         \/ o.kind \notin {"eos", "stop", "hold", "send"}
  BY DecodeMeans
<1>2. /\ Almost(y, i) /\ Used(y, i) /\ y.seqs = x.seqs
      /\ \A j \in Idx : Used(x, j) => Stays(x, y, j)
      /\ o.kind \in {"hold", "send"} => Sound(y)
  BY Zenon, <1>1, DecodedSound DEF Samples
<1>3. /\ Shortens(x, y, b)
      /\ \A j \in Idx : Used(y, j) /\ (j # i \/ o.cut = 0) => GoesOnAs(x, y, j)
  BY Zenon, <1>1, DecodedShortens DEF Samples
<1> HIDE DEF y
<1>4. o.kind \in {"eos", "stop", "hold", "send"} /\ (o.kind \in {"hold", "send"} => o.cut = 0)
  <2>1. x.seq[x.seqs[i]].held \in Seq(Pieces)
    BY DEF Sound, SrvType, SeqType, Used
  <2>2. Len(x.seq[x.seqs[i]].held) \in Nat
    <3>1. \A u \in Seq(Pieces) : Len(u) \in Nat
      OBVIOUS
    <3> QED BY ONLY <2>1, <3>1
  <2> QED BY <2>2, OutcomeIs
<1>5. CASE z \in RemoveSequence(y, i)
  <2>1. Ends(y, z) /\ ~Used(z, i)
    BY Zenon, <1>2, <1>5, RemoveEnds
  <2>2. Shortens(x, z, b)
    BY Zenon, <1>3, <2>1, EndsShortens, ShortensTwice
  <2>3. ASSUME NEW j \in Idx, Used(z, j)  PROVE GoesOnAs(x, z, j)
    <3>1. j # i /\ GoesOnAs(y, z, j)
      BY Zenon, <2>1, <2>3 DEF Ends
    <3>2. GoesOnAs(x, y, j)
      BY Zenon, <1>3, <3>1 DEF GoesOnAs
    <3> QED BY Zenon, <3>1, <3>2 DEF GoesOnAs
  <2> QED BY Zenon, <2>2, <2>3 DEF Answers
<1>6. CASE o.kind \in {"hold", "send"}
  <2>1. Answers(x, y, b)
    BY Zenon, <1>3, <1>4, <1>6 DEF Answers
  <2>2. CASE z = y
    BY Zenon, <2>1, <2>2
  <2>3. CASE \E f \in FlushPending(y, x.seqs[i]) : z = f.x \/ z \in RemoveSequence(f.x, i)
    <3>1. PICK f \in FlushPending(y, y.seqs[i]) : z = f.x \/ z \in RemoveSequence(f.x, i)
      BY Zenon, <1>2, <2>3
    <3>2. Almost(f.x, i) /\ f.x.seqs = y.seqs
      BY Zenon, <1>2, FlushSound
    <3>3. Used(f.x, i)
      BY Zenon, <1>2, <3>2 DEF Used
    <3>4. Answers(x, f.x, b)
      BY Zenon, <1>2, <2>1, FlushEnds, EndsAnswers, AnswersTwice
    <3>5. CASE z \in RemoveSequence(f.x, i)
      <4>1. Ends(f.x, z)
        BY Zenon, <3>2, <3>3, <3>5, RemoveEnds
      <4> QED BY Zenon, <3>4, <4>1, EndsAnswers, AnswersTwice
    <3> QED BY Zenon, <3>1, <3>4, <3>5
  <2>4. CASE o.kind \in {"hold", "send"} /\ z \notin {y} /\ ~\E f \in FlushPending(y, x.seqs[i]) : z = f.x \/ z \in RemoveSequence(f.x, i)
    BY <1>1, <2>4, <1>5
  <2> QED BY <2>2, <2>3, <2>4, <1>6
<1> QED BY <1>1, <1>4, <1>5, <1>6

(* One place *)
LEMMA DecodeSeqAnswers ==
    ASSUME Ready, NEW x, Sound(x), NEW b \in BatchType, RowsOf(b), NEW i \in Idx, NEW z \in DecodeSeq(x, b, i), z # Panicked
    PROVE  Answers(x, z, b)
<1>1. CASE z = x
  <2>1. Ends(x, x)
    BY Zenon DEF Ends, GoesOnAs
  <2> QED BY Zenon, <1>1, <2>1, EndsAnswers
<1>2. CASE Used(x, i) /\ b.next[i] # None /\ \E o \in Outcomes(x, x.seqs[i]) : z \in DecodeOne(x, b, i, o)
  BY Zenon, <1>2, DecodeOneAnswers
<1> QED BY <1>1, <1>2 DEF DecodeSeq, Used

(* The second section samples the tokens that its batch has asked for. *)
LEMMA DecodeAnswers ==
    ASSUME Ready, Sound(srv), NEW b \in BatchType, RowsOf(b), NEW x \in DecodeAll(b), x # Panicked
    PROVE  Answers(srv, x, b)
<1> DEFINE P == {y \in SrvType \cup {Panicked} : y # Panicked => Sound(y) /\ Answers(srv, y, b)}
           n == Parallel
           J == [j \in 0 .. n |-> SUBSET P]
           s == [j \in 1 .. n |-> j - 1]
<1>1. n \in Nat /\ Idx = 0 .. n - 1
  BY Numbers DEF Idx
<1>2. DOMAIN s = 1 .. n /\ \A j \in 1 .. n : s[j] \in Idx
  BY <1>1
<1>3. {srv} \in J[0]
  <2>1. Answers(srv, srv, b) /\ srv \in SrvType
    <3>1. Ends(srv, srv)
      BY Zenon DEF Ends, GoesOnAs
    <3> QED BY Zenon, <3>1, EndsAnswers DEF Sound
  <2> QED BY <1>1, <2>1
<1>4. ASSUME NEW j \in 1 .. n, NEW X \in J[j - 1] PROVE DecOp(b, s[j], X) \in J[j]
  <2>1. j - 1 \in 0 .. n /\ j \in 0 .. n /\ s[j] \in Idx
    BY <1>1, <1>2
  <2>2. X \subseteq P
    BY <2>1
  <2> DEFINE i == s[j]
  <2> HIDE DEF i
  <2>3. ASSUME NEW z \in DecodePlace(b, X, i) PROVE z \in P
    <3>1. PICK y \in X : z \in DecodeSeq(y, b, i)
      BY <2>3 DEF DecodePlace
    <3>2. CASE z = Panicked
      BY <3>2
    <3>3. CASE z # Panicked
      <4>1. y # Panicked
        BY <3>1, <3>3 DEF DecodeSeq
      <4>2. Sound(y) /\ Answers(srv, y, b)
        BY <2>2, <3>1, <4>1
      <4>3. Kept(y, z) /\ Answers(y, z, b)
        BY Zenon, <2>1, <3>1, <3>3, <4>2, DecodeSeqKept, DecodeSeqAnswers DEF i
      <4>4. Sound(z) /\ Answers(srv, z, b) /\ z \in SrvType
        BY Zenon, <4>2, <4>3, AnswersTwice DEF Kept, Sound
      <4> QED BY <4>4
    <3> QED BY <3>2, <3>3
  <2> HIDE DEF P
  <2> QED BY <2>1, <2>3 DEF DecOp, i
<1>5. DecIn!LeftFold(b, {srv}, s) \in J[n]
  <2>1. \A j \in 1 .. n : \A X \in J[j - 1] : DecOp(b, s[j], X) \in J[j]
    BY <1>4
  <2> HIDE DEF J, n, s
  <2>2. DecIn!WellOrdered /\ DecIn!Ranked(1 .. n)
    <3>1. IsFiniteSet(1 .. n)
      BY <1>1, FS_Interval
    <3> QED BY <3>1, LeastNatural, FiniteRanks DEF DecIn!WellOrdered, DecIn!Ranked
  <2> QED BY ONLY <1>1, <1>2, <1>3, <2>1, <2>2, DecIn!FoldLeftInduction
<1>6. DecodeAll(b) = DecIn!LeftFold(b, {srv}, s)
  BY DEF DecodeAll, DecIn!LeftFold, DecOp, FoldLeft, MapThenFoldSet, DecIn!MapThenFoldSet, Max, DecIn!Top
<1>7. x \in P
  <2>1. n \in 0 .. n
    BY <1>1
  <2> HIDE DEF P
  <2> QED BY <1>5, <1>6, <2>1
<1> QED BY <1>7
(* An input keeps its token, unless the batch has asked for it. *)
LEMMA MetSettled ==
    ASSUME NEW k, NEW h, NEW b, NEW e, Settles(k, h, b), Met(k, e)
    PROVE  Met(h, e) /\ (~Open(b, e) => Val(h, e) = Val(k, e))
<1>1. CASE e \in Toks
  BY Zenon, <1>1 DEF Met, Val
<1>2. CASE e \notin Toks
  <2>1. e \in Pieces /\ e[2] \in 1 .. Len(k[e[1]])
    BY Zenon, <1>2 DEF Met
  <2>2. e[1] \in Req /\ e = <<e[1], e[2]>>
    BY <2>1 DEF Pieces
  <2>3. Len(h[e[1]]) = Len(k[e[1]]) /\ (h[e[1]][e[2]] = k[e[1]][e[2]] \/ Asked(b, e))
    <3>1. h[e[1]][e[2]] = k[e[1]][e[2]] \/ Asked(b, <<e[1], e[2]>>)
      BY Zenon, <2>1, <2>2 DEF Settles
    <3>2. Len(h[e[1]]) = Len(k[e[1]])
      BY Zenon, <2>2 DEF Settles
    <3> QED BY Zenon, <2>2, <3>1, <3>2
  <2> QED BY Zenon, <1>2, <2>1, <2>3 DEF Met, Val, Open, Asked
<1> QED BY Zenon, <1>1, <1>2

\* The batches f left of g when the k-th is done
Leaves(g, m, k, f, l, j, n) ==
    /\ n \in DOMAIN g /\ n # k /\ f[j].next = g[n].next /\ f[j].ins = g[n].ins
    /\ m = "flying" /\ Behind(g, n) => l = "flying" /\ Behind(f, j)

(* A batch that is done leaves the others, and which one is the last. *)
LEMMA DoneLeaves ==
    ASSUME Flying(flight, last), NEW k \in 1 .. Len(flight), flight[k].st = "computing",
           NEW rest, rest = IF k < Len(flight) THEN [flight EXCEPT ![k + 1].ready = TRUE] ELSE flight,
           NEW f, f = RemoveAt(rest, k), NEW l, l = IF k = Len(flight) /\ last = "flying" THEN "done" ELSE last
    PROVE  /\ \A j \in DOMAIN f : \E n \in DOMAIN flight : Leaves(flight, last, k, f, l, j, n)
           /\ last = "flying" /\ Latest(flight).st = "built" => Latest(f).ins = Latest(flight).ins
<1>1. flight \in Seq(BatchType) /\ last \in {"nil", "flying", "done"}
  BY DEF Flying
<1>2. /\ rest \in Seq(BatchType) /\ Len(rest) = Len(flight)
      /\ \A j \in 1 .. Len(flight) : /\ rest[j].st = flight[j].st /\ rest[j].next = flight[j].next
                                     /\ rest[j].ins = flight[j].ins /\ (j # k + 1 => rest[j].ready = flight[j].ready)
  <2>1. CASE k < Len(flight)
    <3> DEFINE c == [flight[k + 1] EXCEPT !.ready = TRUE]
               m == k + 1
    <3>1. m \in 1 .. Len(flight) /\ flight[m] \in BatchType
      BY <1>1, <2>1
    <3>2. c \in BatchType /\ c.st = flight[m].st /\ c.ins = flight[m].ins /\ c.next = flight[m].next
      BY <3>1 DEF BatchType
    <3>3. rest = [flight EXCEPT ![m] = c]
      BY <2>1
    <3>5. m = k + 1
      OBVIOUS
    <3> HIDE DEF c, m
    <3>4. /\ rest \in Seq(BatchType) /\ Len(rest) = Len(flight) /\ rest[m] = c
          /\ \A j \in 1 .. Len(flight) : j # m => rest[j] = flight[j]
      BY ONLY <1>1, <3>1, <3>2, <3>3
    <3> QED BY ONLY <3>2, <3>4, <3>5
  <2>2. CASE ~(k < Len(flight))
    BY <1>1, <2>2
  <2> QED BY <2>1, <2>2
<1> DEFINE n == Len(flight)
           from(p) == IF p < k THEN p ELSE p + 1
<1>3. n \in Nat \ {0} /\ k \in 1 .. n /\ DOMAIN flight = 1 .. n
  BY <1>1
<1>4. f \in Seq(BatchType) /\ Len(f) = n - 1 /\ \A p \in 1 .. n - 1 : f[p] = rest[from(p)]
  <2>1. rest \in Seq(BatchType) /\ Len(rest) = n /\ k \in 1 .. Len(rest) /\ f = RemoveAt(rest, k)
    BY <1>2, <1>3
  <2> HIDE DEF n
  <2>2. /\ f \in Seq(BatchType) /\ Len(f) = Len(rest) - 1
        /\ \A p \in 1 .. Len(rest) - 1 : f[p] = rest[IF p < k THEN p ELSE p + 1]
    BY ONLY <2>1, RemoveAtIs
  <2> QED BY ONLY <2>1, <2>2
<1>5. DOMAIN f = 1 .. n - 1
  BY <1>4
<1>6. \A j \in 1 .. n : /\ rest[j].st = flight[j].st /\ rest[j].next = flight[j].next
                        /\ rest[j].ins = flight[j].ins /\ (j # k + 1 => rest[j].ready = flight[j].ready)
  BY Zenon, <1>2
<1>7. Latest(flight) = flight[n] /\ Latest(f) = f[n - 1]
  BY Zenon, <1>4 DEF Latest
<1>8. l = IF k = n /\ last = "flying" THEN "done" ELSE last
  BY Zenon
<1>9. \A g, j : Behind(g, j) <=> IF Latest(g).st = "built" THEN j = Len(g) - 1 /\ ~Latest(g).ready ELSE j = Len(g)
  BY Zenon DEF Behind
<1> HIDE DEF n
<1>10. \A p \in 1 .. n - 1 : from(p) \in 1 .. n /\ from(p) # k /\ (from(p) = n <=> p = n - 1 /\ k < n)
                             /\ (k < n - 1 /\ from(p) = n - 1 => p = n - 2)
  BY ONLY <1>3
<1>11. k < n => n - 1 \in 1 .. n - 1 /\ from(n - 1) = n
  BY ONLY <1>3
<1> HIDE DEF from
<1>12. k < n => Latest(f) = rest[n]
  BY ONLY <1>4, <1>7, <1>11
<1>13. n \in 1 .. n
  BY ONLY <1>3
<1>14. k < n => /\ Latest(f).st = flight[n].st /\ Latest(f).ins = flight[n].ins
                /\ k # n - 1 => Latest(f).ready = flight[n].ready
  <2>1. k # n - 1 => n # k + 1
    BY ONLY <1>3
  <2> QED BY Zenon, <1>6, <1>12, <1>13, <2>1
<1>15. flight[n].st = "built" => k < n
  <2>1. flight[n].st = "built" => k # n
    BY Zenon
  <2> QED BY ONLY <1>3, <2>1
<1>16. ASSUME NEW p \in 1 .. n - 1, last = "flying", Behind(flight, from(p))  PROVE l = "flying" /\ Behind(f, p)
  <2>1. Len(flight) = n /\ Len(f) = n - 1
    BY Zenon, <1>4 DEF n
  <2>2. CASE flight[n].st = "built"
    <3>1. from(p) = n - 1 /\ ~flight[n].ready /\ k < n
      BY Zenon, <1>7, <1>9, <1>15, <1>16, <2>1, <2>2
    <3>2. k < n - 1 /\ k # n - 1 /\ k # n
      BY ONLY <1>3, <1>10, <3>1, p \in 1 .. n - 1
    <3>3. p = (n - 1) - 1
      BY ONLY <1>3, <1>10, <3>1, <3>2, p \in 1 .. n - 1
    <3> QED BY Zenon, <1>8, <1>9, <1>14, <1>16, <2>1, <2>2, <3>1, <3>2, <3>3
  <2>3. CASE flight[n].st # "built"
    <3>1. from(p) = n
      BY Zenon, <1>7, <1>9, <1>16, <2>1, <2>3
    <3>2. p = n - 1 /\ k < n /\ k # n
      BY ONLY <1>3, <1>10, <3>1, p \in 1 .. n - 1
    <3> QED BY Zenon, <1>8, <1>9, <1>14, <1>16, <2>1, <2>3, <3>2
  <2> QED BY Zenon, <2>2, <2>3
<1>17. ASSUME NEW p \in DOMAIN f  PROVE Leaves(flight, last, k, f, l, p, from(p)) /\ from(p) \in DOMAIN flight
  <2>1. p \in 1 .. n - 1
    BY Zenon, <1>5, <1>17
  <2>2. from(p) \in DOMAIN flight /\ from(p) # k /\ from(p) \in 1 .. n
    BY Zenon, <1>3, <1>10, <2>1
  <2>3. f[p].next = flight[from(p)].next /\ f[p].ins = flight[from(p)].ins
    BY Zenon, <1>4, <1>6, <2>1, <2>2
  <2> QED BY Zenon, <1>16, <2>1, <2>2, <2>3 DEF Leaves
<1> QED BY Zenon, <1>7, <1>14, <1>15, <1>17
(* An input that is due stays so. *)
LEMMA DueLeft ==
    ASSUME NEW k, NEW h, NEW b, NEW e, Settles(k, h, b), NEW g, NEW m, NEW a, NEW f, NEW l,
           \A j \in DOMAIN f : \E n \in DOMAIN g : Leaves(g, m, a, f, l, j, n), Due(k, g, m, e)
    PROVE  Due(h, f, l, e)
<1>1. Met(h, e)
  BY Zenon, MetSettled DEF Due
<1>2. ASSUME NEW j \in DOMAIN f, Open(f[j], e)  PROVE l = "flying" /\ Behind(f, j)
  <2>1. PICK n \in DOMAIN g : Leaves(g, m, a, f, l, j, n)
    BY Zenon, <1>2
  <2>2. Open(g[n], e)
    BY Zenon, <1>2, <2>1 DEF Open, Leaves
  <2> QED BY Zenon, <2>1, <2>2 DEF Due, Leaves
<1> QED BY Zenon, <1>1, <1>2 DEF Due

(* The second section of computeBatch: it changes only tokens that the      *)
(* batch has asked for, which no slot has and which only a batch that waits *)
(* for this one will compute.                                               *)
LEMMA DecodeStored ==
    ASSUME Inv, Inv', StoredInv, NEW k \in 1 .. Len(flight), Decode(k)
    PROVE  StoredInv'
<1>1. Ready /\ Sound(srv) /\ srv \in SrvType /\ Flying(flight, last) /\ Awaits(srv, flight, last) /\ flight \in Seq(BatchType)
  BY DEF Inv, Flying, Sound
<1> DEFINE b == flight[k]
           rest == IF k < Len(flight) THEN [flight EXCEPT ![k + 1].ready = TRUE] ELSE flight
           f == flight'
           l == last'
           y == srv'
<1>2. /\ b.st = "computing" /\ f = RemoveAt(rest, k)
      /\ l = IF k = Len(flight) /\ last = "flying" THEN "done" ELSE last
      /\ conf' = conf /\ hpc' = hpc /\ early' = early
  BY DEF Decode
<1>3. b \in BatchType /\ RowsOf(b) /\ k \in DOMAIN flight
  BY <1>1 DEF Flying
<1>4. Answers(srv, y, b)
  <2>1. PICK x \in DecodeAll(b) : y = (IF x = Panicked THEN srv ELSE x) /\ down' = (x = Panicked)
    BY DEF Decode
  <2>2. CASE x = Panicked
    <3>1. Ends(srv, srv)
      BY Zenon DEF Ends, GoesOnAs
    <3> QED BY Zenon, <2>1, <2>2, <3>1, EndsAnswers
  <2>3. CASE x # Panicked
    BY Zenon, <1>1, <1>3, <2>1, <2>3, DecodeAnswers
  <2> QED BY Zenon, <2>2, <2>3
<1> HIDE DEF f, l
<1>5. /\ \A j \in DOMAIN f : \E n \in DOMAIN flight : Leaves(flight, last, k, f, l, j, n)
      /\ last = "flying" /\ Latest(flight).st = "built" => Latest(f).ins = Latest(flight).ins
  <2> HIDE DEF rest
  <2>1. rest = IF k < Len(flight) THEN [flight EXCEPT ![k + 1].ready = TRUE] ELSE flight
    BY DEF rest
  <2> QED BY Zenon, <1>1, <1>2, <2>1, DoneLeaves
<1> HIDE DEF rest, y
<1>6. SUFFICES ASSUME ~early'  PROVE Stored(y, f, l) /\ Blank(srv.tok)'
  BY Zenon, <1>2, StoredStep DEF f, l, y
<1>7. Stored(srv, flight, last) /\ Blank(srv.tok)
  BY Zenon, <1>2, <1>6 DEF StoredInv
<1>8. y.cell = srv.cell /\ y.kv = srv.kv /\ Settles(srv.tok, y.tok, b)
  BY Zenon, <1>4 DEF Answers, Shortens
<1>9. ASSUME NEW s \in Idx  PROVE Holds(y, f, s)
  <2> SUFFICES ASSUME NEW p \in 1 .. Len(y.slots[s].Inputs)
               PROVE  Backed(y.cell, y.tok, f, y.slots[s].Inputs[p], y.kv[s][p])
    BY Zenon DEF Holds
  <2> DEFINE e == srv.slots[s].Inputs[p]
  <2>1. p \in 1 .. Len(srv.slots[s].Inputs) /\ y.slots[s].Inputs[p] = e
    BY Zenon, <1>4, <1>9 DEF Answers, Shortens, Trimmed
  <2>2. Backed(srv.cell, srv.tok, flight, e, srv.kv[s][p])
    BY Zenon, <1>7, <1>9, <2>1 DEF Stored, Holds
  <2> HIDE DEF e
  <2>3. Met(y.tok, e) /\ Val(y.tok, e) = Val(srv.tok, e)
    <3>1. Met(srv.tok, e) /\ ~Open(b, e)
      BY Zenon, <1>3, <2>2 DEF Backed
    <3> QED BY ONLY <1>8, <3>1, MetSettled
  <2>4. \A j \in DOMAIN f : ~Open(f[j], e)
    <3> SUFFICES ASSUME NEW j \in DOMAIN f, Open(f[j], e)  PROVE FALSE
      BY Zenon
    <3>1. PICK n \in DOMAIN flight : Leaves(flight, last, k, f, l, j, n)
      BY Zenon, <1>5
    <3>2. Open(flight[n], e)
      BY Zenon, <3>1 DEF Open, Leaves
    <3> QED BY Zenon, <2>2, <3>2 DEF Backed
  <2> QED BY Zenon, <1>8, <2>1, <2>2, <2>3, <2>4 DEF Backed
<1>10. ASSUME NEW i \in Idx, Used(y, i)  PROVE Follows(y.tok, f, l, y.seqs[i], Who(y, i)) /\ Carries(y, i, Latest(f).ins)
  <2>1. GoesOnAs(srv, y, i) /\ Used(srv, i)
    BY Zenon, <1>4, <1>10 DEF Answers, GoesOnAs
  <2>2. Follows(srv.tok, flight, last, srv.seqs[i], Who(srv, i)) /\ Carries(srv, i, Latest(flight).ins)
    BY Zenon, <1>7, <2>1 DEF Stored
  <2>3. \A e : Due(srv.tok, flight, last, e) => Due(y.tok, f, l, e)
    <3> SUFFICES ASSUME NEW e, Due(srv.tok, flight, last, e)  PROVE Due(y.tok, f, l, e)
      BY Zenon
    <3>1. Settles(srv.tok, y.tok, b) /\ \A j \in DOMAIN f : \E n \in DOMAIN flight : Leaves(flight, last, k, f, l, j, n)
      BY Zenon, <1>5, <1>8
    <3> QED BY ONLY <3>1, DueLeft, Due(srv.tok, flight, last, e)
  <2>4. Len(y.tok[srv.seqs[i]]) = Len(srv.tok[srv.seqs[i]])
    <3>1. srv.seqs[i] \in Req
      BY <1>1, <2>1 DEF SrvType, Used
    <3> QED BY Zenon, <1>8, <3>1 DEF Settles
  <2>5. Follows(y.tok, f, l, y.seqs[i], Who(y, i))
    BY Zenon, <2>1, <2>2, <2>3, <2>4 DEF Follows, AllDue, GoesOnAs
  <2>6. CASE Who(srv, i).pending = << >>
    <3>1. \A p \in 1 .. Len(<< >>) : FALSE
      OBVIOUS
    <3>2. Carries(y, i, Latest(f).ins)
      BY Zenon, <2>1, <2>6, <3>1 DEF Carries, Carried, GoesOnAs
    <3> QED BY Zenon, <2>5, <3>2
  <2>7. CASE Who(srv, i).pending # << >>
    <3>1. Latest(f).ins = Latest(flight).ins
      BY Zenon, <1>1, <1>5, <2>1, <2>7 DEF Awaits
    <3>2. Carries(y, i, Latest(f).ins)
      BY Zenon, <1>8, <2>1, <2>2, <3>1 DEF Carries, Carried, GoesOnAs
    <3> QED BY Zenon, <2>5, <3>2
  <2> QED BY Zenon, <2>6, <2>7
<1>11. ASSUME NEW j \in DOMAIN f  PROVE Proper(y.tok, f[j])
  <2>1. PICK n \in DOMAIN flight : Leaves(flight, last, k, f, l, j, n)
    BY Zenon, <1>5, <1>11
  <2>2. Proper(srv.tok, flight[n])
    BY Zenon, <1>7 DEF Stored
  <2>3. \A e : Met(srv.tok, e) => Met(y.tok, e)
    BY Zenon, <1>8, MetSettled
  <2> QED BY Zenon, <2>1, <2>2, <2>3 DEF Proper, Leaves
<1>12. Blank(srv.tok)'
  <2>1. \A q \in Req : srv.tok[q] = << >> => y.tok[q] = << >>
    <3> SUFFICES ASSUME NEW q \in Req, srv.tok[q] = << >>  PROVE y.tok[q] = << >>
      BY Zenon
    <3>1. Len(y.tok[q]) = Len(<< >>)
      BY Zenon, <1>8 DEF Settles
    <3>2. y \in SrvType
      <4>1. SrvType' = SrvType
        BY Zenon, <1>2, SameTypes
      <4> QED BY Zenon, <4>1 DEF Inv, Sound, y
    <3>3. y.tok[q] \in Seq(TokVals)
      BY <3>2 DEF SrvType
    <3>4. \A u \in Seq(TokVals) : Len(u) = Len(<< >>) => u = << >>
      OBVIOUS
    <3> QED BY Zenon, <3>1, <3>3, <3>4
  <2> QED BY Zenon, <1>2, <1>7, <2>1 DEF Blank, y
<1> QED BY Zenon, <1>9, <1>10, <1>11, <1>12 DEF Stored
-----------------------------------------------------------------------------
(* The first section of computeBatch *)

\* Tokens were added to k only.
Grown(k, h) == \A q \in Req : \A m \in 1 .. Len(k[q]) : m \in 1 .. Len(h[q]) /\ h[q][m] = k[q][m]

(* What was given out keeps its token, which is none of the marks. *)
LEMMA MetGrown ==
    ASSUME NEW k, NEW h, NEW e, Grown(k, h), Met(k, e)
    PROVE  Met(h, e) /\ Val(h, e) = Val(k, e)
<1>1. CASE e \in Toks
  BY Zenon, <1>1 DEF Met, Val
<1>2. CASE e \notin Toks
  <2>1. e \in Pieces /\ e[2] \in 1 .. Len(k[e[1]])
    BY Zenon, <1>2 DEF Met
  <2>2. e[1] \in Req
    BY <2>1 DEF Pieces
  <2> QED BY Zenon, <1>2, <2>1, <2>2 DEF Grown, Met, Val
<1> QED BY Zenon, <1>1, <1>2

LEMMA MetNotPending ==
    ASSUME NEW k \in [Req -> Seq(TokVals)], NEW e, Met(k, e)
    PROVE  Val(k, e) # Pending
<1>1. CASE e \in Toks
  BY <1>1, MarkAssumption DEF Val
<1>2. CASE e \notin Toks
  <2>1. e \in Pieces /\ e[2] \in 1 .. Len(k[e[1]])
    BY Zenon, <1>2 DEF Met
  <2>2. e[1] \in Req
    BY <2>1 DEF Pieces
  <2>3. k[e[1]] \in Seq(TokVals)
    BY Zenon, <2>2
  <2>4. \A A : \A v \in Seq(A) : \A m \in 1 .. Len(v) : v[m] \in A
    OBVIOUS
  <2>5. k[e[1]][e[2]] \in TokVals
    BY Zenon, <2>1, <2>3, <2>4
  <2> QED BY Zenon, <1>2, <2>5, MarkAssumption DEF Val, TokVals
<1> QED BY Zenon, <1>1, <1>2

(* The tokens after the first section, and what the batch then asks for *)
LEMMA AsksFor ==
    ASSUME Ready, Sound(srv), NEW b \in BatchType, NEW S, S = Samplers(b), NEW c, c = Computing(b, S),
           NEW h, h = [q \in Req |-> TokAfter(S, q)],
           \A i \in Idx : Used(srv, i) => Len(srv.tok[srv.seqs[i]]) = Who(srv, i).numPredicted
    PROVE  /\ Grown(srv.tok, h) /\ c.ins = b.ins /\ c.st = "computing"
           /\ \A q \in Req \ S : h[q] = srv.tok[q]
           /\ \A q \in S : Place(q) \in Pieces /\ Met(h, Place(q)) /\ Len(h[q]) = srv.seq[q].numPredicted + 1
           /\ \A q \in S : Place(q) \notin Toks => ~Met(srv.tok, Place(q))
           /\ \A i \in Idx : c.next[i] # None => srv.seqs[i] \in S /\ c.next[i] = Place(srv.seqs[i])
<1>1. srv \in SrvType /\ srv.tok \in [Req -> Seq(TokVals)] /\ Zero \in TokVals
  BY DEF Sound, SrvType, TokVals
<1>2. ASSUME NEW q \in S
      PROVE  /\ q \in Req /\ srv.tok[q] \in Seq(TokVals) /\ srv.seq[q].numPredicted \in Nat
             /\ Len(srv.tok[q]) = srv.seq[q].numPredicted
  <2>1. PICK i \in Idx : Used(srv, i) /\ srv.seqs[i] = q
    BY <1>2, MineIs
  <2>2. q \in Req
    BY <1>1, <2>1 DEF SrvType, Used
  <2>3. srv.seq[q] \in SeqType /\ srv.tok[q] \in Seq(TokVals)
    BY <1>1, <2>2 DEF SrvType
  <2>4. srv.seq[q].numPredicted \in Nat
    BY <2>3 DEF SeqType
  <2> QED BY Zenon, <2>1, <2>2, <2>3, <2>4 DEF Who
<1>3. \A q \in Req : h[q] = TokAfter(S, q)
  BY Zenon
<1>4. \A v \in Seq(TokVals) : \A z \in TokVals :
        Len(Append(v, z)) = Len(v) + 1 /\ \A m \in 1 .. Len(v) : m \in 1 .. Len(Append(v, z)) /\ Append(v, z)[m] = v[m]
  OBVIOUS
<1>5. \A q \in S : h[q] = Append(srv.tok[q], Zero)
  BY Zenon, <1>2, <1>3 DEF TokAfter
<1>6. \A q \in Req \ S : h[q] = srv.tok[q]
  BY <1>3 DEF TokAfter
<1>7. Grown(srv.tok, h)
  <2> SUFFICES ASSUME NEW q \in Req, NEW m \in 1 .. Len(srv.tok[q])
               PROVE  m \in 1 .. Len(h[q]) /\ h[q][m] = srv.tok[q][m]
    BY Zenon DEF Grown
  <2>1. CASE q \in S
    <3>1. srv.tok[q] \in Seq(TokVals) /\ h[q] = Append(srv.tok[q], Zero)
      BY Zenon, <1>2, <1>5, <2>1
    <3>2. m \in 1 .. Len(Append(srv.tok[q], Zero)) /\ Append(srv.tok[q], Zero)[m] = srv.tok[q][m]
      BY Zenon, <1>1, <1>4, <3>1
    <3> QED BY <3>1, <3>2
  <2>2. CASE q \notin S
    <3>1. q \in Req \ S
      BY <2>2
    <3> QED BY Zenon, <1>6, <3>1
  <2> QED BY Zenon, <2>1, <2>2
<1>8. ASSUME NEW q \in S
      PROVE  /\ Place(q) \in Pieces /\ Met(h, Place(q)) /\ Len(h[q]) = srv.seq[q].numPredicted + 1
             /\ Place(q) \notin Toks => ~Met(srv.tok, Place(q))
  <2> DEFINE n == srv.seq[q].numPredicted
  <2>1. Place(q) = <<q, n + 1>>
    BY DEF Place
  <2>2. q \in Req /\ n \in Nat /\ Len(srv.tok[q]) = n
    BY <1>2, <1>8
  <2>3. Len(h[q]) = n + 1
    <3>1. srv.tok[q] \in Seq(TokVals) /\ h[q] = Append(srv.tok[q], Zero)
      BY Zenon, <1>2, <1>5, <1>8
    <3>2. Len(h[q]) = Len(srv.tok[q]) + 1
      BY ONLY Zenon, <1>1, <1>4, <3>1
    <3> QED BY <2>2, <3>2
  <2> HIDE DEF n
  <2>4. Place(q) \in Pieces /\ Place(q)[1] = q /\ Place(q)[2] = n + 1
    BY <2>1, <2>2 DEF Pieces
  <2>5. n + 1 \in 1 .. n + 1 /\ n + 1 \notin 1 .. n
    BY <2>2
  <2> QED BY Zenon, <2>2, <2>3, <2>4, <2>5 DEF Met, n
<1>9. /\ c.ins = b.ins /\ c.st = "computing"
      /\ c.next = [i \in Idx |-> IF srv.seqs[i] \in S THEN Place(srv.seqs[i]) ELSE None]
  BY DEF Computing, BatchType
<1>10. \A i \in Idx : c.next[i] # None => srv.seqs[i] \in S /\ c.next[i] = Place(srv.seqs[i])
  BY <1>9
<1> QED BY Zenon, <1>6, <1>7, <1>8, <1>9, <1>10
(* The cells after the first section: keys that were computed stay, and the *)
(* pending ones are those of the inputs of the batch.                       *)
LEMMA ReadIs ==
    ASSUME srv \in SrvType, NEW b, Single(b.ins), NEW d \in CellIds
    PROVE  /\ srv.cell[d] # Pending => CellsAfter(b)[d] = srv.cell[d]
           /\ \A e \in Range(b.ins) : srv.cell[d] = Pending /\ e.cell = d => CellsAfter(b)[d] = Val(srv.tok, e.inp)
<1>1. CellsAfter(b)[d] = IF srv.cell[d] = Pending THEN ReadOf(b, d) ELSE srv.cell[d]
  BY DEF CellsAfter
<1>2. ASSUME NEW e \in Range(b.ins), e.cell = d  PROVE ReadOf(b, d) = Val(srv.tok, e.inp)
  <2> DEFINE g == CHOOSE u \in Range(b.ins) : u.cell = d
  <2>1. g \in Range(b.ins) /\ g.cell = d
    BY Zenon, <1>2
  <2>2. g = e
    BY Zenon, <1>2, <2>1 DEF Single
  <2> QED BY Zenon, <2>2 DEF ReadOf
<1> QED BY Zenon, <1>1, <1>2

\* The input e was given out, and no batch in f can change it.
Sealed(k, f, e) == Met(k, e) /\ \A j \in DOMAIN f : ~Open(f[j], e)

(* The slots after the first section *)
LEMMA GatherHolds ==
    ASSUME Inv, Stored(srv, flight, last), NEW b \in BatchType, b = Latest(flight), Single(b.ins),
           NEW G, G = Mine(b), NEW S, S = Samplers(b), NEW y, y = Gathering(b, G, S), NEW f,
           \A e : Sealed(srv.tok, flight, e) => Sealed(y.tok, f, e) /\ Val(y.tok, e) = Val(srv.tok, e),
           \A e : Due(srv.tok, flight, last, e) => Sealed(srv.tok, flight, e),
           NEW s \in Idx
    PROVE  Holds(y, f, s)
<1>1. Ready /\ Sound(srv) /\ srv \in SrvType /\ srv.tok \in [Req -> Seq(TokVals)]
  BY DEF Inv, Sound, SrvType
<1>2. y.kv = srv.kv /\ y.slots[s] = SlotAfter(G, s) /\ y.cell = CellsAfter(b)
  <2>1. y.cell = CellsAfter(b)
    BY <1>1 DEF Gathering, SrvType
  <2>2. y.kv = srv.kv /\ y.slots[s] = SlotAfter(G, s)
    BY <1>1, GatheringType
  <2> QED BY Zenon, <2>1, <2>2
<1>3. \A p \in 1 .. Len(srv.kv[s]) : srv.kv[s][p] \in CellIds
  <2>1. srv.kv[s] \in Seq(CellIds)
    BY <1>1 DEF SrvType
  <2>2. \A A : \A v \in Seq(A) : \A m \in 1 .. Len(v) : v[m] \in A
    OBVIOUS
  <2> QED BY Zenon, <2>1, <2>2
<1>4. ASSUME NEW e, NEW d \in CellIds, Sealed(srv.tok, flight, e), y.cell[d] = Val(srv.tok, e)
      PROVE  Backed(y.cell, y.tok, f, e, d)
  <2>1. Sealed(y.tok, f, e) /\ Val(y.tok, e) = Val(srv.tok, e)
    BY Zenon, <1>4
  <2> QED BY Zenon, <1>4, <2>1 DEF Backed, Sealed
<1>5. ASSUME NEW p \in 1 .. Len(srv.slots[s].Inputs)
      PROVE  Backed(y.cell, y.tok, f, srv.slots[s].Inputs[p], srv.kv[s][p])
  <2> DEFINE e == srv.slots[s].Inputs[p]
             d == srv.kv[s][p]
  <2>1. Backed(srv.cell, srv.tok, flight, e, d)
    BY Zenon, <1>5 DEF Stored, Holds
  <2>2. p \in 1 .. Len(srv.kv[s])
    BY Zenon, <1>1, <1>5, PlacesOf
  <2>3. d \in CellIds
    BY Zenon, <1>3, <2>2
  <2> HIDE DEF e, d
  <2>4. Sealed(srv.tok, flight, e) /\ srv.cell[d] = Val(srv.tok, e)
    BY Zenon, <2>1 DEF Backed, Sealed
  <2>5. srv.cell[d] # Pending
    BY Zenon, <1>1, <2>4, MetNotPending DEF Sealed
  <2>6. y.cell[d] = Val(srv.tok, e)
    <3>1. CellsAfter(b)[d] = srv.cell[d]
      BY <1>1, <2>3, <2>5, ReadIs
    <3> QED BY Zenon, <1>2, <2>4, <3>1
  <2>7. Backed(y.cell, y.tok, f, e, d)
    BY Zenon, <1>4, <2>3, <2>4, <2>6
  <2> QED BY Zenon, <2>7 DEF e, d
<1>6. CASE y.slots[s].Inputs = srv.slots[s].Inputs
  BY Zenon, <1>2, <1>5, <1>6 DEF Holds
<1>7. CASE \E i \in Idx : Used(srv, i) /\ Who(srv, i).slot = s /\ srv.seqs[i] \in G
  <2>1. PICK i \in Idx : Used(srv, i) /\ Who(srv, i).slot = s /\ srv.seqs[i] \in G
    BY Zenon, <1>7
  <2> DEFINE I == srv.slots[s].Inputs
             P == Who(srv, i).pending
             K == srv.kv[s]
  <2>2. y.slots[s].Inputs = I \o P /\ Inp(srv, i) = I
    <3>3. \A j \in Idx : Used(srv, j) /\ Who(srv, j).slot = s =>
             SlotAfter(G, s).Inputs = IF srv.seqs[j] \in G THEN Inp(srv, j) \o Who(srv, j).pending ELSE Inp(srv, j)
      BY ONLY <1>1, SlotAfterIs, G = Mine(b), s \in Idx
    <3>1. SlotAfter(G, s).Inputs = Inp(srv, i) \o Who(srv, i).pending
      BY Zenon, <2>1, <3>3
    <3>2. Inp(srv, i) = I
      BY Zenon, <2>1 DEF Inp
    <3> QED BY Zenon, <1>2, <3>1, <3>2
  <2>3. I \in Seq(InputSet) /\ P \in Seq(InputSet)
    <3>1. srv.seqs[i] \in Req
      BY <1>1, <2>1 DEF SrvType, Used
    <3>2. Who(srv, i) \in SeqType /\ srv.slots[s] \in SlotType
      BY <1>1, <3>1 DEF SrvType, Who
    <3> QED BY <3>2 DEF SeqType, SlotType
  <2>4. Carried(srv.cell, b.ins, P, K, Len(I))
    BY Zenon, <2>1, <2>2 DEF Stored, Carries
  <2>5. \A m \in 1 .. Len(P) : Due(srv.tok, flight, last, P[m])
    BY Zenon, <2>1 DEF Stored, Follows, AllDue
  <2>6. \A m \in 1 .. Len(P) : Len(I) + m \in 1 .. Len(K)
    BY Zenon, <1>1, <2>1, <2>2, PlacesOf
  <2>7. \A u, v \in Seq(InputSet) : \A p \in 1 .. Len(u \o v) :
           \/ p \in 1 .. Len(u) /\ (u \o v)[p] = u[p]
           \/ \E m \in 1 .. Len(v) : p = Len(u) + m /\ (u \o v)[p] = v[m]
    <3> SUFFICES ASSUME NEW u \in Seq(InputSet), NEW v \in Seq(InputSet), NEW p \in 1 .. Len(u \o v), p \notin 1 .. Len(u)
                 PROVE  \E m \in 1 .. Len(v) : p = Len(u) + m /\ (u \o v)[p] = v[m]
      OBVIOUS
    <3>1. p - Len(u) \in 1 .. Len(v) /\ p = Len(u) + (p - Len(u)) /\ (u \o v)[p] = v[p - Len(u)]
      OBVIOUS
    <3> QED BY ONLY <3>1
  <2>8. \A p \in 1 .. Len(I \o P) :
           \/ p \in 1 .. Len(I) /\ (I \o P)[p] = I[p]
           \/ \E m \in 1 .. Len(P) : p = Len(I) + m /\ (I \o P)[p] = P[m]
    BY Zenon, <2>3, <2>7
  <2>9. \A p \in 1 .. Len(I) : Backed(y.cell, y.tok, f, I[p], K[p])
    BY Zenon, <1>5
  <2> HIDE DEF I, P, K
  <2>10. ASSUME NEW m \in 1 .. Len(P)  PROVE Backed(y.cell, y.tok, f, P[m], K[Len(I) + m])
    <3> DEFINE d == K[Len(I) + m]
               g == At(P, K, Len(I), m)
    <3>1. d \in CellIds
      BY Zenon, <1>3, <2>6, <2>10 DEF K
    <3>2. srv.cell[d] = Pending /\ g \in Range(b.ins)
      BY Zenon, <2>4, <2>10 DEF Carried
    <3>3. g.inp = P[m] /\ g.cell = d
      BY DEF At
    <3> HIDE DEF d, g
    <3>4. y.cell[d] = Val(srv.tok, P[m])
      <4>1. CellsAfter(b)[d] = Val(srv.tok, g.inp)
        BY <1>1, <3>1, <3>2, <3>3, ReadIs
      <4> QED BY Zenon, <1>2, <3>3, <4>1
    <3>5. Sealed(srv.tok, flight, P[m])
      BY Zenon, <2>5, <2>10
    <3>6. Backed(y.cell, y.tok, f, P[m], d)
      BY Zenon, <1>4, <3>1, <3>4, <3>5
    <3> QED BY Zenon, <3>6 DEF d
  <2>11. ASSUME NEW p \in 1 .. Len(I \o P)  PROVE Backed(y.cell, y.tok, f, (I \o P)[p], K[p])
    <3>1. CASE p \in 1 .. Len(I) /\ (I \o P)[p] = I[p]
      BY Zenon, <2>9, <3>1
    <3>2. CASE \E m \in 1 .. Len(P) : p = Len(I) + m /\ (I \o P)[p] = P[m]
      BY Zenon, <2>10, <3>2
    <3> QED BY Zenon, <2>8, <2>11, <3>1, <3>2
  <2>12. y.kv[s] = K
    BY Zenon, <1>2 DEF K
  <2> QED BY ONLY Zenon, <2>2, <2>11, <2>12 DEF Holds
<1>8. SlotAfter(G, s) = srv.slots[s] \/ \E i \in Idx : Used(srv, i) /\ Who(srv, i).slot = s /\ srv.seqs[i] \in G
  BY ONLY <1>1, SlotAfterIs, G = Mine(b), s \in Idx
<1>9. y.slots[s].Inputs = srv.slots[s].Inputs \/ \E i \in Idx : Used(srv, i) /\ Who(srv, i).slot = s /\ srv.seqs[i] \in G
  BY ONLY Zenon, <1>2, <1>8
<1> QED BY ONLY Zenon, <1>6, <1>7, <1>9

(* The first section of computeBatch: it starts when the outputs of its     *)
(* predecessor are there, so that what it reads is no placeholder.          *)
LEMMA GatherStored ==
    ASSUME Inv, StoredInv, NEW k \in 1 .. Len(flight), Gather(k)
    PROVE  StoredInv'
<1>1. Ready /\ Sound(srv) /\ srv \in SrvType /\ Flying(flight, last) /\ flight \in Seq(BatchType)
  BY DEF Inv, Flying, Sound
<1> DEFINE b == flight[k]
           G == Mine(b)
           S == Samplers(b)
           c == Computing(b, S)
           f == flight'
           y == srv'
           h == y.tok
<1>2. /\ b.st = "built" /\ y = Gathering(b, G, S) /\ f = [flight EXCEPT ![k] = c]
      /\ conf' = conf /\ hpc' = hpc /\ last' = last /\ early' = early
  BY GatherMeans
<1>3. b.ready
  BY DEF Gather, InputsReady
<1>4. k \in DOMAIN flight /\ k = Len(flight) /\ last = "flying" /\ b \in BatchType /\ b = Latest(flight)
  BY <1>1, <1>2 DEF Flying, Latest
<1>5. /\ y \in SrvType /\ y.seqs = srv.seqs /\ y.kv = srv.kv
      /\ \A q \in Req : y.seq[q] = SeqAfter(G, S, q)
      /\ h = [q \in Req |-> TokAfter(S, q)]
  <2>1. y \in SrvType /\ y.seqs = srv.seqs /\ y.kv = srv.kv /\ \A q \in Req : y.seq[q] = SeqAfter(G, S, q)
    BY <1>1, <1>2, <1>4, GatheringType
  <2>2. Gathering(b, G, S).tok = [q \in Req |-> TokAfter(S, q)]
    <3> HIDE DEF b, G, S
    <3> QED BY <1>1 DEF Gathering, SrvType
  <2> QED BY Zenon, <1>2, <2>1, <2>2
<1>6. \A i \in Idx : Used(y, i) => Who(y, i).pending = << >> /\ Who(y, i).inputs # << >>
  BY <1>2, <1>4, GatheringSound
<1>7. /\ S \subseteq G /\ G \subseteq Req
      /\ \A q \in G : \E i \in Idx : Used(srv, i) /\ srv.seqs[i] = q
  BY <1>1, MineIs
<1>8. c \in BatchType /\ c.st = "computing"
  BY <1>4, ComputingIs
<1> HIDE DEF c, h
<1>9. /\ Len(f) = Len(flight) /\ DOMAIN f = DOMAIN flight /\ f[k] = c /\ Latest(f) = c
      /\ \A j \in DOMAIN flight : j # k => f[j] = flight[j]
  <2> HIDE DEF b, f
  <2>1. Len(f) = Len(flight) /\ DOMAIN f = DOMAIN flight /\ f[k] = c /\ \A j \in DOMAIN flight : j # k => f[j] = flight[j]
    BY <1>1, <1>2, <1>4, <1>8
  <2> QED BY <1>4, <2>1 DEF Latest
<1> HIDE DEF f, y, G, S
<1>10. SUFFICES ASSUME ~early'  PROVE Stored(y, f, last) /\ Blank(srv.tok)'
  BY Zenon, <1>2, StoredStep DEF f, y
<1>11. Stored(srv, flight, last) /\ Blank(srv.tok)
  BY Zenon, <1>2, <1>10 DEF StoredInv
<1>12. /\ Grown(srv.tok, h) /\ c.ins = b.ins
       /\ \A q \in Req \ S : h[q] = srv.tok[q]
       /\ \A q \in S : Place(q) \in Pieces /\ Met(h, Place(q)) /\ Len(h[q]) = srv.seq[q].numPredicted + 1
       /\ \A q \in S : Place(q) \notin Toks => ~Met(srv.tok, Place(q))
       /\ \A i \in Idx : c.next[i] # None => srv.seqs[i] \in S /\ c.next[i] = Place(srv.seqs[i])
  <2>1. \A i \in Idx : Used(srv, i) => Len(srv.tok[srv.seqs[i]]) = Who(srv, i).numPredicted
    BY Zenon, <1>11 DEF Stored, Follows
  <2>2. S = Samplers(b) /\ c = Computing(b, S)
    BY Zenon DEF S, c
  <2>3. b \in BatchType /\ Ready /\ Sound(srv) /\ h = [q \in Req |-> TokAfter(S, q)]
    BY Zenon, <1>1, <1>4, <1>5
  <2> HIDE DEF b
  <2> QED BY ONLY <2>1, <2>2, <2>3, AsksFor
<1> HIDE DEF b
<1>13. \A e : Met(srv.tok, e) => Met(h, e) /\ Val(h, e) = Val(srv.tok, e) /\ ~Open(c, e)
  <2> SUFFICES ASSUME NEW e, Met(srv.tok, e)  PROVE Met(h, e) /\ Val(h, e) = Val(srv.tok, e) /\ ~Open(c, e)
    BY Zenon
  <2>1. Met(h, e) /\ Val(h, e) = Val(srv.tok, e)
    <3>1. Grown(srv.tok, h) /\ Met(srv.tok, e)
      BY Zenon, <1>12
    <3> QED BY ONLY <3>1, MetGrown
  <2>2. ~Open(c, e)
    BY Zenon, <1>12 DEF Open
  <2> QED BY Zenon, <2>1, <2>2
<1>14. \A e : Sealed(srv.tok, flight, e) => Sealed(h, f, e) /\ Val(h, e) = Val(srv.tok, e)
  <2> SUFFICES ASSUME NEW e, Sealed(srv.tok, flight, e)  PROVE Sealed(h, f, e) /\ Val(h, e) = Val(srv.tok, e)
    BY Zenon
  <2>1. Met(h, e) /\ Val(h, e) = Val(srv.tok, e) /\ ~Open(c, e)
    BY Zenon, <1>13 DEF Sealed
  <2>2. \A j \in DOMAIN f : ~Open(f[j], e)
    BY Zenon, <1>9, <2>1 DEF Sealed
  <2> QED BY Zenon, <2>1, <2>2 DEF Sealed
<1>15. \A e : Due(srv.tok, flight, last, e) => Sealed(srv.tok, flight, e)
  <2>1. \A j : ~Behind(flight, j)
    BY Zenon, <1>2, <1>3, <1>4 DEF Behind
  <2> QED BY Zenon, <2>1 DEF Due, Sealed
<1>16. Single(b.ins)
  BY Zenon, <1>4, <1>11 DEF Stored, Proper, b
<1>17. \A s \in Idx : Holds(y, f, s)
  <2>1. b \in BatchType /\ b = Latest(flight) /\ G = Mine(b) /\ S = Samplers(b) /\ y = Gathering(b, G, S)
    BY Zenon, <1>2, <1>4 DEF G, S
  <2>2. \A e : Sealed(srv.tok, flight, e) => Sealed(y.tok, f, e) /\ Val(y.tok, e) = Val(srv.tok, e)
    BY Zenon, <1>14 DEF h
  <2>3. Stored(srv, flight, last)
    BY Zenon, <1>11
  <2> QED BY ONLY Inv, <1>15, <1>16, <2>1, <2>2, <2>3, GatherHolds
<1>18. \A e : Due(srv.tok, flight, last, e) => Due(h, f, last, e)
  BY Zenon, <1>14, <1>15 DEF Due, Sealed
<1>19. ASSUME NEW q \in S  PROVE Due(h, f, last, Place(q))
  <2>1. ASSUME NEW j \in DOMAIN f, Open(f[j], Place(q))  PROVE Behind(f, j)
    <3>1. CASE j = k
      <4>1. Latest(f).st # "built" /\ j = Len(f)
        BY <1>4, <1>8, <1>9, <3>1
      <4> QED BY Zenon, <4>1 DEF Behind
    <3>2. CASE j # k
      <4>1. Open(flight[j], Place(q)) /\ Proper(srv.tok, flight[j])
        BY Zenon, <1>9, <1>11, <2>1, <3>2 DEF Stored
      <4> QED BY Zenon, <1>12, <1>19, <4>1 DEF Open, Proper
    <3> QED BY Zenon, <3>1, <3>2
  <2> QED BY Zenon, <1>4, <1>12, <1>19, <2>1 DEF Due
<1>20. \A g, l : AllDue(h, g, l, << >>)
  <2>1. \A p \in 1 .. Len(<< >>) : FALSE
    OBVIOUS
  <2> QED BY Zenon, <2>1 DEF AllDue
<1>21. ASSUME NEW i \in Idx, Used(y, i)  PROVE Follows(h, f, last, y.seqs[i], Who(y, i)) /\ Carries(y, i, Latest(f).ins)
  <2> DEFINE q == srv.seqs[i]
             r == Who(srv, i)
             t == Who(y, i)
  <2>1. Used(srv, i) /\ y.seqs[i] = q /\ q \in Req /\ r = srv.seq[q] /\ t = SeqAfter(G, S, q)
    <3>1. Used(srv, i) /\ y.seqs[i] = q
      BY Zenon, <1>5, <1>21 DEF Used
    <3>2. q \in Req
      BY <1>1, <3>1 DEF SrvType, Used
    <3> QED BY Zenon, <1>5, <3>1, <3>2 DEF Who
  <2>2. /\ q \notin G => t = r
        /\ q \in G \ S => t.inputs = r.inputs /\ t.numPredicted = r.numPredicted
        /\ q \in S => Asks(q, r, t)
    BY <1>1, <1>7, <2>1, SeqAfterIs
  <2>3. t.pending = << >>
    BY Zenon, <1>6, <1>21
  <2>4. Follows(srv.tok, flight, last, q, r)
    BY Zenon, <1>11, <2>1 DEF Stored
  <2>5. Carries(y, i, Latest(f).ins)
    <3>1. \A p \in 1 .. Len(<< >>) : FALSE
      OBVIOUS
    <3> QED BY Zenon, <2>3, <3>1 DEF Carries, Carried
  <2>6. CASE q \in S
    <3>1. t.inputs = <<Place(q)>> /\ t.numPredicted = srv.seq[q].numPredicted + 1
      BY <2>1, <2>2, <2>6 DEF Asks, Place
    <3>2. AllDue(h, f, last, <<Place(q)>>)
      <4>1. \A e : \A p \in 1 .. Len(<<e>>) : <<e>>[p] = e
        OBVIOUS
      <4> DEFINE e == Place(q)
      <4>2. Due(h, f, last, e)
        BY Zenon, <1>19, <2>6
      <4> HIDE DEF e
      <4>3. AllDue(h, f, last, <<e>>)
        BY <4>1, <4>2 DEF AllDue
      <4> QED BY Zenon, <4>3 DEF e
    <3>3. Len(h[q]) = t.numPredicted
      BY Zenon, <1>12, <2>6, <3>1
    <3> QED BY Zenon, <1>20, <2>1, <2>3, <2>5, <3>1, <3>2, <3>3 DEF Follows
  <2>7. CASE q \notin S
    <3>1. t.inputs = r.inputs /\ t.numPredicted = r.numPredicted
      BY <2>2, <2>7
    <3>2. h[q] = srv.tok[q]
      BY <1>12, <2>1, <2>7
    <3>3. AllDue(h, f, last, r.inputs)
      BY Zenon, <1>18, <2>4 DEF Follows, AllDue
    <3> QED BY Zenon, <1>20, <2>1, <2>3, <2>4, <2>5, <3>1, <3>2, <3>3 DEF Follows
  <2> QED BY Zenon, <2>6, <2>7
<1>22. ASSUME NEW j \in DOMAIN f  PROVE Proper(h, f[j])
  <2>1. CASE j = k
    BY Zenon, <1>9, <1>12, <1>16, <2>1 DEF Proper
  <2>2. CASE j # k
    BY Zenon, <1>9, <1>11, <1>13, <1>22, <2>2 DEF Proper, Stored
  <2> QED BY Zenon, <2>1, <2>2
<1>23. Blank(srv.tok)'
  <2> SUFFICES ASSUME NEW q \in Req, hpc[q] \in {"new", "waiting", "admit"}  PROVE h[q] = << >>
    BY Zenon, <1>2 DEF Blank, h, y
  <2>1. q \notin S
    BY Zenon, <1>7, NotSeated
  <2>2. q \in Req \ S /\ srv.tok[q] = << >>
    BY <1>11, <2>1 DEF Blank
  <2> QED BY Zenon, <1>12, <2>2
<1> QED BY Zenon, <1>17, <1>21, <1>22, <1>23 DEF Stored, h
-----------------------------------------------------------------------------
(***************************************************************************)
(* forwardBatch.  While the batch is built no token changes; the entries   *)
(* of the batch are those of the places D that are done, in cells of their *)
(* slots.                                                                  *)
(***************************************************************************)
Ours(x, D, d) == \E i \in Idx \cap D : Used(x, i) /\ d \in Range(x.kv[Who(x, i).slot])
Mid(a, D) ==
    /\ a.x.tok = srv.tok
    /\ \A s \in Idx : Holds(a.x, flight, s)
    /\ \A i \in Idx : Used(a.x, i) => Follows(srv.tok, flight, last, a.x.seqs[i], Who(a.x, i))
    /\ \A i \in Idx : Used(a.x, i) => Carries(a.x, i, a.ins)
    /\ Single(a.ins) /\ \A e \in Range(a.ins) : Ours(a.x, D, e.cell)

\* The step of the place i leaves the other places and the cells in use as they are.
Beside(x, y, i) ==
    /\ y.tok = x.tok /\ \A d \in Owned(x) : y.cell[d] = x.cell[d]
    /\ \A j \in Idx \ {i} : Used(x, j) => Used(y, j)
    /\ \A j \in Idx \ {i} : Used(y, j) => GoesOnAs(x, y, j) /\ y.kv[Who(x, j).slot] = x.kv[Who(x, j).slot]

(* A cell of a slot is in use. *)
LEMMA OwnedIs ==
    ASSUME NEW x \in SrvType, NEW s \in Idx, NEW p \in 1 .. Len(x.kv[s])
    PROVE  x.kv[s][p] \in Range(x.kv[s]) /\ x.kv[s][p] \in Owned(x) /\ x.kv[s][p] \in CellIds
<1>1. x.kv[s] \in Seq(CellIds)
  BY DEF SrvType
<1>2. p \in DOMAIN x.kv[s] /\ x.kv[s][p] \in CellIds
  BY <1>1
<1>3. x.kv[s][p] \in Range(x.kv[s])
  BY Zenon, <1>2 DEF Range
<1> QED BY <1>2, <1>3 DEF Owned

(* What is known stays so, if it does for the place i. *)
LEMMA MidOn ==
    ASSUME NEW a, NEW b, NEW D, NEW E, NEW i \in Idx \ D, D \subseteq E, Sound(a.x), Mid(a, D), Beside(a.x, b.x, i),
           \A s \in Idx : Holds(b.x, flight, s)
                          \/ (b.x.slots[s].Inputs = a.x.slots[s].Inputs /\ b.x.kv[s] = a.x.kv[s]),
           Used(b.x, i) => Follows(srv.tok, flight, last, b.x.seqs[i], Who(b.x, i)) /\ Carries(b.x, i, b.ins),
           Range(a.ins) \subseteq Range(b.ins), Single(b.ins),
           \A e \in Range(b.ins) : e \in Range(a.ins) \/ Ours(b.x, E, e.cell)
    PROVE  Mid(b, E)
<1>1. a.x \in SrvType /\ b.x.tok = srv.tok
  BY Zenon DEF Sound, Mid, Beside
<1>2. ASSUME NEW s \in Idx  PROVE Holds(b.x, flight, s)
  <2>1. CASE b.x.slots[s].Inputs = a.x.slots[s].Inputs /\ b.x.kv[s] = a.x.kv[s]
    <3> SUFFICES ASSUME NEW p \in 1 .. Len(a.x.slots[s].Inputs)
                 PROVE  Backed(b.x.cell, b.x.tok, flight, a.x.slots[s].Inputs[p], a.x.kv[s][p])
      BY Zenon, <2>1 DEF Holds
    <3>1. Backed(a.x.cell, a.x.tok, flight, a.x.slots[s].Inputs[p], a.x.kv[s][p])
      BY Zenon, <1>2 DEF Mid, Holds
    <3>2. p \in 1 .. Len(a.x.kv[s])
      BY Zenon, <1>2, PlacesOf
    <3>3. b.x.cell[a.x.kv[s][p]] = a.x.cell[a.x.kv[s][p]]
      <4>1. a.x.kv[s][p] \in Owned(a.x)
        BY <1>1, <1>2, <3>2, OwnedIs
      <4> QED BY Zenon, <4>1 DEF Beside
    <3> QED BY Zenon, <3>1, <3>3 DEF Backed, Beside
  <2> QED BY Zenon, <1>2, <2>1
<1>3. ASSUME NEW j \in Idx, Used(b.x, j)
      PROVE  Follows(srv.tok, flight, last, b.x.seqs[j], Who(b.x, j)) /\ Carries(b.x, j, b.ins)
  <2>1. CASE j = i
    BY Zenon, <1>3, <2>1
  <2>2. CASE j # i
    <3>1. GoesOnAs(a.x, b.x, j) /\ b.x.kv[Who(a.x, j).slot] = a.x.kv[Who(a.x, j).slot] /\ Used(a.x, j)
      <4>1. j \in Idx \ {i}
        BY <1>3, <2>2
      <4> QED BY Zenon, <1>3, <4>1 DEF Beside, GoesOnAs
    <3>2. Follows(srv.tok, flight, last, a.x.seqs[j], Who(a.x, j)) /\ Carries(a.x, j, a.ins)
      BY Zenon, <1>3, <3>1 DEF Mid
    <3>3. Follows(srv.tok, flight, last, b.x.seqs[j], Who(b.x, j))
      BY Zenon, <3>1, <3>2 DEF Follows, GoesOnAs
    <3> DEFINE P == Who(a.x, j).pending
               K == a.x.kv[Who(a.x, j).slot]
               n == Len(Inp(a.x, j))
    <3>4. Who(a.x, j).slot \in Idx
      <4>1. a.x.seqs[j] \in Req
        BY <1>1, <1>3, <3>1 DEF SrvType, Used
      <4> QED BY <1>1, <4>1 DEF SrvType, SeqType, Who
    <3>5. \A p \in 1 .. Len(P) : b.x.cell[K[n + p]] = a.x.cell[K[n + p]]
      <4> SUFFICES ASSUME NEW p \in 1 .. Len(P)  PROVE b.x.cell[K[n + p]] = a.x.cell[K[n + p]]
        BY Zenon
      <4>1. n + p \in 1 .. Len(K)
        BY Zenon, <1>3, <3>1, PlacesOf
      <4>2. K[n + p] \in Owned(a.x)
        BY <1>1, <3>4, <4>1, OwnedIs
      <4> QED BY Zenon, <4>2 DEF Beside
    <3>6. Carried(a.x.cell, a.ins, P, K, n)
      BY Zenon, <3>2 DEF Carries
    <3>7. b.x.kv[Who(b.x, j).slot] = K /\ Who(b.x, j).pending = P /\ Len(Inp(b.x, j)) = n
      BY Zenon, <3>1 DEF GoesOnAs
    <3> HIDE DEF P, K, n
    <3>8. Carried(b.x.cell, b.ins, P, K, n)
      <4>1. \A e \in Range(a.ins) : e \in Range(b.ins)
        OBVIOUS
      <4> QED BY Zenon, <3>5, <3>6, <4>1 DEF Carried
    <3>9. Carries(b.x, j, b.ins)
      BY Zenon, <3>7, <3>8 DEF Carries
    <3> QED BY Zenon, <3>3, <3>9
  <2> QED BY Zenon, <2>1, <2>2
<1>4. ASSUME NEW e \in Range(b.ins)  PROVE Ours(b.x, E, e.cell)
  <2>1. CASE e \in Range(a.ins)
    <3>1. PICK j \in Idx \cap D : Used(a.x, j) /\ e.cell \in Range(a.x.kv[Who(a.x, j).slot])
      BY Zenon, <2>1 DEF Mid, Ours
    <3>2. j \in Idx \ {i} /\ j \in Idx \cap E
      BY <3>1
    <3>3. Used(b.x, j)
      BY Zenon, <3>1, <3>2 DEF Beside
    <3>4. GoesOnAs(a.x, b.x, j) /\ b.x.kv[Who(a.x, j).slot] = a.x.kv[Who(a.x, j).slot]
      BY Zenon, <3>2, <3>3 DEF Beside
    <3>5. b.x.kv[Who(b.x, j).slot] = a.x.kv[Who(a.x, j).slot]
      BY Zenon, <3>4 DEF GoesOnAs
    <3>6. e.cell \in Range(b.x.kv[Who(b.x, j).slot])
      BY ONLY <3>1, <3>5
    <3> QED BY Zenon, <3>2, <3>3, <3>6 DEF Ours
  <2> QED BY Zenon, <1>4, <2>1
<1> QED BY Zenon, <1>1, <1>2, <1>3, <1>4 DEF Mid

(* A sequence ends. *)
LEMMA DroppedMid ==
    ASSUME Ready, NEW a, NEW D, Going(a, D), Mid(a, D), NEW i \in Idx \ D, Used(a.x, i), NEW b \in Dropped(a, i)
    PROVE  Mid(b, D \cup {i})
<1>1. PICK y \in RemoveSequence(a.x, i) : b = [a EXCEPT !.x = y, !.seqs = [a.seqs EXCEPT ![i] = None]]
  BY Zenon DEF Dropped
<1>2. a \in AccType /\ Almost(a.x, i) /\ Sound(a.x) /\ a.x \in SrvType /\ i \in Idx
  BY ZenonT(40), WaitingIs DEF Going
<1>3. Ends(a.x, y) /\ ~Used(y, i)
  BY Zenon, <1>1, <1>2, RemoveEnds
<1>4. y.seqs = [a.x.seqs EXCEPT ![i] = None]
  BY Zenon, <1>1, <1>2, RemoveSound
<1>5. b.x = y /\ b.ins = a.ins
  BY <1>1, <1>2 DEF AccType
<1>6. \A j \in Idx \ {i} : Used(a.x, j) => Used(y, j)
  BY <1>2, <1>4 DEF Used, SrvType
<1>7. \A j \in Idx \ {i} : j \in Idx
  OBVIOUS
<1>8. Beside(a.x, y, i)
  BY Zenon, <1>3, <1>6, <1>7 DEF Beside, Ends
<1>9. \A s \in Idx : y.slots[s].Inputs = a.x.slots[s].Inputs /\ y.kv[s] = a.x.kv[s]
  BY Zenon, <1>3 DEF Ends
<1>10. Single(b.ins) /\ Range(a.ins) \subseteq Range(b.ins) /\ \A e \in Range(b.ins) : e \in Range(a.ins)
  BY <1>5 DEF Mid
<1>11. /\ D \subseteq D \cup {i} /\ Beside(a.x, b.x, i) /\ ~Used(b.x, i)
       /\ \A s \in Idx : b.x.slots[s].Inputs = a.x.slots[s].Inputs /\ b.x.kv[s] = a.x.kv[s]
  BY <1>3, <1>5, <1>8, <1>9
<1> QED BY ONLY <1>2, <1>10, <1>11, MidOn, Mid(a, D), i \in Idx \ D
\* y is x after the sequence at the place i has become t, with the inputs I
\* in the cells K of its slot.
Puts(x, y, i, t, I, K, c) ==
    /\ Beside(x, y, i) /\ Used(y, i) /\ Who(y, i) = t /\ y.seqs[i] = x.seqs[i] /\ t.slot = Who(x, i).slot
    /\ y.slots[t.slot].Inputs = I /\ y.kv[t.slot] = K /\ y.cell = c /\ y.tok = x.tok
    /\ \A s \in Idx \ {t.slot} : y.slots[s].Inputs = x.slots[s].Inputs /\ y.kv[s] = x.kv[s]

(* A step of the sequence at the place i is beside the others. *)
LEMMA BecomesBeside ==
    ASSUME Ready, NEW a, NEW b, NEW i \in Idx, NEW t, NEW I, NEW K, NEW c, Becomes(a, b, i, t, I, K, c),
           \A d \in Owned(a.x) : c[d] = a.x.cell[d]
    PROVE  Puts(a.x, b.x, i, t, I, K, c)
<1> DEFINE x == a.x
           y == b.x
           q == x.seqs[i]
           s == t.slot
<1>1. Updates(x, i, t, I, K, c, x.tok) /\ y = Updated(x, i, t, I, K, c, x.tok)
  BY Zenon DEF Becomes
<1>2. Almost(x, i) /\ Used(x, i) /\ t \in SeqType /\ s = Who(x, i).slot
  BY Zenon, <1>1 DEF Updates
<1>3. x \in SrvType /\ Placed(x) /\ q \in Req /\ s \in Idx
  <2>1. x \in SrvType /\ Placed(x)
    BY Zenon, <1>2 DEF Almost
  <2> QED BY <1>2, <2>1 DEF SrvType, SeqType, Used
<1> HIDE DEF x, y
<1>4. /\ y.seqs = x.seqs /\ Used(y, i) /\ Who(y, i) = t /\ Inp(y, i) = I /\ y.kv[s] = K
      /\ \A j \in Idx : Used(x, j) /\ j # i => Who(y, j) = Who(x, j)
  BY ONLY <1>1, Ready, i \in Idx, UpdateSound
<1>5. y.cell = c /\ y.tok = x.tok
  BY Zenon, <1>1, <1>3 DEF Updated, SrvType
<1>6. y.slots = [x.slots EXCEPT ![s] = [x.slots[s] EXCEPT !.Inputs = I]] /\ y.kv = [x.kv EXCEPT ![s] = K]
  BY Zenon, <1>1, <1>3 DEF Updated, SrvType
<1>7. \A u \in Idx \ {s} : y.slots[u] = x.slots[u] /\ y.kv[u] = x.kv[u]
  BY <1>3, <1>6 DEF SrvType
<1>8. y.slots[s].Inputs = I
  BY Zenon, <1>4 DEF Inp
<1>9. ASSUME NEW j \in Idx \ {i}, Used(y, j)
      PROVE  Used(x, j) /\ GoesOnAs(x, y, j) /\ y.kv[Who(x, j).slot] = x.kv[Who(x, j).slot]
  <2>1. Used(x, j) /\ y.seqs[j] = x.seqs[j] /\ Who(y, j) = Who(x, j)
    BY <1>4, <1>9 DEF Used
  <2>2. Who(x, j).slot # s
    BY <1>2, <1>3, <1>9, <2>1 DEF Placed, Slotted
  <2>3. Who(x, j).slot \in Idx
    BY <1>3, <1>9, <2>1 DEF SrvType, SeqType, Used, Who
  <2>4. Inp(y, j) = Inp(x, j)
    BY <1>7, <2>1, <2>2, <2>3 DEF Inp
  <2> QED BY <1>7, <2>1, <2>2, <2>3, <2>4 DEF GoesOnAs
<1>10. \A j \in Idx \ {i} : Used(x, j) => Used(y, j)
  BY <1>4 DEF Used
<1>11. Beside(x, y, i)
  BY Zenon, <1>5, <1>9, <1>10 DEF Beside, x
<1>12. \A u \in Idx \ {s} : y.slots[u].Inputs = x.slots[u].Inputs /\ y.kv[u] = x.kv[u]
  BY Zenon, <1>7
<1> QED BY Zenon, <1>2, <1>4, <1>5, <1>8, <1>11, <1>12 DEF x, y, Puts

(* The inputs left of a slot are those that were there. *)
LEMMA WithoutFrom ==
    ASSUME NEW S, NEW s \in Seq(S), NEW keep \in Nat, NEW discard \in Nat, keep + discard <= Len(s),
           NEW J, J = Without(s, keep, discard), NEW p \in 1 .. Len(J)
    PROVE  Origin(p, keep, discard) \in 1 .. Len(s) /\ J[p] = s[Origin(p, keep, discard)]
<1>1. Len(J) = Len(s) - discard /\ \A m \in 1 .. Len(s) - discard : J[m] = s[Origin(m, keep, discard)]
  <2>1. Len(Without(s, keep, discard)) = Len(s) - discard
        /\ \A m \in 1 .. Len(s) - discard : Without(s, keep, discard)[m] = s[Origin(m, keep, discard)]
    BY ONLY s \in Seq(S), keep \in Nat, discard \in Nat, keep + discard <= Len(s), WithoutIs
  <2> QED BY Zenon, <2>1
<1>2. p \in 1 .. Len(s) - discard /\ Len(s) \in Nat
  BY <1>1
<1>3. Origin(p, keep, discard) \in 1 .. Len(s)
  BY ONLY <1>2, keep \in Nat, discard \in Nat, keep + discard <= Len(s) DEF Origin
<1> QED BY Zenon, <1>1, <1>2, <1>3

(* What a slot has may be computed again. *)
LEMMA BackedDue ==
    ASSUME NEW c, NEW k, NEW f, NEW l, NEW e, NEW d, Backed(c, k, f, e, d)
    PROVE  Due(k, f, l, e)
BY Zenon DEF Backed, Due

(* Inputs one behind the other that are due *)
LEMMA AllDueJoin ==
    ASSUME NEW k, NEW f, NEW l, NEW S, NEW u \in Seq(S), NEW v \in Seq(S), AllDue(k, f, l, u), AllDue(k, f, l, v)
    PROVE  AllDue(k, f, l, u \o v)
<1>1. /\ Len(u \o v) = Len(u) + Len(v) /\ Len(u) \in Nat /\ Len(v) \in Nat
      /\ \A p \in 1 .. Len(u) + Len(v) : (u \o v)[p] = IF p <= Len(u) THEN u[p] ELSE v[p - Len(u)]
  BY JoinIs
<1>2. \A p \in 1 .. Len(u) + Len(v) : p \in 1 .. Len(u) \/ (~(p <= Len(u)) /\ p - Len(u) \in 1 .. Len(v))
  BY ONLY <1>1
<1>3. \A p \in 1 .. Len(u) : p <= Len(u) /\ p \in 1 .. Len(u) + Len(v)
  BY ONLY <1>1
<1> QED BY Zenon, <1>1, <1>2, <1>3 DEF AllDue
(* A sequence whose inputs are to be computed again *)
LEMMA ReprocessMid ==
    ASSUME Ready, NEW a, NEW D, Going(a, D), Mid(a, D), NEW i \in Idx \ D, Used(a.x, i), NEW r, r = Who(a.x, i),
           Len(a.x.slots[r.slot].Inputs) + 1 > NumCtx,
           NEW d, d = ShiftDiscard(a.x, r.slot, r.numKeep),
           NEW b, b = Reprocess(a, i, a.x.seqs[i], r.numKeep, d)
    PROVE  Mid(b, D \cup {i})
<1> DEFINE I == Inp(a.x, i)
           J == Without(I, r.numKeep, d)
           q == a.x.seqs[i]
<1>1. PICK t : /\ b.ins = a.ins /\ Becomes(a, b, i, t, << >>, << >>, a.x.cell) /\ t.numPredicted = r.numPredicted
               /\ t.inputs = J \o r.inputs /\ t.pending = << >>
  <2>1. Returns(a, b, i, r, J)
    BY Zenon, ReprocessGoes
  <2> QED BY Zenon, <2>1 DEF Returns
<1>2. r.slot \in Idx /\ I = a.x.slots[r.slot].Inputs /\ I \in Seq(InputSet) /\ r \in SeqType
  BY WaitingIs
<1>3. /\ r.numKeep \in Nat /\ d \in Nat /\ r.numKeep + d <= Len(I) /\ J \in Seq(InputSet)
  BY ShiftIs
<1>4. \A p \in 1 .. Len(J) : Origin(p, r.numKeep, d) \in 1 .. Len(I) /\ J[p] = I[Origin(p, r.numKeep, d)]
  <2> HIDE DEF I
  <2>1. J = Without(I, r.numKeep, d)
    OBVIOUS
  <2> HIDE DEF J
  <2>2. I \in Seq(InputSet)
    BY Zenon, <1>2
  <2> QED BY ONLY <2>2, <1>3, <2>1, WithoutFrom
<1> HIDE DEF J
<1>5. AllDue(srv.tok, flight, last, J)
  <2> SUFFICES ASSUME NEW p \in 1 .. Len(J)  PROVE Due(srv.tok, flight, last, J[p])
    BY Zenon DEF AllDue
  <2> DEFINE o == Origin(p, r.numKeep, d)
  <2>1. Backed(a.x.cell, srv.tok, flight, I[o], a.x.kv[r.slot][o])
    BY Zenon, <1>2, <1>4 DEF Mid, Holds
  <2>2. J[p] = I[o]
    BY Zenon, <1>4
  <2> QED BY Zenon, <2>1, <2>2, BackedDue
<1>6. Follows(srv.tok, flight, last, q, r)
  BY Zenon DEF Mid
<1>7. AllDue(srv.tok, flight, last, J \o r.inputs)
  <2>1. r.inputs \in Seq(InputSet)
    BY Zenon, <1>2 DEF SeqType
  <2> QED BY <1>3, <1>5, <1>6, <2>1, AllDueJoin DEF Follows
<1>8. Follows(srv.tok, flight, last, q, t)
  <2>1. AllDue(srv.tok, flight, last, << >>)
    BY DEF AllDue
  <2> QED BY Zenon, <1>1, <1>6, <1>7, <2>1 DEF Follows
<1>9. /\ Beside(a.x, b.x, i) /\ Used(b.x, i) /\ Who(b.x, i) = t /\ b.x.seqs[i] = q
      /\ t.slot = r.slot /\ b.x.slots[t.slot].Inputs = << >>
      /\ \A s \in Idx \ {t.slot} : b.x.slots[s].Inputs = a.x.slots[s].Inputs /\ b.x.kv[s] = a.x.kv[s]
  <2>1. \A e \in Owned(a.x) : a.x.cell[e] = a.x.cell[e]
    OBVIOUS
  <2>2. Ready /\ i \in Idx
    OBVIOUS
  <2> DEFINE e == << >>
  <2>3. Becomes(a, b, i, t, e, e, a.x.cell)
    BY Zenon, <1>1
  <2> HIDE DEF e
  <2>4. Puts(a.x, b.x, i, t, e, e, a.x.cell)
    BY ONLY <2>1, <2>2, <2>3, BecomesBeside
  <2> QED BY Zenon, <2>4 DEF Puts, e
<1>10. Carries(b.x, i, b.ins)
  <2>1. \A p \in 1 .. Len(<< >>) : FALSE
    OBVIOUS
  <2>2. Who(b.x, i).pending = << >>
    BY Zenon, <1>1, <1>9
  <2> QED BY Zenon, <2>1, <2>2 DEF Carries, Carried
<1>11. Holds(b.x, flight, r.slot)
  <2>1. \A p \in 1 .. Len(<< >>) : FALSE
    OBVIOUS
  <2> QED BY Zenon, <1>9, <2>1 DEF Holds
<1>12. \A s \in Idx : Holds(b.x, flight, s)
                      \/ (b.x.slots[s].Inputs = a.x.slots[s].Inputs /\ b.x.kv[s] = a.x.kv[s])
  <2> SUFFICES ASSUME NEW s \in Idx, s # r.slot
               PROVE  b.x.slots[s].Inputs = a.x.slots[s].Inputs /\ b.x.kv[s] = a.x.kv[s]
    BY Zenon, <1>11
  <2>1. s \in Idx \ {t.slot}
    BY ONLY <1>9, s \in Idx, s # r.slot
  <2> QED BY Zenon, <1>9, <2>1
<1>13. Follows(srv.tok, flight, last, b.x.seqs[i], Who(b.x, i))
  BY Zenon, <1>8, <1>9
<1>14. Range(a.ins) \subseteq Range(b.ins) /\ Single(b.ins) /\ \A e \in Range(b.ins) : e \in Range(a.ins)
  BY <1>1 DEF Mid
<1>15. D \subseteq D \cup {i} /\ Sound(a.x)
  BY DEF Going
<1> QED BY ONLY <1>9, <1>10, <1>12, <1>13, <1>14, <1>15, MidOn, Mid(a, D), i \in Idx \ D

(* A shift *)
LEMMA ShiftedMid ==
    ASSUME Ready, NEW a, NEW D, Going(a, D), Mid(a, D), NEW i \in Idx \ D, Used(a.x, i), NEW r, r = Who(a.x, i),
           Len(a.x.slots[r.slot].Inputs) + 1 > NumCtx,
           NEW d, d = ShiftDiscard(a.x, r.slot, r.numKeep),
           NEW b, b = Shifted(a, r.slot, r.numKeep, d)
    PROVE  Mid(b, D)
<1> DEFINE I == Inp(a.x, i)
           V == a.x.kv[r.slot]
           J == Without(I, r.numKeep, d)
           K == Without(V, r.numKeep, d)
           q == a.x.seqs[i]
<1>1. b.ins = a.ins /\ Becomes(a, b, i, r, J, K, a.x.cell)
  BY ShiftedGoes
<1>2. /\ r.slot \in Idx /\ I = a.x.slots[r.slot].Inputs /\ I \in Seq(InputSet) /\ V \in Seq(CellIds)
      /\ Len(V) = Len(I) /\ r.pending = << >>
  BY WaitingIs
<1>3. /\ r.numKeep \in Nat /\ d \in Nat /\ r.numKeep + d <= Len(I)
  BY ShiftIs
<1>4. \A p \in 1 .. Len(J) : /\ Origin(p, r.numKeep, d) \in 1 .. Len(I) /\ J[p] = I[Origin(p, r.numKeep, d)]
                             /\ K[p] = V[Origin(p, r.numKeep, d)]
  <2> HIDE DEF I, V
  <2>1. J = Without(I, r.numKeep, d) /\ K = Without(V, r.numKeep, d)
    OBVIOUS
  <2>2. Len(J) = Len(I) - d /\ Len(K) = Len(V) - d
    <3>1. I \in Seq(InputSet) /\ V \in Seq(CellIds) /\ Len(V) = Len(I)
      BY Zenon, <1>2
    <3>2. r.numKeep + d <= Len(V)
      BY Zenon, <1>3, <3>1
    <3>3. Len(Without(I, r.numKeep, d)) = Len(I) - d
      BY ONLY ZenonT(40), <3>1, <1>3, WithoutIs
    <3>4. Len(Without(V, r.numKeep, d)) = Len(V) - d
      BY ONLY Zenon, <3>1, <1>3, <3>2, WithoutIs
    <3> QED BY Zenon, <3>3, <3>4
  <2> HIDE DEF J, K
  <2>3. \A p \in 1 .. Len(J) : Origin(p, r.numKeep, d) \in 1 .. Len(I) /\ J[p] = I[Origin(p, r.numKeep, d)]
    <3>1. I \in Seq(InputSet)
      BY Zenon, <1>2
    <3> QED BY ONLY <3>1, <1>3, <2>1, WithoutFrom
  <2>4. \A p \in 1 .. Len(K) : K[p] = V[Origin(p, r.numKeep, d)]
    <3>1. r.numKeep + d <= Len(V)
      BY <1>2, <1>3
    <3>2. V \in Seq(CellIds)
      BY Zenon, <1>2
    <3> QED BY ONLY <3>2, <1>3, <2>1, <3>1, WithoutFrom
  <2>5. Len(J) = Len(K)
    BY Zenon, <1>2, <2>2
  <2> QED BY Zenon, <2>3, <2>4, <2>5
<1> HIDE DEF J, K
<1>5. /\ Beside(a.x, b.x, i) /\ Used(b.x, i) /\ Who(b.x, i) = r /\ b.x.seqs[i] = q
      /\ b.x.kv[r.slot] = K /\ b.x.cell = a.x.cell /\ b.x.tok = a.x.tok /\ b.x.slots[r.slot].Inputs = J
      /\ \A s \in Idx \ {r.slot} : b.x.slots[s].Inputs = a.x.slots[s].Inputs /\ b.x.kv[s] = a.x.kv[s]
  <2>1. \A e \in Owned(a.x) : a.x.cell[e] = a.x.cell[e]
    OBVIOUS
  <2>2. Ready /\ i \in Idx
    OBVIOUS
  <2>3. Puts(a.x, b.x, i, r, J, K, a.x.cell)
    BY ONLY <1>1, <2>1, <2>2, BecomesBeside
  <2> QED BY Zenon, <2>3 DEF Puts
<1>6. Holds(b.x, flight, r.slot)
  <2> SUFFICES ASSUME NEW p \in 1 .. Len(b.x.slots[r.slot].Inputs)
               PROVE  Backed(b.x.cell, b.x.tok, flight, b.x.slots[r.slot].Inputs[p], b.x.kv[r.slot][p])
    BY Zenon DEF Holds
  <2>3. p \in 1 .. Len(J)
    BY Zenon, <1>5
  <2> DEFINE o == Origin(p, r.numKeep, d)
  <2>1. Backed(a.x.cell, a.x.tok, flight, I[o], V[o])
    BY Zenon, <1>2, <1>4, <2>3 DEF Mid, Holds
  <2>2. J[p] = I[o] /\ K[p] = V[o]
    BY Zenon, <1>4, <2>3
  <2> QED BY Zenon, <1>5, <2>1, <2>2
<1>7. Carries(b.x, i, b.ins)
  <2>1. \A p \in 1 .. Len(<< >>) : FALSE
    OBVIOUS
  <2>2. Who(b.x, i).pending = << >>
    BY Zenon, <1>2, <1>5
  <2> QED BY Zenon, <2>1, <2>2 DEF Carries, Carried
<1>8. Follows(srv.tok, flight, last, b.x.seqs[i], Who(b.x, i))
  BY Zenon, <1>5 DEF Mid
<1>9. \A s \in Idx : Holds(b.x, flight, s)
                     \/ (b.x.slots[s].Inputs = a.x.slots[s].Inputs /\ b.x.kv[s] = a.x.kv[s])
  <2> SUFFICES ASSUME NEW s \in Idx, s # r.slot
               PROVE  b.x.slots[s].Inputs = a.x.slots[s].Inputs /\ b.x.kv[s] = a.x.kv[s]
    BY Zenon, <1>6
  <2>1. s \in Idx \ {r.slot}
    BY ONLY s \in Idx, s # r.slot
  <2> QED BY Zenon, <1>5, <2>1
<1>10. Range(a.ins) \subseteq Range(b.ins) /\ Single(b.ins) /\ \A e \in Range(b.ins) : e \in Range(a.ins)
  BY <1>1 DEF Mid
<1>11. D \subseteq D /\ Sound(a.x)
  BY DEF Going
<1> QED BY ONLY <1>5, <1>7, <1>8, <1>9, <1>10, <1>11, MidOn, Mid(a, D), i \in Idx \ D
(* A part of inputs that are due *)
LEMMA AllDuePart ==
    ASSUME NEW k, NEW f, NEW l, NEW S, NEW u \in Seq(S), AllDue(k, f, l, u),
           NEW m \in 1 .. Len(u) + 1, NEW n \in 0 .. Len(u), m <= n + 1
    PROVE  AllDue(k, f, l, SubSeq(u, m, n))
<1>1. Len(SubSeq(u, m, n)) = n - m + 1 /\ \A p \in 1 .. n - m + 1 : SubSeq(u, m, n)[p] = u[m + p - 1]
  BY PartIs
<1>2. Len(u) \in Nat
  OBVIOUS
<1>3. \A p \in 1 .. n - m + 1 : m + p - 1 \in 1 .. Len(u)
  BY ONLY <1>2, m \in 1 .. Len(u) + 1, n \in 0 .. Len(u), m <= n + 1
<1> QED BY Zenon, <1>1, <1>3 DEF AllDue

(* The elements of two sequences, one behind the other *)
LEMMA RangeJoin ==
    ASSUME NEW S, NEW v \in Seq(S), NEW w \in Seq(S)
    PROVE  /\ \A e \in Range(v) : e \in Range(v \o w)
           /\ \A e \in Range(w) : e \in Range(v \o w)
           /\ \A e \in Range(v \o w) : e \in Range(v) \/ e \in Range(w)
<1> DEFINE z == v \o w
           m == Len(v)
           n == Len(w)
<1>1. /\ z \in Seq(S) /\ Len(z) = m + n /\ m \in Nat /\ n \in Nat
      /\ \A p \in 1 .. m + n : z[p] = IF p <= m THEN v[p] ELSE w[p - m]
  BY JoinIs
<1>2. \A u \in Seq(S) : \A e : e \in Range(u) <=> \E p \in 1 .. Len(u) : u[p] = e
  BY DEF Range
<1>3. \A e : /\ e \in Range(v) <=> \E p \in 1 .. m : v[p] = e
             /\ e \in Range(w) <=> \E p \in 1 .. n : w[p] = e
             /\ e \in Range(z) <=> \E p \in 1 .. m + n : z[p] = e
  <2>1. z \in Seq(S) /\ Len(z) = m + n
    BY <1>1
  <2> HIDE DEF z
  <2> QED BY Zenon, <1>2, <2>1
<1> HIDE DEF z, m, n
<1>4. \A p \in 1 .. m : p \in 1 .. m + n /\ z[p] = v[p]
  BY ONLY <1>1
<1>5. \A p \in 1 .. n : m + p \in 1 .. m + n /\ z[m + p] = w[p]
  BY ONLY <1>1
<1>6. \A p \in 1 .. m + n : (p \in 1 .. m /\ z[p] = v[p]) \/ (p - m \in 1 .. n /\ z[p] = w[p - m])
  BY ONLY <1>1
<1>7. /\ \A e \in Range(v) : e \in Range(z)
      /\ \A e \in Range(w) : e \in Range(z)
      /\ \A e \in Range(z) : e \in Range(v) \/ e \in Range(w)
  BY Zenon, <1>3, <1>4, <1>5, <1>6
<1> QED BY Zenon, <1>7 DEF z

\* The entry of the batch for the p-th input of r
Added(r, new, p) == [inp |-> r.inputs[p], cell |-> new[p]]

(* The entries of a batch to which inputs were added *)
LEMMA NewInsHas ==
    ASSUME NEW a, a \in AccType, NEW r, r \in SeqType, NEW new, new \in Seq(CellIds),
           NEW take \in Nat, take = Len(new), take <= Len(r.inputs), NEW N, N = NewIns(a, r, new)
    PROVE  /\ \A e \in Range(a.ins) : e \in Range(N)
           /\ \A p \in 1 .. take : Added(r, new, p) \in Range(N)
           /\ \A e \in Range(N) : e \in Range(a.ins) \/ \E p \in 1 .. take : e = Added(r, new, p)
<1> DEFINE A == [p \in 1 .. take |-> Added(r, new, p)]
           S == Entry \cup {Added(r, new, p) : p \in 1 .. take}
<1>1. N = a.ins \o A
  BY DEF NewIns, Added
<1>2. A \in [1 .. take -> S] /\ \A p \in 1 .. take : A[p] = Added(r, new, p)
  OBVIOUS
<1>3. a.ins \in Seq(Entry)
  BY DEF AccType
<1>4. a.ins \in Seq(S)
  <2>1. Entry \subseteq S
    OBVIOUS
  <2> HIDE DEF S
  <2>2. \A v \in Seq(Entry) : v \in Seq(S)
    BY <2>1
  <2> QED BY <1>3, <2>2
<1> HIDE DEF A, S
<1>5. A \in Seq(S) /\ Len(A) = take
  BY <1>2
<1>6. /\ \A e \in Range(a.ins) : e \in Range(a.ins \o A)
      /\ \A e \in Range(A) : e \in Range(a.ins \o A)
      /\ \A e \in Range(a.ins \o A) : e \in Range(a.ins) \/ e \in Range(A)
  BY ONLY <1>4, <1>5, RangeJoin
<1>7. \A e : e \in Range(A) <=> \E p \in 1 .. take : A[p] = e
  BY <1>2 DEF Range
<1>8. \A p \in 1 .. take : Added(r, new, p) \in Range(A)
  BY Zenon, <1>2, <1>7
<1>9. \A e \in Range(A) : \E p \in 1 .. take : e = Added(r, new, p)
  <2> SUFFICES ASSUME NEW e \in Range(A)  PROVE \E p \in 1 .. take : e = Added(r, new, p)
    BY Zenon
  <2>1. PICK p \in 1 .. take : A[p] = e
    BY Zenon, <1>7
  <2>2. e = Added(r, new, p)
    BY Zenon, <1>2, <2>1
  <2> QED BY Zenon, <2>2
<1>10. /\ \A e \in Range(a.ins) : e \in Range(N)
       /\ \A e \in Range(A) : e \in Range(N)
       /\ \A e \in Range(N) : e \in Range(a.ins) \/ e \in Range(A)
  BY <1>1, <1>6
<1> QED BY Zenon, <1>8, <1>9, <1>10
(* The cells after inputs were added to a batch *)
LEMMA NewCellsAre ==
    ASSUME NEW x \in SrvType, NEW new \in Seq(CellIds), NEW take \in Nat, take = Len(new), Unowned(x, new, take),
           NEW C, C = NewCells(x, new)
    PROVE  (\A d \in Owned(x) : C[d] = x.cell[d]) /\ \A p \in 1 .. take : C[new[p]] = Pending
<1>1. \A d : d \in Range(new) <=> \E p \in 1 .. take : new[p] = d
  BY DEF Range
<1>2. \A p \in 1 .. take : new[p] \in CellIds
  OBVIOUS
<1>3. \A d \in CellIds : C[d] = IF d \in Range(new) THEN Pending ELSE x.cell[d]
  BY DEF NewCells
<1>4. \A d \in Owned(x) : d \in CellIds
  <2> SUFFICES ASSUME NEW t \in Idx, NEW d \in Range(x.kv[t])  PROVE d \in CellIds
    BY DEF Owned
  <2>1. x.kv[t] \in Seq(CellIds)
    BY DEF SrvType
  <2> QED BY <2>1, RangeIs
<1>5. \A d \in Owned(x) : d \notin Range(new)
  BY Zenon, <1>1 DEF Unowned
<1> QED BY Zenon, <1>1, <1>2, <1>3, <1>4, <1>5

(* The batch has a cell for each input, also for those added. *)
LEMMA NewInsSingle ==
    ASSUME NEW a, a \in AccType, Single(a.ins), \A e \in Range(a.ins) : e.cell \in Owned(a.x),
           NEW r, r \in SeqType, NEW new, new \in Seq(CellIds),
           NEW take \in Nat, take = Len(new), take <= Len(r.inputs), NEW N, N = NewIns(a, r, new), Unowned(a.x, new, take)
    PROVE  Single(N)
<1>1. \A e \in Range(N) : e \in Range(a.ins) \/ \E p \in 1 .. take : e = Added(r, new, p)
  BY ONLY a \in AccType, r \in SeqType, new \in Seq(CellIds), take \in Nat, take = Len(new), take <= Len(r.inputs),
          N = NewIns(a, r, new), NewInsHas
<1>2. \A p : Added(r, new, p).cell = new[p]
  BY DEF Added
<1> SUFFICES ASSUME NEW d \in Range(N), NEW e \in Range(N), d.cell = e.cell  PROVE d = e
  BY Zenon DEF Single
<1>3. CASE d \in Range(a.ins) /\ e \in Range(a.ins)
  BY Zenon, <1>3 DEF Single
<1>4. CASE d \in Range(a.ins) /\ \E p \in 1 .. take : e = Added(r, new, p)
  BY Zenon, <1>2, <1>4 DEF Unowned
<1>5. CASE e \in Range(a.ins) /\ \E p \in 1 .. take : d = Added(r, new, p)
  BY Zenon, <1>2, <1>5 DEF Unowned
<1>6. CASE (\E p \in 1 .. take : d = Added(r, new, p)) /\ \E p \in 1 .. take : e = Added(r, new, p)
  <2>1. PICK p \in 1 .. take : d = Added(r, new, p)
    BY Zenon, <1>6
  <2>2. PICK j \in 1 .. take : e = Added(r, new, j)
    BY Zenon, <1>6
  <2>3. new[p] = new[j]
    BY Zenon, <1>2, <2>1, <2>2
  <2>4. p = j
    BY Zenon, <2>3 DEF Unowned
  <2> QED BY Zenon, <2>1, <2>2, <2>4
<1> QED BY Zenon, <1>1, <1>3, <1>4, <1>5, <1>6

(* The inputs of a sequence that fit are added to the batch. *)
LEMMA FillMid ==
    ASSUME Ready, NEW a, NEW D, Going(a, D), Mid(a, D), NEW i \in Idx \ D, Used(a.x, i), NEW r, r = Who(a.x, i),
           NEW b, b = Fill(a, i, a.x.seqs[i], Fresh(a, r))
    PROVE  Mid(b, D \cup {i})
<1> DEFINE new == Fresh(a, r)
           I == Inp(a.x, i)
           V == a.x.kv[r.slot]
           K == V \o new
           C == NewCells(a.x, new)
           q == a.x.seqs[i]
           n == Len(I)
           m == Len(r.inputs)
           P == SubSeq(r.inputs, 1, Len(new))
<1>1. Fills(a, b, i, r, new)
  BY Zenon, FillGoes
<1>a. PICK t : \E take \in 0 .. m :
         /\ Becomes(a, b, i, t, I, K, C)
         /\ TakesFrom(a, r, m, take, t) /\ Len(new) = take /\ Unowned(a.x, new, take)
  BY Zenon, <1>1 DEF Fills
<1>2. PICK take \in 0 .. m :
         /\ Becomes(a, b, i, t, I, K, C)
         /\ TakesFrom(a, r, m, take, t) /\ Len(new) = take /\ Unowned(a.x, new, take)
  BY Zenon, <1>a
<1>3. b.ins = NewIns(a, r, new) /\ new \in Seq(CellIds)
  BY Zenon, <1>1 DEF Fills
<1>4. /\ a \in AccType /\ a.x \in SrvType /\ r \in SeqType /\ r.slot \in Idx /\ I = a.x.slots[r.slot].Inputs
      /\ I \in Seq(InputSet) /\ V \in Seq(CellIds) /\ Len(V) = Len(I)
  BY WaitingIs
<1>5. r.inputs \in Seq(InputSet) /\ Sound(a.x)
  BY <1>4 DEF SeqType, Going
<1> HIDE DEF new, I, V
<1>6. m \in Nat /\ n \in Nat /\ take \in Nat /\ take <= m /\ take = Len(new)
  BY <1>2, <1>4, <1>5
<1> HIDE DEF C, m, n
<1>7. (\A d \in Owned(a.x) : C[d] = a.x.cell[d]) /\ \A p \in 1 .. take : C[new[p]] = Pending
  <2>1. C = NewCells(a.x, new)
    BY DEF C
  <2> QED BY ONLY SMTT(30), <1>2, <1>3, <1>4, <1>6, <2>1, NewCellsAre
<1>8. /\ K \in Seq(CellIds) /\ Len(K) = n + take
      /\ \A p \in 1 .. n + take : K[p] = IF p <= n THEN V[p] ELSE new[p - n]
  <2>1. /\ V \o new \in Seq(CellIds) /\ Len(V \o new) = Len(V) + Len(new)
        /\ \A p \in 1 .. Len(V) + Len(new) : (V \o new)[p] = IF p <= Len(V) THEN V[p] ELSE new[p - Len(V)]
    <3>1. V \in Seq(CellIds) /\ new \in Seq(CellIds)
      BY Zenon, <1>3, <1>4
    <3> QED BY ONLY <3>1, JoinIs
  <2>2. Len(V) = n /\ Len(new) = take
    BY <1>4, <1>6 DEF n
  <2> QED BY <2>1, <2>2
<1> HIDE DEF K
<1>9. Puts(a.x, b.x, i, t, I, K, C)
  BY ONLY <1>2, <1>7, Ready, i \in Idx \ D, BecomesBeside
<1>10. /\ Beside(a.x, b.x, i) /\ Used(b.x, i) /\ Who(b.x, i) = t /\ b.x.seqs[i] = q /\ t.slot = r.slot
       /\ b.x.slots[r.slot].Inputs = I /\ b.x.kv[r.slot] = K /\ b.x.cell = C /\ b.x.tok = a.x.tok
       /\ \A s \in Idx \ {r.slot} : b.x.slots[s].Inputs = a.x.slots[s].Inputs /\ b.x.kv[s] = a.x.kv[s]
  BY Zenon, <1>9 DEF Puts
<1>11. \A p \in 1 .. n : p \in 1 .. n + take /\ K[p] = V[p]
  BY ONLY <1>6, <1>8
<1>12. \A p \in 1 .. take : n + p \in 1 .. n + take /\ K[n + p] = new[p]
  BY ONLY <1>6, <1>8
<1>13. Holds(b.x, flight, r.slot)
  <2> SUFFICES ASSUME NEW p \in 1 .. n
               PROVE  Backed(C, b.x.tok, flight, I[p], K[p])
    <3>1. \A p \in 1 .. Len(I) : p \in 1 .. n
      BY DEF n
    <3> QED BY Zenon, <1>10, <3>1 DEF Holds
  <2>1. Backed(a.x.cell, a.x.tok, flight, I[p], V[p])
    <3>1. p \in 1 .. Len(a.x.slots[r.slot].Inputs)
      BY Zenon, <1>4 DEF n
    <3> QED BY Zenon, <1>4, <3>1 DEF Mid, Holds, V
  <2>2. p \in 1 .. Len(a.x.kv[r.slot])
    BY Zenon, <1>4 DEF n, V
  <2>3. V[p] \in Owned(a.x)
    BY <1>4, <2>2, OwnedIs DEF V
  <2>4. C[K[p]] = a.x.cell[V[p]]
    BY Zenon, <1>7, <1>11, <2>3
  <2> QED BY Zenon, <1>10, <1>11, <2>1, <2>4 DEF Backed
<1>14. \A s \in Idx : Holds(b.x, flight, s)
                      \/ (b.x.slots[s].Inputs = a.x.slots[s].Inputs /\ b.x.kv[s] = a.x.kv[s])
  <2> SUFFICES ASSUME NEW s \in Idx, s # r.slot
               PROVE  b.x.slots[s].Inputs = a.x.slots[s].Inputs /\ b.x.kv[s] = a.x.kv[s]
    BY Zenon, <1>13
  <2>1. s \in Idx \ {r.slot}
    BY ONLY s \in Idx, s # r.slot
  <2> QED BY Zenon, <1>10, <2>1
<1>15. t.pending = SubSeq(r.inputs, 1, take) /\ t.inputs = SubSeq(r.inputs, take + 1, m) /\ Len(t.pending) = take
       /\ t.numPredicted = r.numPredicted
  BY Zenon, <1>2 DEF TakesFrom
<1>16. Follows(srv.tok, flight, last, b.x.seqs[i], Who(b.x, i))
  <2>1. Follows(srv.tok, flight, last, q, r)
    BY Zenon DEF Mid
  <2>2. AllDue(srv.tok, flight, last, r.inputs)
    BY Zenon, <2>1 DEF Follows
  <2>3. /\ 1 \in 1 .. Len(r.inputs) + 1 /\ take \in 0 .. Len(r.inputs) /\ 1 <= take + 1
        /\ take + 1 \in 1 .. Len(r.inputs) + 1 /\ m \in 0 .. Len(r.inputs) /\ take + 1 <= m + 1
    <3>1. m = Len(r.inputs)
      BY DEF m
    <3> QED BY ONLY <1>6, <3>1
  <2>4. AllDue(srv.tok, flight, last, SubSeq(r.inputs, 1, take))
    BY ONLY <1>5, <2>2, <2>3, AllDuePart
  <2>5. AllDue(srv.tok, flight, last, SubSeq(r.inputs, take + 1, m))
    BY ONLY <1>5, <2>2, <2>3, AllDuePart
  <2> QED BY Zenon, <1>10, <1>15, <2>1, <2>4, <2>5 DEF Follows
<1>17. /\ \A e \in Range(a.ins) : e \in Range(b.ins)
       /\ \A p \in 1 .. take : Added(r, new, p) \in Range(b.ins)
       /\ \A e \in Range(b.ins) : e \in Range(a.ins) \/ \E p \in 1 .. take : e = Added(r, new, p)
  <2>1. take <= Len(r.inputs)
    BY <1>6 DEF m
  <2> QED BY ONLY <1>3, <1>4, <1>6, <2>1, NewInsHas
<1>18. Carries(b.x, i, b.ins)
  <2>1. \A p \in 1 .. take : t.pending[p] = r.inputs[p]
    <3>1. \A S : \A u \in Seq(S) : \A j \in 0 .. Len(u) : \A p \in 1 .. j : SubSeq(u, 1, j)[p] = u[p]
      OBVIOUS
    <3>2. take \in 0 .. Len(r.inputs)
      BY Zenon, <1>2 DEF m
    <3>3. r.inputs \in Seq(InputSet)
      BY Zenon, <1>5
    <3>4. \A p \in 1 .. take : SubSeq(r.inputs, 1, take)[p] = r.inputs[p]
      BY ONLY Zenon, <3>1, <3>2, <3>3
    <3>5. t.pending = SubSeq(r.inputs, 1, take)
      BY Zenon, <1>15
    <3> QED BY ONLY Zenon, <3>4, <3>5
  <2>2. ASSUME NEW p \in 1 .. take
        PROVE  C[K[n + p]] = Pending /\ At(t.pending, K, n, p) \in Range(b.ins)
    <3>1. At(t.pending, K, n, p) = Added(r, new, p)
      BY <1>12, <2>1, <2>2 DEF At, Added
    <3> QED BY Zenon, <1>7, <1>12, <1>17, <2>2, <3>1
  <2>3. Carried(C, b.ins, t.pending, K, n)
    BY Zenon, <1>15, <2>2 DEF Carried
  <2>4. Inp(b.x, i) = I
    BY Zenon, <1>10 DEF Inp
  <2> QED BY Zenon, <1>10, <2>3, <2>4 DEF Carries, n
<1>19. Single(b.ins)
  <2>1. \A e \in Range(a.ins) : e.cell \in Owned(a.x)
    <3> SUFFICES ASSUME NEW e \in Range(a.ins)  PROVE e.cell \in Owned(a.x)
      OBVIOUS
    <3>1. PICK j \in Idx \cap D : Used(a.x, j) /\ e.cell \in Range(a.x.kv[Who(a.x, j).slot])
      BY Zenon DEF Mid, Ours
    <3>2. Who(a.x, j).slot \in Idx
      BY Zenon, <1>4, <3>1 DEF SrvType, SeqType, Used, Who
    <3> QED BY <3>1, <3>2 DEF Owned
  <2>2. Single(a.ins) /\ take <= Len(r.inputs)
    BY Zenon, <1>6 DEF Mid, m
  <2> QED BY ONLY <1>2, <1>3, <1>4, <1>6, <2>1, <2>2, NewInsSingle
<1>20. \A e \in Range(b.ins) : e \in Range(a.ins) \/ Ours(b.x, D \cup {i}, e.cell)
  <2> SUFFICES ASSUME NEW p \in 1 .. take  PROVE Ours(b.x, D \cup {i}, new[p])
    <3>1. \A p : Added(r, new, p).cell = new[p]
      BY DEF Added
    <3> QED BY Zenon, <1>17, <3>1
  <2>1. new[p] \in Range(K)
    BY <1>8, <1>12 DEF Range
  <2>2. i \in Idx \cap (D \cup {i})
    OBVIOUS
  <2> QED BY Zenon, <1>10, <2>1, <2>2 DEF Ours
<1>21. D \subseteq D \cup {i} /\ Range(a.ins) \subseteq Range(b.ins)
  BY <1>17
<1> QED BY ONLY <1>5, <1>10, <1>14, <1>16, <1>18, <1>19, <1>20, <1>21, MidOn, Mid(a, D), i \in Idx \ D
(* One place in forwardBatch *)
LEMMA ForwardSeqMid ==
    ASSUME Ready, NEW a, NEW D, Going(a, D), Mid(a, D), NEW i \in Idx \ D, NEW b \in ForwardSeq(a, i)
    PROVE  Mid(b, D \cup {i})
<1> DEFINE q == a.x.seqs[i]
           r == a.x.seq[q]
           full == Len(a.ins) < BatchSize /\ Len(a.x.slots[r.slot].Inputs) + 1 > NumCtx
           d == ShiftDiscard(a.x, r.slot, r.numKeep)
<1>1. CASE q = None
  <2>1. b = a
    BY <1>1 DEF ForwardSeq
  <2>2. \A e : Ours(a.x, D, e) => Ours(a.x, D \cup {i}, e)
    BY DEF Ours
  <2> QED BY Zenon, <2>1, <2>2 DEF Mid
<1>2. CASE q # None
  <2>1. Used(a.x, i) /\ r = Who(a.x, i)
    BY <1>2 DEF Used, Who
  <2>2. CASE PastLimit(r) \/ (full /\ ~r.shift)
    <3>1. b \in Dropped(a, i)
      BY Zenon, <1>2, <2>2 DEF ForwardSeq
    <3> QED BY Zenon, <2>1, <3>1, DroppedMid
  <2>3. CASE ~(PastLimit(r) \/ (full /\ ~r.shift)) /\ full /\ ~CanShift(a.x, r.slot, r.numKeep, d)
    <3>1. b = Reprocess(a, i, q, r.numKeep, d)
      BY Zenon, <1>2, <2>3 DEF ForwardSeq
    <3> QED BY Zenon, <2>1, <2>3, <3>1, ReprocessMid
  <2>4. CASE ~(PastLimit(r) \/ (full /\ ~r.shift)) /\ ~(full /\ ~CanShift(a.x, r.slot, r.numKeep, d))
    <3> DEFINE c == IF full THEN Shifted(a, r.slot, r.numKeep, d) ELSE a
    <3>1. b = Fill(c, i, q, Fresh(c, r))
      BY Zenon, <1>2, <2>4 DEF ForwardSeq
    <3>2. Going(c, D) /\ Mid(c, D) /\ Used(c.x, i) /\ Who(c.x, i) = r /\ c.x.seqs[i] = q
      <4>1. CASE full
        <5>1. Going(Shifted(a, r.slot, r.numKeep, d), D) /\ Used(Shifted(a, r.slot, r.numKeep, d).x, i)
              /\ Who(Shifted(a, r.slot, r.numKeep, d).x, i) = r /\ Shifted(a, r.slot, r.numKeep, d).x.seqs = a.x.seqs
          BY <2>1, <4>1, ShiftedGoes
        <5>2. Mid(Shifted(a, r.slot, r.numKeep, d), D)
          BY Zenon, <2>1, <4>1, ShiftedMid
        <5> QED BY Zenon, <4>1, <5>1, <5>2
      <4>2. CASE ~full
        BY <2>1, <4>2
      <4> QED BY Zenon, <4>1, <4>2
    <3> HIDE DEF c, r, q
    <3> QED BY <3>1, <3>2, FillMid
  <2> QED BY Zenon, <2>2, <2>3, <2>4
<1> QED BY <1>1, <1>2

(* The loop of forwardBatch over the places *)
LEMMA ForwardMid ==
    ASSUME Ready, Going(Start, {}), Mid(Start, {}), NEW a \in FoldLeft(ForwardOne, {Start}, Order)
    PROVE  Mid(a, Idx)
<1> DEFINE D(j) == {Order[m] : m \in 1 .. j}
           J == [j \in 0 .. Parallel |-> SUBSET {c \in AccType : Going(c, D(j)) /\ Mid(c, D(j))}]
           n == Parallel
<1>0. Start.x = srv
  BY DEF Start
<1>1. srv.nextSeq \in Idx
  BY <1>0 DEF Going, Sound, SrvType
<1>2. /\ n \in Nat /\ DOMAIN Order = 1 .. n /\ \A j \in 1 .. n : Order[j] \in Idx
      /\ \A j, k \in 1 .. n : Order[j] = Order[k] => j = k
  BY <1>1, OrderIs, Numbers
<1>3. {Start} \in J[0]
  <2>1. D(0) = {} /\ 0 \in 0 .. n
    BY <1>2
  <2>2. Start \in AccType
    BY DEF Going
  <2> HIDE DEF D
  <2> QED BY <2>1, <2>2
<1>4. ASSUME NEW j \in 1 .. n, NEW A \in J[j - 1] PROVE FwdOp(0, Order[j], A) \in J[j]
  <2>1. j - 1 \in 0 .. n /\ j \in 0 .. n
    BY <1>2
  <2>2. \A c \in A : Going(c, D(j - 1)) /\ Mid(c, D(j - 1))
    BY <1>4, <2>1
  <2>3. Order[j] \in Idx \ D(j - 1) /\ D(j) = D(j - 1) \cup {Order[j]}
    <3>1. 1 .. j = (1 .. j - 1) \cup {j} /\ j \notin 1 .. j - 1 /\ (1 .. j - 1) \subseteq 1 .. n
      BY <1>2
    <3> QED BY <1>2, <3>1
  <2> HIDE DEF D
  <2>4. \A c \in A : \A b \in ForwardSeq(c, Order[j]) : Going(b, D(j)) /\ Mid(b, D(j))
    <3>1. \A c \in A : \A b \in ForwardSeq(c, Order[j]) : Going(b, D(j))
      BY <2>2, <2>3, ForwardSeqGoes
    <3>2. \A c \in A : \A b \in ForwardSeq(c, Order[j]) : Mid(b, D(j))
      BY <2>2, <2>3, ForwardSeqMid
    <3> QED BY <3>1, <3>2
  <2>5. \A b \in FwdOp(0, Order[j], A) : Going(b, D(j)) /\ Mid(b, D(j))
    <3> DEFINE k == Order[j]
    <3> HIDE DEF k
    <3>1. \A b \in ForwardOne(A, k) : \E c \in A : b \in ForwardSeq(c, k)
      BY Zenon DEF ForwardOne
    <3> QED BY <2>4, <3>1 DEF FwdOp, k
  <2>6. \A b \in FwdOp(0, Order[j], A) : b \in AccType /\ Going(b, D(j)) /\ Mid(b, D(j))
    BY <2>5 DEF Going
  <2> QED BY <2>1, <2>6
<1>5. FwdIn!LeftFold(0, {Start}, Order) \in J[n]
  <2>1. \A j \in 1 .. n : \A A \in J[j - 1] : FwdOp(0, Order[j], A) \in J[j]
    BY <1>4
  <2> HIDE DEF J, n
  <2>2. FwdIn!WellOrdered /\ FwdIn!Ranked(1 .. n)
    <3>1. IsFiniteSet(1 .. n)
      BY <1>2, FS_Interval
    <3> QED BY <3>1, LeastNatural, FiniteRanks DEF FwdIn!WellOrdered, FwdIn!Ranked
  <2> QED BY ONLY <1>2, <1>3, <2>1, <2>2, FwdIn!FoldLeftInduction
<1>6. FoldLeft(ForwardOne, {Start}, Order) = FwdIn!LeftFold(0, {Start}, Order)
  BY DEF FwdIn!LeftFold, FwdOp, FoldLeft, MapThenFoldSet, FwdIn!MapThenFoldSet, Max, FwdIn!Top
<1>7. Mid(a, D(n))
  <2>1. n \in 0 .. n
    BY <1>2
  <2> HIDE DEF D
  <2> QED BY <1>5, <1>6, <2>1
<1>8. \A e : Ours(a.x, D(n), e) => Ours(a.x, Idx, e)
  BY Zenon DEF Ours
<1> HIDE DEF D
<1> QED BY Zenon, <1>7, <1>8 DEF Mid

(* Before a batch is built nothing is pending. *)
LEMMA StartMid ==
    ASSUME Inv, PendingStarted, Stored(srv, flight, last)
    PROVE  Mid(Start, {})
<1>1. Start.x = srv /\ Start.ins = << >>
  BY DEF Start
<1>2. Going(Start, {})
  BY StartGoes
<1>3. \A i \in Idx : Used(srv, i) => Who(srv, i).pending = << >>
  BY <1>1, <1>2 DEF Going, Waits
<1>4. \A p \in 1 .. Len(<< >>) : FALSE
  OBVIOUS
<1>5. Range(<< >>) = {}
  BY DEF Range
<1>6. \A i \in Idx : Used(srv, i) => Carries(srv, i, << >>)
  <2> SUFFICES ASSUME NEW i \in Idx, Used(srv, i)  PROVE Carries(srv, i, << >>)
    BY Zenon
  <2>1. Who(srv, i).pending = << >>
    BY Zenon, <1>3
  <2> QED BY Zenon, <1>4, <2>1 DEF Carries, Carried
<1>7. Single(<< >>) /\ \A e \in Range(<< >>) : Ours(srv, {}, e.cell)
  BY <1>5 DEF Single
<1>8. /\ \A s \in Idx : Holds(srv, flight, s)
      /\ \A i \in Idx : Used(srv, i) => Follows(srv.tok, flight, last, srv.seqs[i], Who(srv, i))
  BY Zenon DEF Stored
<1> HIDE DEF Start
<1> QED BY Zenon, <1>1, <1>6, <1>7, <1>8 DEF Mid
Built(a) == [Tidy(a.x) EXCEPT !.nextSeq = Resumed(a)]
Keeps(x, y) ==
    /\ y.tok = x.tok /\ y.slots = x.slots /\ y.kv = x.kv /\ y.seqs = x.seqs /\ y.seq = x.seq
    /\ \A t \in Idx : \A p \in 1 .. Len(x.kv[t]) : y.cell[x.kv[t][p]] = x.cell[x.kv[t][p]]

(* The state after a batch was built, of which cells without an owner are forgotten *)
LEMMA BuiltKeeps ==
    ASSUME NEW a, a.x \in SrvType
    PROVE  Keeps(a.x, Built(a))
<1> DEFINE z == Tidy(a.x)
           n == Resumed(a)
           y == Built(a)
<1>1. z \in SrvType /\ z.seqs = a.x.seqs /\ z.seq = a.x.seq /\ z.slots = a.x.slots /\ z.kv = a.x.kv
  BY TidyIs
<1>2. /\ z.tok = a.x.tok
      /\ \A t \in Idx : \A p \in 1 .. Len(a.x.kv[t]) : z.cell[a.x.kv[t][p]] = a.x.cell[a.x.kv[t][p]]
  BY TidyCells
<1>3. y = [z EXCEPT !.nextSeq = n]
  BY DEF Built
<1> HIDE DEF z, n, y
<1>4. y.tok = z.tok /\ y.slots = z.slots /\ y.kv = z.kv /\ y.seqs = z.seqs /\ y.seq = z.seq /\ y.cell = z.cell
  BY <1>1, <1>3 DEF SrvType
<1>5. Keeps(a.x, y)
  <2>1. y.tok = a.x.tok /\ y.slots = a.x.slots /\ y.kv = a.x.kv /\ y.seqs = a.x.seqs /\ y.seq = a.x.seq
    BY Zenon, <1>1, <1>2, <1>4
  <2>2. \A t \in Idx : \A p \in 1 .. Len(a.x.kv[t]) : y.cell[a.x.kv[t][p]] = a.x.cell[a.x.kv[t][p]]
    BY <1>2, <1>4
  <2> QED BY Zenon, <2>1, <2>2 DEF Keeps
<1> QED BY Zenon, <1>5 DEF y

(* What is known of the state when the loop over the places is done *)
LEMMA BuiltStored ==
    ASSUME Ready, NEW a, Going(a, Idx), Mid(a, Idx), NEW y, y = Built(a),
           NEW f, NEW l, \A e : Sealed(srv.tok, flight, e) => Sealed(srv.tok, f, e),
           \A i \in Idx : Used(a.x, i) => \A e : Due(srv.tok, flight, last, e) => Due(srv.tok, f, l, e)
    PROVE  /\ y.tok = srv.tok
           /\ \A s \in Idx : Holds(y, f, s)
           /\ \A i \in Idx : Used(y, i) => Follows(y.tok, f, l, y.seqs[i], Who(y, i)) /\ Carries(y, i, a.ins)
<1>1. a.x \in SrvType /\ Sound(a.x)
  BY DEF Going, AccType
<1>2. /\ y.tok = a.x.tok /\ y.slots = a.x.slots /\ y.kv = a.x.kv /\ y.seqs = a.x.seqs /\ y.seq = a.x.seq
      /\ \A t \in Idx : \A p \in 1 .. Len(a.x.kv[t]) : y.cell[a.x.kv[t][p]] = a.x.cell[a.x.kv[t][p]]
  BY Zenon, <1>1, BuiltKeeps DEF Keeps
<1> DEFINE x == a.x
<1>3. x.tok = srv.tok
  BY Zenon DEF Mid
<1>4. ASSUME NEW s \in Idx  PROVE Holds(y, f, s)
  <2> SUFFICES ASSUME NEW p \in 1 .. Len(x.slots[s].Inputs)
               PROVE  Backed(y.cell, srv.tok, f, x.slots[s].Inputs[p], x.kv[s][p])
    BY <1>2, <1>3 DEF Holds
  <2>1. Backed(x.cell, srv.tok, flight, x.slots[s].Inputs[p], x.kv[s][p])
    BY Zenon, <1>3, <1>4 DEF Mid, Holds
  <2>2. p \in 1 .. Len(x.kv[s])
    BY Zenon, <1>1, <1>4, PlacesOf
  <2>3. y.cell[x.kv[s][p]] = x.cell[x.kv[s][p]]
    BY Zenon, <1>2, <1>4, <2>2
  <2> QED BY Zenon, <2>1, <2>3 DEF Backed, Sealed
<1>5. ASSUME NEW i \in Idx, Used(y, i)
      PROVE  Follows(y.tok, f, l, y.seqs[i], Who(y, i)) /\ Carries(y, i, a.ins)
  <2>1. Used(x, i) /\ Who(y, i) = Who(x, i) /\ y.seqs[i] = x.seqs[i] /\ Inp(y, i) = Inp(x, i)
    BY <1>2, <1>5 DEF Used, Who, Inp
  <2>2. Follows(srv.tok, flight, last, x.seqs[i], Who(x, i)) /\ Carries(x, i, a.ins)
    BY Zenon, <1>5, <2>1 DEF Mid
  <2>3. Follows(srv.tok, f, l, x.seqs[i], Who(x, i))
    <3>1. \A e : Due(srv.tok, flight, last, e) => Due(srv.tok, f, l, e)
      BY Zenon, <1>5, <2>1
    <3> QED BY Zenon, <2>2, <3>1 DEF Follows, AllDue
  <2> DEFINE P == Who(x, i).pending
             K == x.kv[Who(x, i).slot]
             n == Len(Inp(x, i))
  <2>4. Who(x, i).slot \in Idx
    BY <1>1, <1>5, <2>1 DEF SrvType, SeqType, Used, Who
  <2>5. \A p \in 1 .. Len(P) : y.cell[K[n + p]] = x.cell[K[n + p]]
    <3> SUFFICES ASSUME NEW p \in 1 .. Len(P)  PROVE y.cell[K[n + p]] = x.cell[K[n + p]]
      BY Zenon
    <3>1. n + p \in 1 .. Len(K)
      BY Zenon, <1>1, <1>5, <2>1, PlacesOf
    <3> QED BY Zenon, <1>2, <2>4, <3>1
  <2>6. Carried(x.cell, a.ins, P, K, n)
    BY Zenon, <2>2 DEF Carries
  <2>7. y.kv[Who(y, i).slot] = K /\ Who(y, i).pending = P /\ Len(Inp(y, i)) = n
    BY <1>2, <2>1
  <2> HIDE DEF P, K, n
  <2>8. Carried(y.cell, a.ins, P, K, n)
    BY Zenon, <2>5, <2>6 DEF Carried
  <2>9. Carries(y, i, a.ins)
    BY Zenon, <2>7, <2>8 DEF Carries
  <2> QED BY Zenon, <1>2, <1>3, <2>1, <2>3, <2>9
<1> QED BY Zenon, <1>2, <1>3, <1>4, <1>5

\* The batch b of a is the latest in f, and asks for nothing.
Joins(a, b, f) ==
    /\ Latest(f) = b /\ b.ins = a.ins /\ \A i \in Idx : b.next[i] = None
    /\ \A j \in DOMAIN f : f[j] = b \/ (j \in DOMAIN flight /\ f[j] = flight[j])
    /\ \A j \in DOMAIN f : j \in DOMAIN flight /\ last = "flying" /\ Behind(flight, j) => Behind(f, j)

(* The new batch asks for nothing yet, and waits for the one before it. *)
LEMMA BehindNew ==
    ASSUME Ready, Flying(flight, last), PendingStarted, NEW a, Going(a, Idx), NEW b, b = NewBatch(a),
           NEW f, f = Append(flight, b)
    PROVE  Joins(a, b, f)
<1>1. /\ b.ins = a.ins /\ b.st = "built" /\ b.ready = (last # "flying") /\ \A i \in Idx : b.next[i] = None
  BY DEF NewBatch
<1>2. Latest(f) = b /\ Flying(f, "flying")
  BY BatchFlies
<1>3. flight \in Seq(BatchType) /\ b \in BatchType
  <2>1. f \in Seq(BatchType) /\ f # << >>
    BY <1>2 DEF Flying
  <2>2. f[Len(f)] \in BatchType
    BY <2>1
  <2> QED BY <1>2, <2>2 DEF Flying, Latest
<1>4. Len(f) = Len(flight) + 1 /\ Len(flight) \in Nat
      /\ \A j \in DOMAIN f : j = Len(f) \/ (j \in DOMAIN flight /\ f[j] = flight[j])
  BY <1>3
<1>5. \A j \in DOMAIN f : f[j] = b \/ (j \in DOMAIN flight /\ f[j] = flight[j])
  BY Zenon, <1>2, <1>4 DEF Latest
<1>6. ASSUME NEW j \in DOMAIN flight, last = "flying", Behind(flight, j)  PROVE Behind(f, j)
  <2>1. Latest(flight).st # "built"
    BY Zenon, <1>6 DEF PendingStarted, Latest
  <2>2. j = Len(flight)
    BY Zenon, <1>6, <2>1 DEF Behind
  <2>3. j = Len(f) - 1
    BY ONLY <1>4, <2>2
  <2>4. ~b.ready
    BY <1>1, <1>6
  <2> QED BY Zenon, <1>1, <1>2, <2>3, <2>4 DEF Behind
<1> QED BY Zenon, <1>1, <1>2, <1>5, <1>6 DEF Joins
(* A batch that was built: the inputs it has are due after those of the     *)
(* batch before it, for which it waits, or there is none.                   *)
LEMMA ForwardBatchStored ==
    ASSUME Inv, StoredInv, ForwardBatch
    PROVE  StoredInv'
<1>1. Ready /\ Around /\ Flying(flight, last) /\ PendingStarted /\ srv.nextSeq \in Idx
  BY DEF Inv, ForwardBatch, Sound, SrvType
<1>2. PICK a \in FoldLeft(ForwardOne, {Start}, Order) :
        /\ srv' = Built(a)
        /\ IF a.ins = << >>
           THEN /\ last' = "nil"
                /\ early' = (early \/ (last = "flying" /\ \E i \in Idx : a.x.seqs[i] # None))
                /\ flight' = flight
           ELSE flight' = Append(flight, NewBatch(a)) /\ last' = "flying" /\ early' = early
        /\ conf' = conf /\ hpc' = hpc
  BY DEF ForwardBatch, Start, Resumed, NewBatch, Built
<1>3. SUFFICES ASSUME ~early'  PROVE Stored(srv', flight', last') /\ Blank(srv.tok)'
  BY Zenon, <1>2, StoredStep
<1>4. ~early /\ Stored(srv, flight, last) /\ Blank(srv.tok)
  <2>1. ~early
    BY <1>2, <1>3
  <2> QED BY Zenon, <2>1 DEF StoredInv
<1>5. Going(a, Idx) /\ Mid(a, Idx)
  <2>1. Going(Start, {}) /\ Mid(Start, {})
    BY Zenon, <1>1, <1>4, StartGoes, StartMid
  <2> QED BY <1>1, <2>1, ForwardGoes, ForwardMid
<1>6. \A j \in DOMAIN flight : Proper(srv.tok, flight[j])
  BY Zenon, <1>4 DEF Stored
<1> DEFINE y == Built(a)
<1>7. srv' = y
  BY <1>2
<1>8. CASE a.ins = << >>
  <2>1. /\ last' = "nil" /\ flight' = flight
        /\ \A i \in Idx : Used(a.x, i) => last # "flying"
    BY <1>2, <1>3, <1>8 DEF Used
  <2>2. \A e : Sealed(srv.tok, flight, e) => Sealed(srv.tok, flight, e)
    OBVIOUS
  <2>3. \A i \in Idx : Used(a.x, i) => \A e : Due(srv.tok, flight, last, e) => Due(srv.tok, flight, "nil", e)
    BY Zenon, <2>1 DEF Due
  <2>4. /\ y.tok = srv.tok
        /\ \A s \in Idx : Holds(y, flight, s)
        /\ \A i \in Idx : Used(y, i) => Follows(y.tok, flight, "nil", y.seqs[i], Who(y, i)) /\ Carries(y, i, a.ins)
    <3> HIDE DEF y
    <3>1. y = Built(a)
      BY DEF y
    <3> QED BY ONLY <1>1, <1>5, <2>2, <2>3, <3>1, BuiltStored
  <2>5. a.x \in SrvType /\ \A i \in Idx : Used(a.x, i) => Who(a.x, i).pending = << >>
    BY <1>5, <1>8 DEF Going, Batched, AccType
  <2>6. y.seqs = a.x.seqs /\ y.seq = a.x.seq
    BY Zenon, <2>5, BuiltKeeps DEF Keeps
  <2> HIDE DEF y
  <2>7. \A i \in Idx : Used(y, i) => Carries(y, i, Latest(flight).ins)
    <3> SUFFICES ASSUME NEW i \in Idx, Used(y, i)  PROVE Carries(y, i, Latest(flight).ins)
      BY Zenon
    <3>1. Who(y, i).pending = << >>
      BY <2>5, <2>6 DEF Used, Who
    <3>2. \A p \in 1 .. Len(<< >>) : FALSE
      OBVIOUS
    <3> QED BY Zenon, <3>1, <3>2 DEF Carries, Carried
  <2>8. Stored(y, flight, "nil")
    BY Zenon, <1>6, <2>4, <2>7 DEF Stored
  <2>9. Blank(srv.tok)'
    BY Zenon, <1>2, <1>4, <1>7, <2>4 DEF Blank
  <2> QED BY Zenon, <1>7, <2>1, <2>8, <2>9
<1>9. CASE a.ins # << >>
  <2> DEFINE b == NewBatch(a)
             f == Append(flight, b)
  <2>1. last' = "flying" /\ flight' = f
    BY <1>2, <1>9
  <2>2. /\ Latest(f) = b /\ b.ins = a.ins /\ \A i \in Idx : b.next[i] = None
        /\ \A j \in DOMAIN f : f[j] = b \/ (j \in DOMAIN flight /\ f[j] = flight[j])
        /\ \A j \in DOMAIN f : j \in DOMAIN flight /\ last = "flying" /\ Behind(flight, j) => Behind(f, j)
    <3>1. f = Append(flight, b) /\ b = NewBatch(a)
      OBVIOUS
    <3> HIDE DEF b, f
    <3>2. Joins(a, b, f)
      BY ONLY <1>1, <1>5, <3>1, BehindNew
    <3> QED BY Zenon, <3>2 DEF Joins
  <2> HIDE DEF b, f, y
  <2>3. \A e : ~Open(b, e)
    BY Zenon, <2>2 DEF Open
  <2>4. \A e : Sealed(srv.tok, flight, e) => Sealed(srv.tok, f, e)
    <3> SUFFICES ASSUME NEW e, Sealed(srv.tok, flight, e), NEW j \in DOMAIN f  PROVE ~Open(f[j], e)
      BY Zenon DEF Sealed
    <3>1. CASE f[j] = b
      BY Zenon, <2>3, <3>1
    <3>2. CASE j \in DOMAIN flight /\ f[j] = flight[j]
      BY Zenon, <3>2 DEF Sealed
    <3> QED BY Zenon, <2>2, <3>1, <3>2
  <2>5. \A e : Due(srv.tok, flight, last, e) => Due(srv.tok, f, "flying", e)
    <3> SUFFICES ASSUME NEW e, Due(srv.tok, flight, last, e), NEW j \in DOMAIN f, Open(f[j], e)  PROVE Behind(f, j)
      BY Zenon DEF Due
    <3>1. j \in DOMAIN flight /\ f[j] = flight[j]
      BY Zenon, <2>2, <2>3
    <3>2. last = "flying" /\ Behind(flight, j)
      BY Zenon, <3>1 DEF Due
    <3> QED BY Zenon, <2>2, <3>1, <3>2
  <2>6. /\ y.tok = srv.tok
        /\ \A s \in Idx : Holds(y, f, s)
        /\ \A i \in Idx : Used(y, i) => Follows(y.tok, f, "flying", y.seqs[i], Who(y, i)) /\ Carries(y, i, a.ins)
    <3>1. y = Built(a)
      BY DEF y
    <3> QED BY ONLY <1>1, <1>5, <2>4, <2>5, <3>1, BuiltStored
  <2>7. \A j \in DOMAIN f : Proper(y.tok, f[j])
    <3>1. Single(a.ins)
      BY Zenon, <1>5 DEF Mid
    <3>2. Proper(srv.tok, b)
      BY Zenon, <2>2, <3>1 DEF Proper
    <3> SUFFICES ASSUME NEW j \in DOMAIN f  PROVE Proper(srv.tok, f[j])
      BY Zenon, <2>6
    <3> QED BY Zenon, <1>6, <2>2, <3>2
  <2>8. Stored(y, f, "flying")
    BY Zenon, <2>2, <2>6, <2>7 DEF Stored
  <2>9. Blank(srv.tok)'
    BY Zenon, <1>2, <1>4, <1>7, <2>6 DEF Blank
  <2> QED BY Zenon, <1>7, <2>1, <2>8, <2>9
<1> QED BY Zenon, <1>8, <1>9

-----------------------------------------------------------------------------
(* The theorem *)

(* The initial states: nothing is stored. *)
LEMMA InitStored ==
    ASSUME Init
    PROVE  StoredInv
<1>1. flight = << >> /\ srv.slots = [s \in Idx |-> [Inputs |-> << >>, InUse |-> FALSE]]
      /\ srv.seqs = [i \in Idx |-> None] /\ srv.tok = [q \in Req |-> << >>]
  BY DEF Init
<1>2. \A s \in Idx : srv.slots[s].Inputs = << >>
  BY <1>1
<1>3. \A p \in 1 .. Len(<< >>) : FALSE
  OBVIOUS
<1>4. \A s \in Idx : Holds(srv, flight, s)
  BY Zenon, <1>2, <1>3 DEF Holds
<1>5. \A i \in Idx : ~Used(srv, i)
  BY <1>1 DEF Used
<1>6. \A j \in DOMAIN flight : FALSE
  BY <1>1
<1>7. Blank(srv.tok)
  BY <1>1 DEF Blank
<1> QED BY Zenon, <1>4, <1>5, <1>6, <1>7 DEF Stored, StoredInv

(* Every step keeps the invariant. *)
LEMMA NextStored ==
    ASSUME Inv, Inv', StoredInv, [Next]_vars
    PROVE  StoredInv'
<1>1. ASSUME NEW q \in Req, Handler(q)  PROVE StoredInv'
  <2>1. Arrive(q) \/ Acquire(q) \/ Admit(q) \/ Stream(q)
    BY <1>1 DEF Handler
  <2> QED BY <1>1, <2>1, ArriveStored, AcquireStored, AdmitStored, StreamStored
<1>2. ASSUME NEW q \in Req, HangUp(q)  PROVE StoredInv'
  <2>1. conf' = conf /\ early' = early /\ flight' = flight /\ last' = last /\ srv' = srv /\ hpc' = hpc
    BY <1>2 DEF HangUp
  <2> QED BY <2>1, QuietStored DEF Quiet
<1>3. ASSUME ForwardBatch  PROVE StoredInv'
  BY <1>3, ForwardBatchStored
<1>4. ASSUME NEW k \in 1 .. Len(flight), Compute(k)  PROVE StoredInv'
  <2>1. Gather(k) \/ Decode(k)
    BY <1>4 DEF Compute
  <2> QED BY <1>4, <2>1, GatherStored, DecodeStored
<1>5. ASSUME UNCHANGED vars  PROVE StoredInv'
  <2>1. conf' = conf /\ early' = early /\ flight' = flight /\ last' = last /\ srv' = srv /\ hpc' = hpc
    BY <1>5 DEF vars
  <2> QED BY <2>1, QuietStored DEF Quiet
<1> QED BY <1>1, <1>2, <1>3, <1>4, <1>5 DEF Next, Finished, Halted

(* StoredInv is an invariant of the runner. *)
LEMMA StoredAlways == Spec => []StoredInv
BY InitStored, NextStored, InvAlways, PTL DEF Spec

(***************************************************************************)
(* The slots of the input cache tell the truth: at every position that     *)
(* InputCacheSlot.Inputs lists, the KV cache has the key of that very      *)
(* token, however forks, shifts, reprocessing, stops and the sampling of   *)
(* tokens that the next batch already refers to interleave, and no key     *)
(* was computed from a placeholder; but for what follows the empty batch   *)
(* that early records.                                                     *)
(***************************************************************************)
THEOREM SlotsAreStored == Spec => []StoredInputs
<1>1. ASSUME Inv, StoredInv  PROVE StoredInputs
  <2> SUFFICES ASSUME ~early, NEW s \in Idx, NEW p \in DOMAIN srv.slots[s].Inputs
               PROVE  /\ p <= Len(srv.kv[s])
                      /\ srv.cell[srv.kv[s][p]] = Val(srv.tok, srv.slots[s].Inputs[p])
    BY Zenon DEF StoredInputs
  <2>1. Stored(srv, flight, last)
    BY Zenon, <1>1 DEF StoredInv
  <2>2. srv \in SrvType /\ Sound(srv)
    BY <1>1 DEF Inv, Sound
  <2>3. srv.slots[s].Inputs \in Seq(InputSet) /\ srv.kv[s] \in Seq(CellIds)
    BY <2>2 DEF SrvType, SlotType
  <2>4. p \in 1 .. Len(srv.slots[s].Inputs)
    BY <2>3
  <2>5. p \in 1 .. Len(srv.kv[s])
    BY Zenon, <2>2, <2>4, PlacesOf
  <2>6. p <= Len(srv.kv[s])
    BY <2>3, <2>5
  <2>7. srv.cell[srv.kv[s][p]] = Val(srv.tok, srv.slots[s].Inputs[p])
    BY Zenon, <2>1, <2>4 DEF Stored, Holds, Backed
  <2> QED BY <2>6, <2>7
<1> QED BY <1>1, InvAlways, StoredAlways, PTL

=============================================================================

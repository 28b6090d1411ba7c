--------------------------- MODULE FoldInduction ---------------------------
(***************************************************************************)
(* Induction over the folds of the community modules.  The provers cannot  *)
(* instantiate a theorem that has an operator as a parameter; here the     *)
(* operator is a constant of the module, and whoever reasons about a fold  *)
(* writes an INSTANCE of this module with that fold's operator.            *)
(* Op(par, x, a) is the accumulator a after the element x; par stands for  *)
(* whatever else the operator of the fold depends on.                      *)
(*                                                                         *)
(* WellOrdered holds of the naturals and Ranked of every finite set; they  *)
(* are hypotheses of the theorems so that an INSTANCE does not bring the   *)
(* library on finite sets with it.                                         *)
(***************************************************************************)
EXTENDS Integers, Folds

CONSTANT Op(_, _, _)

WellOrdered == \A T \in SUBSET Nat : T # {} => \E n \in T : \A m \in T : n <= m
Ranked(S) == \E r \in [SUBSET S -> Nat] :
                \A s \in SUBSET S : r[s] <= r[S] /\ \A x \in s : r[s \ {x}] < r[s]

(* g is the recursive function of a fold over S that takes the element at  *)
(* ch[s] first out of s.                                                   *)
Unfolds(g, par, base, S, ch, e) ==
    g = [s \in SUBSET S |-> IF s = {} THEN base ELSE Op(par, e[ch[s]], g[s \ {ch[s]}])]

(* The recursive function of a fold exists: over the subsets of rank at    *)
(* most n, for every n.                                                    *)
LEMMA IterExists ==
    ASSUME NEW par, NEW base, NEW S, WellOrdered, Ranked(S), NEW ch, NEW e,
           \A s \in SUBSET S : s # {} => ch[s] \in s
    PROVE  \E g : Unfolds(g, par, base, S, ch, e)
<1>0. PICK r \in [SUBSET S -> Nat] : \A s \in SUBSET S : r[s] <= r[S] /\ \A x \in s : r[s \ {x}] < r[s]
  BY DEF Ranked
<1> DEFINE Dom(n) == {s \in SUBSET S : r[s] <= n}
           Body(g, s) == IF s = {} THEN base ELSE Op(par, e[ch[s]], g[s \ {ch[s]}])
           Def(g, n) == g = [s \in Dom(n) |-> Body(g, s)]
<1>1. \A s \in SUBSET S : r[s] \in Nat
  OBVIOUS
<1>2. ASSUME NEW s \in SUBSET S, s # {}
      PROVE  s \ {ch[s]} \in SUBSET S /\ r[s \ {ch[s]}] < r[s] /\ r[s \ {ch[s]}] \in Nat
  <2>1. ch[s] \in s
    BY <1>2
  <2> QED BY <2>1, <1>0, <1>1
<1>3. \A n \in Nat : \E g : Def(g, n)
  <2> DEFINE T == {n \in Nat : ~ \E g : Def(g, n)}
  <2> SUFFICES ASSUME T # {} PROVE FALSE
    OBVIOUS
  <2>1. PICK n \in T : \A m \in T : n <= m
    <3>1. T \in SUBSET Nat
      OBVIOUS
    <3> HIDE DEF T
    <3> QED BY <3>1 DEF WellOrdered
  <2>2. n \in Nat /\ ~ \E g : Def(g, n)
    BY <2>1
  <2>3. CASE n = 0
    <3> DEFINE g == [s \in Dom(n) |-> base]
    <3>1. ASSUME NEW s \in Dom(n) PROVE s = {}
      <4>1. s \in SUBSET S /\ r[s] <= 0
        BY <2>3, <3>1
      <4> SUFFICES ASSUME s # {} PROVE FALSE
        OBVIOUS
      <4>2. r[s \ {ch[s]}] < r[s] /\ r[s \ {ch[s]}] \in Nat /\ r[s] \in Nat
        BY <1>1, <1>2, <4>1
      <4> QED BY <4>1, <4>2
    <3>2. Def(g, n)
      BY <3>1
    <3> QED BY <3>2, <2>2
  <2>4. CASE n # 0
    <3>1. n - 1 \in Nat /\ n - 1 \notin T
      <4>1. n - 1 \in Nat /\ ~(n <= n - 1)
        BY <2>2, <2>4
      <4> HIDE DEF T
      <4> QED BY <4>1, <2>1
    <3>2. PICK h : Def(h, n - 1)
      BY <3>1
    <3> DEFINE g == [s \in Dom(n) |-> Body(h, s)]
    <3>3. ASSUME NEW s \in Dom(n), s # {} PROVE g[s \ {ch[s]}] = h[s \ {ch[s]}]
      <4> DEFINE t == s \ {ch[s]}
      <4>1. t \in Dom(n - 1) /\ t \in Dom(n)
        <5>1. s \in SUBSET S /\ r[s] <= n /\ r[s] \in Nat
          BY <1>1, <3>3
        <5>2. t \in SUBSET S /\ r[t] < r[s] /\ r[t] \in Nat
          BY <1>2, <3>3, <5>1
        <5> HIDE DEF t
        <5> QED BY <2>2, <5>1, <5>2
      <4>2. g[t] = Body(h, t)
        BY <4>1
      <4>3. h[t] = Body(h, t)
        <5> HIDE DEF t, Dom, Body
        <5> QED BY <4>1, <3>2
      <4> QED BY <4>2, <4>3
    <3>4. \A s \in Dom(n) : Body(g, s) = Body(h, s)
      <4> HIDE DEF g, Dom
      <4> QED BY <3>3
    <3>5. Def(g, n)
      <4> HIDE DEF Body, Dom
      <4> QED BY <3>4
    <3> QED BY <3>5, <2>2
  <2> QED BY <2>3, <2>4
<1>4. r[S] \in Nat /\ Dom(r[S]) = SUBSET S
  BY <1>0, <1>1
<1> QED
  <2>1. PICK g : Def(g, r[S])
    BY <1>3, <1>4
  <2> HIDE DEF Dom
  <2>2. Unfolds(g, par, base, S, ch, e)
    BY <2>1, <1>4 DEF Unfolds
  <2> QED BY <2>2

\* FoldSet and FoldLeft of Op.
Top(s) == CHOOSE x \in s : \A y \in s : x >= y
SetFold(par, base, S) ==
    MapThenFoldSet(LAMBDA x, a : Op(par, x, a), base, LAMBDA x : x, LAMBDA s : CHOOSE x \in s : TRUE, S)
LeftFold(par, base, seq) ==
    MapThenFoldSet(LAMBDA x, a : Op(par, x, a), base, LAMBDA i : seq[i], LAMBDA s : Top(s), DOMAIN seq)

(* What holds of base before any element, and is kept by each element that *)
(* is not yet done, holds of FoldSet when all are: J[s] are the            *)
(* accumulators that are right once the elements of s are done.            *)
THEOREM FoldSetInduction ==
    ASSUME NEW par, NEW base, NEW S, WellOrdered, Ranked(S), NEW J, base \in J[{}],
           \A s \in SUBSET S : \A x \in S \ s : \A a \in J[s] : Op(par, x, a) \in J[s \cup {x}]
    PROVE  SetFold(par, base, S) \in J[S]
<1>0. PICK r \in [SUBSET S -> Nat] : \A s \in SUBSET S : r[s] <= r[S] /\ \A x \in s : r[s \ {x}] < r[s]
  BY DEF Ranked
<1> DEFINE Some(s) == CHOOSE x \in s : TRUE
           Def(g) == g = [s \in SUBSET S |->
                            IF s = {} THEN base ELSE Op(par, Some(s), g[s \ {Some(s)}])]
           iter == CHOOSE g : Def(g)
<1>1. \A s \in SUBSET S : s # {} => Some(s) \in s
  OBVIOUS
<1>2. \E g : Def(g)
  <2> DEFINE ch == [s \in SUBSET S |-> Some(s)]
             e == [x \in S |-> x]
  <2>1. \A s \in SUBSET S : s # {} => ch[s] \in s
    BY <1>1
  <2>2. PICK g : Unfolds(g, par, base, S, ch, e)
    <3> HIDE DEF ch, e
    <3> QED BY <2>1, IterExists
  <2>3. \A s \in SUBSET S : s # {} => ch[s] = Some(s) /\ e[ch[s]] = Some(s)
    BY <1>1
  <2>4. Def(g)
    <3> HIDE DEF ch, e, Some
    <3> QED BY <2>2, <2>3 DEF Unfolds
  <2> QED BY <2>4
<1>3. Def(iter)
  BY <1>2
<1>4. \A s \in SUBSET S : iter[s] = IF s = {} THEN base ELSE Op(par, Some(s), iter[s \ {Some(s)}])
  <2> HIDE DEF iter
  <2> QED BY <1>3
<1>5. \A s \in SUBSET S : iter[s] \in J[s]
  <2> DEFINE Bad == {s \in SUBSET S : iter[s] \notin J[s]}
             T == {r[s] : s \in Bad}
  <2> SUFFICES ASSUME Bad # {} PROVE FALSE
    OBVIOUS
  <2>1. T \in SUBSET Nat /\ T # {}
    <3>1. Bad \subseteq SUBSET S /\ \A s \in SUBSET S : r[s] \in Nat
      OBVIOUS
    <3> HIDE DEF Bad
    <3> QED BY <3>1
  <2>2. PICK n \in T : \A m \in T : n <= m
    <3> HIDE DEF T
    <3> QED BY <2>1 DEF WellOrdered
  <2>3. PICK u \in Bad : n = r[u]
    BY <2>2
  <2>4. u \in SUBSET S /\ iter[u] \notin J[u]
    BY <2>3
  <2> HIDE DEF iter
  <2>5. u # {}
    BY <2>4, <1>4
  <2>6. Some(u) \in u
    BY <2>4, <2>5, <1>1
  <2> HIDE DEF Some
  <2>7. u \ {Some(u)} \in SUBSET S /\ r[u \ {Some(u)}] < r[u] /\ r[u \ {Some(u)}] \in Nat /\ r[u] \in Nat
    BY <1>0, <2>4, <2>6
  <2>8. u \ {Some(u)} \notin Bad
    <3>1. ASSUME u \ {Some(u)} \in Bad PROVE FALSE
      <4>1. r[u \ {Some(u)}] \in T
        BY <3>1
      <4> HIDE DEF T, Bad
      <4> QED BY <2>2, <2>3, <2>7, <4>1
    <3> QED BY <3>1
  <2>9. iter[u \ {Some(u)}] \in J[u \ {Some(u)}]
    BY <2>7, <2>8
  <2>10. Some(u) \in S \ (u \ {Some(u)}) /\ (u \ {Some(u)}) \cup {Some(u)} = u
    BY <2>4, <2>6
  <2>11. iter[u] = Op(par, Some(u), iter[u \ {Some(u)}])
    BY <1>4, <2>4, <2>5
  <2>12. Op(par, Some(u), iter[u \ {Some(u)}]) \in J[(u \ {Some(u)}) \cup {Some(u)}]
    BY <2>7, <2>9, <2>10
  <2> QED BY <2>4, <2>10, <2>11, <2>12
<1>6. iter[S] \in J[S]
  BY <1>5
<1> QED BY <1>6 DEF SetFold, MapThenFoldSet

(* The same for FoldLeft, with the number of elements done. *)
THEOREM FoldLeftInduction ==
    ASSUME NEW par, NEW base, NEW seq, NEW n \in Nat, DOMAIN seq = 1 .. n, NEW J, base \in J[0],
           WellOrdered, Ranked(1 .. n),
           \A i \in 1 .. n : \A a \in J[i - 1] : Op(par, seq[i], a) \in J[i]
    PROVE  LeftFold(par, base, seq) \in J[n]
<1> DEFINE S == 1 .. n
           Def(g) == g = [s \in SUBSET (DOMAIN seq) |->
                            IF s = {} THEN base ELSE Op(par, seq[Top(s)], g[s \ {Top(s)}])]
           iter == CHOOSE g : Def(g)
<1>1. \A m \in 1 .. n : Top(1 .. m) = m
  BY DEF Top
<1>2. \A s \in SUBSET S : s # {} => Top(s) \in s
  <2> SUFFICES ASSUME NEW s \in SUBSET S, s # {} PROVE Top(s) \in s
    OBVIOUS
  <2> DEFINE U == {k \in Nat : \A y \in s : y <= k}
  <2>1. n \in U /\ U \in SUBSET Nat
    OBVIOUS
  <2>2. PICK k \in U : \A j \in U : k <= j
    <3> HIDE DEF U
    <3> QED BY <2>1 DEF WellOrdered
  <2>3. k \in s
    <3> SUFFICES ASSUME k \notin s PROVE FALSE
      OBVIOUS
    <3>1. \A y \in s : y <= k - 1 /\ y \in Nat /\ y >= 1
      BY <2>2
    <3>2. k - 1 \in Nat
      <4>1. PICK y \in s : TRUE
        OBVIOUS
      <4> QED BY <4>1, <3>1, <2>2
    <3>3. k - 1 \in U
      BY <3>1, <3>2
    <3> QED BY <2>2, <3>2, <3>3
  <2>4. \E x \in s : \A y \in s : x >= y
    BY <2>2, <2>3
  <2> QED BY <2>4 DEF Top
<1>3. \E g : Def(g)
  <2> DEFINE ch == [s \in SUBSET S |-> Top(s)]
  <2>1. \A s \in SUBSET S : s # {} => ch[s] \in s
    <3> HIDE DEF S
    <3> QED BY <1>2
  <2>2. PICK g : Unfolds(g, par, base, S, ch, seq)
    <3> HIDE DEF ch
    <3> QED BY <2>1, IterExists
  <2>3. \A s \in SUBSET S : ch[s] = Top(s)
    OBVIOUS
  <2>4. Def(g)
    <3> HIDE DEF ch
    <3> QED BY <2>2, <2>3 DEF Unfolds
  <2> QED BY <2>4
<1>4. Def(iter)
  BY <1>3
<1>5. \A s \in SUBSET S : iter[s] = IF s = {} THEN base ELSE Op(par, seq[Top(s)], iter[s \ {Top(s)}])
  <2> HIDE DEF iter
  <2> QED BY <1>4
<1>6. \A m \in 0 .. n : iter[1 .. m] \in J[m]
  <2> DEFINE T == {m \in 0 .. n : iter[1 .. m] \notin J[m]}
  <2> SUFFICES ASSUME T # {} PROVE FALSE
    OBVIOUS
  <2>1. PICK m \in T : \A k \in T : m <= k
    <3>1. T \in SUBSET Nat
      OBVIOUS
    <3> HIDE DEF T
    <3> QED BY <3>1 DEF WellOrdered
  <2>2. m \in 0 .. n /\ iter[1 .. m] \notin J[m]
    BY <2>1
  <2> HIDE DEF iter
  <2>3. m # 0
    <3> SUFFICES ASSUME m = 0 PROVE FALSE
      OBVIOUS
    <3>1. 1 .. 0 = {}
      OBVIOUS
    <3> QED BY <3>1, <1>5, <2>2
  <2>4. m - 1 \in 0 .. n /\ m \in 1 .. n /\ (1 .. m) \ {m} = 1 .. (m - 1) /\ 1 .. m # {}
    <3>1. m \in Nat /\ m <= n /\ m >= 1
      BY <2>2, <2>3
    <3>2. (1 .. m) \ {m} = 1 .. (m - 1)
      BY ONLY <3>1
    <3> QED BY ONLY <3>1, <3>2, n \in Nat
  <2>5. iter[1 .. (m - 1)] \in J[m - 1]
    BY <2>1, <2>4
  <2>6. 1 .. m \in SUBSET S
    BY <2>2
  <2>7. iter[1 .. m] = Op(par, seq[m], iter[1 .. (m - 1)])
    BY <1>1, <1>5, <2>4, <2>6
  <2> QED BY <2>2, <2>4, <2>5, <2>7
<1>7. iter[DOMAIN seq] \in J[n]
  <2> HIDE DEF iter
  <2> QED BY <1>6
<1> QED BY <1>7 DEF LeftFold, MapThenFoldSet
=============================================================================

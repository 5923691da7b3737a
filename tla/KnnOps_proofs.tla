--------------------------- MODULE KnnOps_proofs ---------------------------
(***************************************************************************)
(* The functions of class KNN that loop or recurse: the loop that splits a *)
(* vector, the merge of two runs, the sort, the sum of a distance.  Each   *)
(* is first shown to satisfy the equation that defines it; what it         *)
(* computes follows by induction on how far the loop or the recursion has  *)
(* come.                                                                   *)
(*                                                                         *)
(* Induction is stated over a set of numbers (Induction), and follows from *)
(* the counting of finite sets: were m the number left out, n -> n + 1     *)
(* would map the numbers of the set up to m one-to-one into themselves     *)
(* without 0.                                                              *)
(***************************************************************************)
EXTENDS KnnOps, FiniteSetTheorems, SequenceTheorems, TLAPS

LEMMA Induction ==
  ASSUME NEW P, 0 \in P, \A n \in Nat : n \in P => n + 1 \in P
  PROVE  Nat \subseteq P
<1> SUFFICES ASSUME NEW m \in Nat, m \notin P PROVE FALSE
  OBVIOUS
<1> DEFINE A == P \cap (0 .. m)
           succ == [n \in A |-> n + 1]
<1>1. IsFiniteSet(0 .. m) /\ A \in SUBSET (0 .. m) /\ 0 \in A
  BY FS_Interval
<1>2. IsFiniteSet(A) /\ Cardinality(A) \in Nat
  BY <1>1, FS_Subset, FS_CardinalityType
<1>3. /\ IsFiniteSet(A \ {0}) /\ Cardinality(A \ {0}) = Cardinality(A) - 1
  <2> HIDE DEF A
  <2> QED
    BY <1>1, <1>2, FS_RemoveElement
<1>4. \A n \in A : n + 1 \in A \ {0}
  OBVIOUS
<1>5. succ \in Injection(A, A \ {0})
  BY <1>4 DEF Injection, IsInjective
<1>6. Cardinality(A) <= Cardinality(A \ {0})
  BY <1>2, <1>3, <1>5, FS_Injection
<1> QED
  BY <1>2, <1>3, <1>6

(* Up to a bound. *)
LEMMA InductionTo ==
  ASSUME NEW m \in Nat, NEW P, 0 \in P, \A n \in 0 .. m - 1 : n \in P => n + 1 \in P
  PROVE  \A n \in 0 .. m : n \in P
<1> DEFINE Q == {n \in Nat : n <= m => n \in P}
<1>1. 0 \in Q /\ \A n \in Nat : n \in Q => n + 1 \in Q
  OBVIOUS
<1>2. Nat \subseteq Q
  <2> HIDE DEF Q
  <2> QED
    BY <1>1, Induction
<1> QED
  BY <1>2

(* From all smaller numbers. *)
LEMMA StrongInduction ==
  ASSUME NEW P, \A n \in Nat : (\A k \in 0 .. n - 1 : k \in P) => n \in P
  PROVE  Nat \subseteq P
<1> DEFINE Q == {n \in Nat : \A k \in 0 .. n : k \in P}
<1>1. 0 \in Q
  <2>1. 0 \in P
    OBVIOUS
  <2> QED
    BY <2>1
<1>2. \A n \in Nat : n \in Q => n + 1 \in Q
  <2> SUFFICES ASSUME NEW n \in Nat, \A k \in 0 .. n : k \in P PROVE n + 1 \in Q
    OBVIOUS
  <2>1. n + 1 \in P
    OBVIOUS
  <2> QED
    BY <2>1
<1>3. Nat \subseteq Q
  <2> HIDE DEF Q
  <2> QED
    BY <1>1, <1>2, Induction
<1> QED
  BY <1>3

LEMMA Least ==
  ASSUME NEW T, T \subseteq Nat, T # {}
  PROVE  \E x \in T : \A y \in T : x <= y
<1> SUFFICES ASSUME \A x \in T : \E y \in T : y < x PROVE FALSE
  OBVIOUS
<1> DEFINE P == {n \in Nat : n \notin T}
<1>1. \A n \in Nat : (\A k \in 0 .. n - 1 : k \in P) => n \in P
  OBVIOUS
<1>2. Nat \subseteq P
  <2> HIDE DEF P
  <2> QED
    BY <1>1, StrongInduction
<1> QED
  BY <1>2

-----------------------------------------------------------------------------
(* The loop that splits a vector. *)

IsFilterLoop(f, a, S, m) ==
  /\ f[0] = <<>>
  /\ \A n \in 1 .. m :
       f[n] = IF a[n] \in S THEN Append(f[n - 1], a[n]) ELSE f[n - 1]

LEMMA FilterExists ==
  ASSUME NEW a, NEW S, NEW m \in Nat
  PROVE  \E f : IsFilterLoop(f, a, S, m)
<1> DEFINE P == {n \in Nat : \E f : IsFilterLoop(f, a, S, n)}
<1>1. 0 \in P
  <2> DEFINE f == [n \in {0} |-> <<>>]
  <2>1. IsFilterLoop(f, a, S, 0)
    BY DEF IsFilterLoop
  <2> QED
    BY <2>1
<1>2. ASSUME NEW n \in Nat, n \in P PROVE n + 1 \in P
  <2>1. PICK f : IsFilterLoop(f, a, S, n)
    BY <1>2
  <2> DEFINE x == IF a[n + 1] \in S THEN Append(f[n], a[n + 1]) ELSE f[n]
             g == [i \in 0 .. n + 1 |-> IF i = n + 1 THEN x ELSE f[i]]
  <2>2. g[n + 1] = x /\ \A i \in 0 .. n : g[i] = f[i]
    BY <1>2
  <2> HIDE DEF g
  <2>3. \A i \in 1 .. n + 1 : g[i] = IF a[i] \in S THEN Append(g[i - 1], a[i]) ELSE g[i - 1]
    <3> SUFFICES ASSUME NEW i \in 1 .. n + 1
                 PROVE  g[i] = IF a[i] \in S THEN Append(g[i - 1], a[i]) ELSE g[i - 1]
      OBVIOUS
    <3>1. CASE i = n + 1
      BY <1>2, <2>2, <3>1
    <3>2. CASE i # n + 1
      BY <1>2, <2>1, <2>2, <3>2 DEF IsFilterLoop
    <3> QED
      BY <3>1, <3>2
  <2>4. IsFilterLoop(g, a, S, n + 1)
    BY <1>2, <2>1, <2>2, <2>3 DEF IsFilterLoop
  <2> QED
    BY <1>2, <2>4
<1>3. Nat \subseteq P
  <2> HIDE DEF P
  <2> QED
    BY <1>1, <1>2, Induction
<1> QED
  BY <1>3

LEMMA FilterUnfolded ==
  ASSUME NEW a, NEW S, Len(a) \in Nat
  PROVE  \E f : Filter(a, S) = f[Len(a)] /\ IsFilterLoop(f, a, S, Len(a))
<1> DEFINE IsIt(f) ==
      f = [n \in 0 .. Len(a) |->
             IF n = 0 THEN <<>>
             ELSE IF a[n] \in S THEN Append(f[n - 1], a[n]) ELSE f[n - 1]]
<1>1. Filter(a, S) = (CHOOSE f : IsIt(f))[Len(a)]
  BY DEF Filter
<1>2. PICK h : IsFilterLoop(h, a, S, Len(a))
  BY FilterExists
<1> DEFINE g == [n \in 0 .. Len(a) |-> h[n]]
<1>3. IsIt(g)
  <2>1. \A n \in 0 .. Len(a) :
          g[n] = IF n = 0 THEN <<>>
                 ELSE IF a[n] \in S THEN Append(g[n - 1], a[n]) ELSE g[n - 1]
    BY <1>2 DEF IsFilterLoop
  <2> QED
    BY <2>1
<1>4. PICK f : f = (CHOOSE x : IsIt(x)) /\ IsIt(f)
  <2> HIDE DEF IsIt
  <2> QED
    BY <1>3
<1>5. IsFilterLoop(f, a, S, Len(a))
  <2>1. \A n \in 0 .. Len(a) :
          f[n] = IF n = 0 THEN <<>>
                 ELSE IF a[n] \in S THEN Append(f[n - 1], a[n]) ELSE f[n - 1]
    BY <1>4
  <2>2. f[0] = <<>>
    BY <2>1
  <2>3. \A n \in 1 .. Len(a) : n \in 0 .. Len(a) /\ n # 0
    OBVIOUS
  <2> QED
    BY <2>1, <2>2, <2>3 DEF IsFilterLoop
<1> QED
  BY <1>1, <1>4, <1>5

Distinct(a) == \A i, j \in DOMAIN a : i # j => a[i] # a[j]

LEMMA Pushed ==
  ASSUME NEW R, NEW s \in Seq(R), NEW x \in R
  PROVE  /\ Append(s, x) \in Seq(R) /\ Len(Append(s, x)) = Len(s) + 1
         /\ \A k \in 1 .. Len(s) : Append(s, x)[k] = s[k]
         /\ Append(s, x)[Len(s) + 1] = x
         /\ Range(Append(s, x)) = Range(s) \cup {x}
         /\ Distinct(s) /\ x \notin Range(s) => Distinct(Append(s, x))
<1>1. PICK t : t = Append(s, x)
  OBVIOUS
<1>2. /\ t \in Seq(R) /\ Len(t) = Len(s) + 1
      /\ \A k \in 1 .. Len(s) : t[k] = s[k]
      /\ t[Len(s) + 1] = x
  BY <1>1, AppendProperties
<1>3. DOMAIN s = 1 .. Len(s) /\ DOMAIN t = 1 .. Len(s) + 1 /\ Len(s) \in Nat
  BY <1>2
<1>4. DOMAIN t = DOMAIN s \cup {Len(s) + 1}
  BY <1>3
<1>5. Range(t) = Range(s) \cup {x}
  BY <1>2, <1>3, <1>4 DEF Range
<1>6. ASSUME Distinct(s), x \notin Range(s) PROVE Distinct(t)
  <2>1. \A k \in DOMAIN s : s[k] # x
    BY <1>6 DEF Range
  <2>2. ASSUME NEW i \in DOMAIN t, NEW j \in DOMAIN t, i # j PROVE t[i] # t[j]
    BY <1>2, <1>3, <1>6, <2>1, <2>2 DEF Distinct
  <2> QED
    BY <2>2 DEF Distinct
<1> QED
  BY <1>1, <1>2, <1>5, <1>6

(* What the loop has pushed after n turns. *)
Chosen(a, S, n) == {k \in 1 .. n : a[k] \in S}

Prefixed(a, n) == {a[k] : k \in 1 .. n}

FilterGood(f, a, S, n) ==
  /\ Range(f[n]) = Prefixed(a, n) \cap S
  /\ IsFiniteSet(Chosen(a, S, n))
  /\ Len(f[n]) = Cardinality(Chosen(a, S, n))

LEMMA FilterTurn ==
  ASSUME NEW R, NEW a \in Seq(R), NEW S, NEW f, IsFilterLoop(f, a, S, Len(a)),
         NEW n \in 0 .. Len(a) - 1, f[n] \in Seq(R), FilterGood(f, a, S, n)
  PROVE  /\ f[n + 1] \in Seq(R) /\ FilterGood(f, a, S, n + 1)
         /\ Distinct(a) /\ Distinct(f[n]) => Distinct(f[n + 1])
<1>1. n + 1 \in 1 .. Len(a) /\ a[n + 1] \in R /\ n \in Nat
  OBVIOUS
<1>2. f[n + 1] = IF a[n + 1] \in S THEN Append(f[n], a[n + 1]) ELSE f[n]
  BY <1>1 DEF IsFilterLoop
<1>3. Prefixed(a, n + 1) = Prefixed(a, n) \cup {a[n + 1]}
  BY <1>1 DEF Prefixed
<1>4. CASE a[n + 1] \notin S
  <2>1. Chosen(a, S, n + 1) = Chosen(a, S, n)
    BY <1>1, <1>4 DEF Chosen
  <2>2. Prefixed(a, n + 1) \cap S = Prefixed(a, n) \cap S
    BY <1>3, <1>4
  <2> QED
    BY <1>2, <1>4, <2>1, <2>2 DEF FilterGood
<1>5. CASE a[n + 1] \in S
  <2>1. Chosen(a, S, n + 1) = Chosen(a, S, n) \cup {n + 1} /\ n + 1 \notin Chosen(a, S, n)
    BY <1>1, <1>5 DEF Chosen
  <2>2. /\ f[n + 1] \in Seq(R) /\ Len(f[n + 1]) = Len(f[n]) + 1
        /\ Range(f[n + 1]) = Range(f[n]) \cup {a[n + 1]}
        /\ Distinct(f[n]) /\ a[n + 1] \notin Range(f[n]) => Distinct(f[n + 1])
    BY <1>1, <1>2, <1>5, Pushed
  <2>3. IsFiniteSet(Chosen(a, S, n + 1)) /\ Len(f[n + 1]) = Cardinality(Chosen(a, S, n + 1))
    BY <2>1, <2>2, FS_AddElement DEF FilterGood
  <2>4. Range(f[n + 1]) = Prefixed(a, n + 1) \cap S
    BY <1>3, <1>5, <2>2 DEF FilterGood
  <2>5. Distinct(a) => a[n + 1] \notin Prefixed(a, n)
    BY <1>1 DEF Distinct, Prefixed
  <2>6. Distinct(a) => a[n + 1] \notin Range(f[n])
    BY <2>5 DEF FilterGood
  <2> QED
    BY <2>2, <2>3, <2>4, <2>6 DEF FilterGood
<1> QED
  BY <1>4, <1>5

LEMMA FilterHolds ==
  ASSUME NEW R, NEW a \in Seq(R), NEW S
  PROVE  /\ Filter(a, S) \in Seq(R)
         /\ Range(Filter(a, S)) = Range(a) \cap S
         /\ IsFiniteSet(Chosen(a, S, Len(a)))
         /\ Len(Filter(a, S)) = Cardinality(Chosen(a, S, Len(a)))
         /\ Distinct(a) => Distinct(Filter(a, S))
<1>1. PICK f : Filter(a, S) = f[Len(a)] /\ IsFilterLoop(f, a, S, Len(a))
  BY FilterUnfolded
<1> DEFINE P == {n \in 0 .. Len(a) : /\ f[n] \in Seq(R) /\ FilterGood(f, a, S, n)
                                     /\ Distinct(a) => Distinct(f[n])}
<1>2. 0 \in P
  <2>1. f[0] = <<>> /\ Chosen(a, S, 0) = {} /\ Prefixed(a, 0) = {}
    BY <1>1 DEF IsFilterLoop, Chosen, Prefixed
  <2>2. Range(<<>>) = {} /\ Distinct(<<>>) /\ Len(<<>>) = 0 /\ <<>> \in Seq(R)
    BY DEF Range, Distinct
  <2> QED
    <3>1. f[0] \in Seq(R) /\ Distinct(f[0]) /\ Range(f[0]) = {} /\ Len(f[0]) = 0
      BY <2>1, <2>2
    <3>2. FilterGood(f, a, S, 0)
      BY <2>1, <3>1, FS_EmptySet DEF FilterGood
    <3> QED
      BY <3>1, <3>2
<1>3. \A n \in 0 .. Len(a) - 1 : n \in P => n + 1 \in P
  BY <1>1, FilterTurn
<1>4. \A n \in 0 .. Len(a) : n \in P
  <2> HIDE DEF P
  <2> QED
    BY <1>2, <1>3, InductionTo
<1>5. f[Len(a)] \in Seq(R) /\ FilterGood(f, a, S, Len(a))
      /\ (Distinct(a) => Distinct(f[Len(a)]))
  BY <1>4
<1>6. Range(a) = Prefixed(a, Len(a))
  BY DEF Range, Prefixed
<1> QED
  BY <1>1, <1>5, <1>6 DEF FilterGood

-----------------------------------------------------------------------------
(* The loop that merges two runs. *)

MergeEquation(m, pts, l, r, dimension, i, j) ==
  m[<<i, j>>] = IF i = Len(l) /\ j = Len(r) THEN <<>>
                ELSE IF LeftNext(pts, l, r, dimension, i, j)
                  THEN <<l[i + 1]>> \o m[<<i + 1, j>>]
                  ELSE <<r[j + 1]>> \o m[<<i, j + 1>>]

(* Where no more than n elements are left to push. *)
MergeEquations(m, pts, l, r, dimension, n) ==
  \A i \in 0 .. Len(l), j \in 0 .. Len(r) :
    Len(l) - i + (Len(r) - j) <= n => MergeEquation(m, pts, l, r, dimension, i, j)

LEMMA NextInside ==
  ASSUME NEW pts, NEW l, NEW r, NEW dimension, Len(l) \in Nat, Len(r) \in Nat,
         NEW i \in 0 .. Len(l), NEW j \in 0 .. Len(r), ~(i = Len(l) /\ j = Len(r))
  PROVE  /\ LeftNext(pts, l, r, dimension, i, j) => i < Len(l)
         /\ ~LeftNext(pts, l, r, dimension, i, j) => j < Len(r)
  BY DEF LeftNext

LEMMA MergeExists ==
  ASSUME NEW pts, NEW l, NEW r, NEW dimension, Len(l) \in Nat, Len(r) \in Nat
  PROVE  \E m : MergeEquations(m, pts, l, r, dimension, Len(l) + Len(r))
<1> DEFINE P == {n \in Nat : \E m : MergeEquations(m, pts, l, r, dimension, n)}
           left(i, j) == Len(l) - i + (Len(r) - j)
           all == (0 .. Len(l)) \X (0 .. Len(r))
<1>1. 0 \in P
  <2> DEFINE m == [its \in all |-> <<>>]
  <2>1. ASSUME NEW i \in 0 .. Len(l), NEW j \in 0 .. Len(r), left(i, j) <= 0
        PROVE  MergeEquation(m, pts, l, r, dimension, i, j)
    <3>1. i = Len(l) /\ j = Len(r) /\ <<i, j>> \in all
      BY <2>1
    <3> QED
      BY <3>1 DEF MergeEquation
  <2>2. MergeEquations(m, pts, l, r, dimension, 0)
    BY <2>1 DEF MergeEquations
  <2> QED
    BY <2>2
<1>2. ASSUME NEW n \in Nat, n \in P PROVE n + 1 \in P
  <2>1. PICK m : MergeEquations(m, pts, l, r, dimension, n)
    BY <1>2
  <2> DEFINE x(i, j) == IF i = Len(l) /\ j = Len(r) THEN <<>>
                        ELSE IF LeftNext(pts, l, r, dimension, i, j)
                          THEN <<l[i + 1]>> \o m[<<i + 1, j>>]
                          ELSE <<r[j + 1]>> \o m[<<i, j + 1>>]
             f == [its \in all |-> IF left(its[1], its[2]) <= n THEN m[its]
                                   ELSE x(its[1], its[2])]
  <2>2. \A i \in 0 .. Len(l), j \in 0 .. Len(r) :
          f[<<i, j>>] = IF left(i, j) <= n THEN m[<<i, j>>] ELSE x(i, j)
    BY Zenon
  <2> HIDE DEF f
  <2>3. ASSUME NEW i \in 0 .. Len(l), NEW j \in 0 .. Len(r), left(i, j) <= n + 1
        PROVE  MergeEquation(f, pts, l, r, dimension, i, j)
    <3>1. f[<<i, j>>] = x(i, j)
      <4>1. CASE left(i, j) <= n
        <5>1. MergeEquation(m, pts, l, r, dimension, i, j)
          BY <2>1, <4>1 DEF MergeEquations
        <5> QED
          BY <2>2, <4>1, <5>1 DEF MergeEquation
      <4>2. CASE ~(left(i, j) <= n)
        BY <2>2, <4>2
      <4> QED
        BY <4>1, <4>2
    <3>2. CASE i = Len(l) /\ j = Len(r)
      BY <3>1, <3>2 DEF MergeEquation
    <3>3. CASE ~(i = Len(l) /\ j = Len(r)) /\ LeftNext(pts, l, r, dimension, i, j)
      <4>1. i < Len(l)
        BY <3>3, NextInside
      <4>2. i + 1 \in 0 .. Len(l) /\ left(i + 1, j) <= n
        BY <1>2, <2>3, <4>1
      <4>3. f[<<i + 1, j>>] = m[<<i + 1, j>>]
        BY <2>2, <4>2
      <4> QED
        BY <3>1, <3>3, <4>3 DEF MergeEquation
    <3>4. CASE ~(i = Len(l) /\ j = Len(r)) /\ ~LeftNext(pts, l, r, dimension, i, j)
      <4>1. j < Len(r)
        BY <3>4, NextInside
      <4>2. j + 1 \in 0 .. Len(r) /\ left(i, j + 1) <= n
        BY <1>2, <2>3, <4>1
      <4>3. f[<<i, j + 1>>] = m[<<i, j + 1>>]
        BY <2>2, <4>2
      <4> QED
        BY <3>1, <3>4, <4>3 DEF MergeEquation
    <3> QED
      BY <3>2, <3>3, <3>4
  <2>4. MergeEquations(f, pts, l, r, dimension, n + 1)
    BY <2>3 DEF MergeEquations
  <2> QED
    BY <1>2, <2>4
<1>3. Nat \subseteq P
  <2> HIDE DEF P
  <2> QED
    BY <1>1, <1>2, Induction
<1>4. Len(l) + Len(r) \in P
  <2> HIDE DEF P
  <2> QED
    BY <1>3
<1> QED
  BY <1>4

LEMMA MergeUnfolded ==
  ASSUME NEW pts, NEW l, NEW r, NEW dimension, Len(l) \in Nat, Len(r) \in Nat
  PROVE  \E m : /\ MergeRuns(pts, l, r, dimension) = m[<<0, 0>>]
                /\ \A i \in 0 .. Len(l), j \in 0 .. Len(r) :
                     MergeEquation(m, pts, l, r, dimension, i, j)
<1> DEFINE all == (0 .. Len(l)) \X (0 .. Len(r))
           body(m, i, j) == IF i = Len(l) /\ j = Len(r) THEN <<>>
                            ELSE IF LeftNext(pts, l, r, dimension, i, j)
                              THEN <<l[i + 1]>> \o m[<<i + 1, j>>]
                              ELSE <<r[j + 1]>> \o m[<<i, j + 1>>]
           IsIt(m) == m = [its \in all |-> body(m, its[1], its[2])]
<1>1. MergeRuns(pts, l, r, dimension) = (CHOOSE m : IsIt(m))[<<0, 0>>]
  BY DEF MergeRuns
<1>2. PICK h : MergeEquations(h, pts, l, r, dimension, Len(l) + Len(r))
  BY MergeExists
<1> DEFINE g == [its \in all |-> h[its]]
<1>3. IsIt(g)
  <2>1. ASSUME NEW i \in 0 .. Len(l), NEW j \in 0 .. Len(r) PROVE g[<<i, j>>] = body(g, i, j)
    <3>1. g[<<i, j>>] = h[<<i, j>>]
      BY Zenon
    <3>2. MergeEquation(h, pts, l, r, dimension, i, j)
      BY <1>2 DEF MergeEquations
    <3>3. i < Len(l) => g[<<i + 1, j>>] = h[<<i + 1, j>>]
      <4>1. i < Len(l) => <<i + 1, j>> \in all
        OBVIOUS
      <4> QED
        BY <4>1, Zenon
    <3>4. j < Len(r) => g[<<i, j + 1>>] = h[<<i, j + 1>>]
      <4>1. j < Len(r) => <<i, j + 1>> \in all
        OBVIOUS
      <4> QED
        BY <4>1, Zenon
    <3> HIDE DEF g
    <3> QED
      BY <3>1, <3>2, <3>3, <3>4, NextInside DEF MergeEquation
  <2>2. \A its \in all : g[its] = body(g, its[1], its[2])
    <3> HIDE DEF g, body
    <3> QED
      BY <2>1
  <2> QED
    BY <2>2, Zenon
<1>4. PICK m : m = (CHOOSE x : IsIt(x)) /\ IsIt(m)
  <2> HIDE DEF IsIt
  <2> QED
    BY <1>3
<1>5. ASSUME NEW i \in 0 .. Len(l), NEW j \in 0 .. Len(r)
      PROVE  MergeEquation(m, pts, l, r, dimension, i, j)
  <2>1. m = [its \in all |-> body(m, its[1], its[2])]
    BY <1>4
  <2>2. m[<<i, j>>] = body(m, i, j)
    <3> HIDE DEF body
    <3> QED
      BY <2>1
  <2> QED
    BY <2>2 DEF MergeEquation
<1> QED
  BY <1>1, <1>4, <1>5

(* What it computes.  K[i] is the coordinate of the i-th element of a, q[k] the position in a *)
(* of the k-th element of a run: in stable order one position comes strictly before another.  *)
Before(K, i, j) == K[i] < K[j] \/ (K[i] = K[j] /\ i < j)

InOrder(K, q, n) == \A x, y \in 1 .. n : x < y => Before(K, q[x], q[y])

Picks(s, a, q) == \A k \in 1 .. Len(s) : s[k] = a[q[k]]

Coordinates(pts, a, dimension) == [i \in 1 .. Len(a) |-> At(pts, a[i], dimension)]

LEMMA BeforeIsOrder ==
  ASSUME NEW m \in Nat, NEW K \in [1 .. m -> Nat],
         NEW x \in 1 .. m, NEW y \in 1 .. m, NEW z \in 1 .. m
  PROVE  /\ Before(K, x, y) /\ Before(K, y, z) => Before(K, x, z)
         /\ ~Before(K, x, x)
         /\ x # y => Before(K, x, y) \/ Before(K, y, x)
         /\ Before(K, x, y) => K[x] <= K[y]
<1>1. K[x] \in Nat /\ K[y] \in Nat /\ K[z] \in Nat
  OBVIOUS
<1> QED
  BY <1>1 DEF Before

Fits(V, a, K, D, s, q, p) ==
  /\ s \in Seq(V) /\ q \in [1 .. Len(s) -> D]
  /\ Picks(s, a, q) /\ InOrder(K, q, Len(s))
  /\ p \in D /\ a[p] \in V /\ \A k \in 1 .. Len(s) : Before(K, p, q[k])

InFrontOf(V, a, K, D, s, q, p, t) ==
  /\ t \in Seq(V) /\ Len(t) = Len(s) + 1
  /\ \E u \in [1 .. Len(t) -> D] :
       /\ Picks(t, a, u) /\ InOrder(K, u, Len(t))
       /\ \A k \in 1 .. Len(t) : u[k] = p \/ \E h \in 1 .. Len(s) : u[k] = q[h]

LEMMA InFront ==
  ASSUME NEW V, NEW a, NEW K, NEW D, NEW s, NEW q, NEW p, Fits(V, a, K, D, s, q, p)
  PROVE  InFrontOf(V, a, K, D, s, q, p, <<a[p]>> \o s)
<1> SUFFICES ASSUME NEW t, t = <<a[p]>> \o s PROVE InFrontOf(V, a, K, D, s, q, p, t)
  OBVIOUS
<1> USE DEF Fits
<1>1. /\ t \in Seq(V) /\ Len(t) = Len(s) + 1 /\ t[1] = a[p]
      /\ \A k \in 1 .. Len(s) : t[k + 1] = s[k]
  BY ConcatProperties
<1> DEFINE u == [k \in 1 .. Len(s) + 1 |-> IF k = 1 THEN p ELSE q[k - 1]]
<1>2. Len(s) \in Nat
  OBVIOUS
<1>3. u \in [1 .. Len(t) -> D]
  BY <1>1, <1>2
<1>4. u[1] = p /\ \A k \in 2 .. Len(s) + 1 : k - 1 \in 1 .. Len(s) /\ u[k] = q[k - 1]
  BY <1>2
<1> HIDE DEF u
<1>5. Picks(t, a, u)
  <2> SUFFICES ASSUME NEW k \in 1 .. Len(s) + 1 PROVE t[k] = a[u[k]]
    BY <1>1 DEF Picks
  <2>1. CASE k = 1
    BY <1>1, <1>4, <2>1
  <2>2. CASE k # 1
    <3>1. k - 1 \in 1 .. Len(s) /\ u[k] = q[k - 1]
      BY <1>2, <1>4, <2>2
    <3>2. t[(k - 1) + 1] = s[k - 1]
      BY <1>1, <3>1
    <3> QED
      BY <1>2, <3>1, <3>2 DEF Picks
  <2> QED
    BY <2>1, <2>2
<1>6. InOrder(K, u, Len(t))
  <2> SUFFICES ASSUME NEW x \in 1 .. Len(s) + 1, NEW y \in 1 .. Len(s) + 1, x < y
               PROVE  Before(K, u[x], u[y])
    BY <1>1 DEF InOrder
  <2>1. y - 1 \in 1 .. Len(s) /\ u[y] = q[y - 1]
    BY <1>2, <1>4
  <2>2. CASE x = 1
    BY <1>4, <2>1, <2>2
  <2>3. CASE x # 1
    <3>1. x - 1 \in 1 .. Len(s) /\ u[x] = q[x - 1] /\ x - 1 < y - 1
      BY <1>2, <1>4, <2>3
    <3> QED
      BY <2>1, <3>1 DEF InOrder
  <2> QED
    BY <2>2, <2>3
<1>7. \A k \in 1 .. Len(t) : u[k] = p \/ \E h \in 1 .. Len(s) : u[k] = q[h]
  <2> SUFFICES ASSUME NEW k \in 1 .. Len(s) + 1, k # 1
               PROVE  \E h \in 1 .. Len(s) : u[k] = q[h]
    BY <1>1, <1>4
  <2>1. k - 1 \in 1 .. Len(s) /\ u[k] = q[k - 1]
    BY <1>2, <1>4
  <2> QED
    BY <2>1
<1> QED
  BY <1>1, <1>3, <1>5, <1>6, <1>7 DEF InFrontOf

(* s is what the positions b + 1 to e of a hold, in stable order. *)
IsRun(V, K, a, s, q, b, e) ==
  /\ s \in Seq(V) /\ Len(s) = e - b
  /\ q \in [1 .. Len(s) -> b + 1 .. e]
  /\ Picks(s, a, q) /\ InOrder(K, q, Len(s))

(* What is left to push when i elements of the left and j of the right run are in. *)
Rest(K, a, s, l, r, ql, qr, b, e, i, j) ==
  /\ s \in Seq(Range(a)) /\ Len(s) = Len(l) - i + (Len(r) - j)
  /\ \E q \in [1 .. Len(s) -> b + 1 .. e] :
       /\ Picks(s, a, q) /\ InOrder(K, q, Len(s))
       /\ \A k \in 1 .. Len(s) : \/ \E x \in i + 1 .. Len(l) : q[k] = ql[x]
                                \/ \E y \in j + 1 .. Len(r) : q[k] = qr[y]

(* The vector that is sorted: rows of the training set, read in one coordinate. *)
IsVector(pts, a, dimension) ==
  /\ a \in Seq(DOMAIN pts)
  /\ \A i \in DOMAIN pts : At(pts, i, dimension) \in Nat

LEMMA CoordinatesOfVector ==
  ASSUME NEW pts, NEW a, NEW dimension, IsVector(pts, a, dimension)
  PROVE  /\ Len(a) \in Nat /\ DOMAIN a = 1 .. Len(a)
         /\ Coordinates(pts, a, dimension) \in [1 .. Len(a) -> Nat]
         /\ \A i \in 1 .. Len(a) : /\ a[i] \in Range(a)
                                  /\ Coordinates(pts, a, dimension)[i] = At(pts, a[i], dimension)
<1>1. Len(a) \in Nat /\ DOMAIN a = 1 .. Len(a) /\ \A i \in 1 .. Len(a) : a[i] \in DOMAIN pts
  BY DEF IsVector
<1> QED
  BY <1>1 DEF IsVector, Coordinates, Range

TwoRuns(pts, a, dimension, l, r, ql, qr, b, mid, e) ==
  /\ IsVector(pts, a, dimension)
  /\ b \in Nat /\ mid \in Nat /\ e \in Nat /\ b <= mid /\ mid <= e /\ e <= Len(a)
  /\ IsRun(Range(a), Coordinates(pts, a, dimension), a, l, ql, b, mid)
  /\ IsRun(Range(a), Coordinates(pts, a, dimension), a, r, qr, mid, e)

LEMMA RunElement ==
  ASSUME NEW V, NEW K, NEW a, NEW s, NEW q, NEW b, NEW e, IsRun(V, K, a, s, q, b, e),
         NEW k \in 1 .. Len(s)
  PROVE  q[k] \in b + 1 .. e /\ s[k] = a[q[k]]
  BY DEF IsRun, Picks

LEMMA Inside ==
  ASSUME NEW n \in Nat, NEW b \in Nat, NEW e \in Nat, e <= n, NEW x \in b + 1 .. e
  PROVE  x \in 1 .. n
  OBVIOUS

LEMMA RestLeft ==
  ASSUME NEW pts, NEW a, NEW dimension, NEW l, NEW r, NEW ql, NEW qr, NEW b, NEW mid, NEW e,
         TwoRuns(pts, a, dimension, l, r, ql, qr, b, mid, e),
         NEW i \in 0 .. Len(l), NEW j \in 0 .. Len(r), i < Len(l),
         LeftNext(pts, l, r, dimension, i, j),
         NEW s, Rest(Coordinates(pts, a, dimension), a, s, l, r, ql, qr, b, e, i + 1, j)
  PROVE  Rest(Coordinates(pts, a, dimension), a, <<l[i + 1]>> \o s, l, r, ql, qr, b, e, i, j)
<1>1. PICK K : K = Coordinates(pts, a, dimension)
  OBVIOUS
<1>2. /\ Len(a) \in Nat /\ K \in [1 .. Len(a) -> Nat]
      /\ \A x \in 1 .. Len(a) : a[x] \in Range(a) /\ K[x] = At(pts, a[x], dimension)
  BY <1>1, CoordinatesOfVector DEF TwoRuns
<1>3. /\ b \in Nat /\ mid \in Nat /\ e \in Nat /\ b <= mid /\ mid <= e /\ e <= Len(a)
      /\ IsRun(Range(a), K, a, l, ql, b, mid) /\ IsRun(Range(a), K, a, r, qr, mid, e)
  BY <1>1 DEF TwoRuns
<1>4. Len(l) \in Nat /\ Len(r) \in Nat /\ i + 1 \in 1 .. Len(l)
  BY <1>3 DEF IsRun
<1>5. /\ \A x \in 1 .. Len(l) : ql[x] \in b + 1 .. mid /\ l[x] = a[ql[x]]
      /\ \A y \in 1 .. Len(r) : qr[y] \in mid + 1 .. e /\ r[y] = a[qr[y]]
  BY <1>3, RunElement
<1>6. PICK p : p = ql[i + 1]
  OBVIOUS
<1>7. p \in b + 1 .. mid /\ p \in 1 .. Len(a) /\ p \in b + 1 .. e /\ l[i + 1] = a[p] /\ a[p] \in Range(a)
  BY <1>2, <1>3, <1>4, <1>5, <1>6
<1>8. s \in Seq(Range(a)) /\ Len(s) = Len(l) - (i + 1) + (Len(r) - j)
  BY DEF Rest
<1>9. PICK q \in [1 .. Len(s) -> b + 1 .. e] :
        /\ Picks(s, a, q) /\ InOrder(K, q, Len(s))
        /\ \A k \in 1 .. Len(s) : \/ \E x \in (i + 1) + 1 .. Len(l) : q[k] = ql[x]
                                 \/ \E y \in j + 1 .. Len(r) : q[k] = qr[y]
  BY <1>1 DEF Rest
<1>10. \A x \in (i + 1) + 1 .. Len(l) : Before(K, p, ql[x])
  BY <1>3, <1>4, <1>6 DEF IsRun, InOrder
<1>11. ASSUME NEW y \in j + 1 .. Len(r) PROVE Before(K, p, qr[y])
  <2>1. j < Len(r) /\ j + 1 \in 1 .. Len(r) /\ y \in 1 .. Len(r)
    BY <1>4
  <2>2. At(pts, l[i + 1], dimension) <= At(pts, r[j + 1], dimension)
    BY <2>1 DEF LeftNext
  <2>3. qr[j + 1] \in mid + 1 .. e /\ r[j + 1] = a[qr[j + 1]]
        /\ qr[y] \in mid + 1 .. e /\ qr[j + 1] \in 1 .. Len(a) /\ qr[y] \in 1 .. Len(a)
    <3>1. qr[j + 1] \in mid + 1 .. e /\ r[j + 1] = a[qr[j + 1]] /\ qr[y] \in mid + 1 .. e
      BY <1>5, <2>1
    <3> QED
      BY <1>2, <1>3, <3>1, Inside
  <2>4. K[p] <= K[qr[j + 1]]
    BY <1>2, <1>7, <2>2, <2>3
  <2>5. K[qr[j + 1]] <= K[qr[y]]
    <3>1. CASE y = j + 1
      BY <1>2, <2>3, <3>1
    <3>2. CASE y # j + 1
      <4>1. Before(K, qr[j + 1], qr[y])
        BY <1>3, <1>4, <2>1, <3>2 DEF IsRun, InOrder
      <4> QED
        BY <1>2, <2>3, <4>1, BeforeIsOrder
    <3> QED
      BY <3>1, <3>2
  <2>6. p < qr[y]
    BY <1>3, <1>7, <2>3
  <2>7. K[p] \in Nat /\ K[qr[j + 1]] \in Nat /\ K[qr[y]] \in Nat
    BY <1>2, <1>7, <2>3
  <2> QED
    BY <2>4, <2>5, <2>6, <2>7 DEF Before
<1>12. \A k \in 1 .. Len(s) : Before(K, p, q[k])
  BY <1>9, <1>10, <1>11
<1>13. PICK t : t = <<a[p]>> \o s
  OBVIOUS
<1>14. /\ t \in Seq(Range(a)) /\ Len(t) = Len(s) + 1
       /\ \E u \in [1 .. Len(t) -> b + 1 .. e] :
            /\ Picks(t, a, u) /\ InOrder(K, u, Len(t))
            /\ \A k \in 1 .. Len(t) : u[k] = p \/ \E h \in 1 .. Len(s) : u[k] = q[h]
  <2>1. PICK D : D = b + 1 .. e
    OBVIOUS
  <2>2. Fits(Range(a), a, K, D, s, q, p)
    BY <1>7, <1>8, <1>9, <1>12, <2>1 DEF Fits
  <2>3. InFrontOf(Range(a), a, K, D, s, q, p, t)
    BY <1>13, <2>2, InFront
  <2> QED
    BY <2>1, <2>3 DEF InFrontOf
<1>15. PICK u \in [1 .. Len(t) -> b + 1 .. e] :
         /\ Picks(t, a, u) /\ InOrder(K, u, Len(t))
         /\ \A k \in 1 .. Len(t) : u[k] = p \/ \E h \in 1 .. Len(s) : u[k] = q[h]
  BY <1>14
<1>16. ASSUME NEW k \in 1 .. Len(t)
       PROVE  \/ \E x \in i + 1 .. Len(l) : u[k] = ql[x]
              \/ \E y \in j + 1 .. Len(r) : u[k] = qr[y]
  <2>1. CASE u[k] = p
    BY <1>4, <1>6, <2>1
  <2>2. ASSUME NEW h \in 1 .. Len(s), u[k] = q[h]
        PROVE  \/ \E x \in i + 1 .. Len(l) : u[k] = ql[x]
               \/ \E y \in j + 1 .. Len(r) : u[k] = qr[y]
    <3>1. \A x \in (i + 1) + 1 .. Len(l) : x \in i + 1 .. Len(l)
      BY <1>4
    <3> QED
      BY <1>9, <2>2, <3>1
  <2> QED
    BY <1>15, <2>1, <2>2
<1>17. Len(t) = Len(l) - i + (Len(r) - j)
  BY <1>4, <1>8, <1>14
<1>18. Rest(K, a, t, l, r, ql, qr, b, e, i, j)
  BY <1>14, <1>15, <1>16, <1>17 DEF Rest
<1> QED
  BY <1>1, <1>7, <1>13, <1>18

LEMMA RestRight ==
  ASSUME NEW pts, NEW a, NEW dimension, NEW l, NEW r, NEW ql, NEW qr, NEW b, NEW mid, NEW e,
         TwoRuns(pts, a, dimension, l, r, ql, qr, b, mid, e),
         NEW i \in 0 .. Len(l), NEW j \in 0 .. Len(r), j < Len(r),
         ~LeftNext(pts, l, r, dimension, i, j),
         NEW s, Rest(Coordinates(pts, a, dimension), a, s, l, r, ql, qr, b, e, i, j + 1)
  PROVE  Rest(Coordinates(pts, a, dimension), a, <<r[j + 1]>> \o s, l, r, ql, qr, b, e, i, j)
<1>1. PICK K : K = Coordinates(pts, a, dimension)
  OBVIOUS
<1>2. /\ Len(a) \in Nat /\ K \in [1 .. Len(a) -> Nat]
      /\ \A x \in 1 .. Len(a) : a[x] \in Range(a) /\ K[x] = At(pts, a[x], dimension)
  BY <1>1, CoordinatesOfVector DEF TwoRuns
<1>3. /\ b \in Nat /\ mid \in Nat /\ e \in Nat /\ b <= mid /\ mid <= e /\ e <= Len(a)
      /\ IsRun(Range(a), K, a, l, ql, b, mid) /\ IsRun(Range(a), K, a, r, qr, mid, e)
  BY <1>1 DEF TwoRuns
<1>4. Len(l) \in Nat /\ Len(r) \in Nat /\ j + 1 \in 1 .. Len(r)
  BY <1>3 DEF IsRun
<1>5. /\ \A x \in 1 .. Len(l) : ql[x] \in b + 1 .. mid /\ l[x] = a[ql[x]]
      /\ \A y \in 1 .. Len(r) : qr[y] \in mid + 1 .. e /\ r[y] = a[qr[y]]
  BY <1>3, RunElement
<1>6. PICK p : p = qr[j + 1]
  OBVIOUS
<1>7. p \in mid + 1 .. e /\ p \in 1 .. Len(a) /\ p \in b + 1 .. e /\ r[j + 1] = a[p] /\ a[p] \in Range(a)
  BY <1>2, <1>3, <1>4, <1>5, <1>6
<1>8. s \in Seq(Range(a)) /\ Len(s) = Len(l) - i + (Len(r) - (j + 1))
  BY DEF Rest
<1>9. PICK q \in [1 .. Len(s) -> b + 1 .. e] :
        /\ Picks(s, a, q) /\ InOrder(K, q, Len(s))
        /\ \A k \in 1 .. Len(s) : \/ \E x \in i + 1 .. Len(l) : q[k] = ql[x]
                                 \/ \E y \in (j + 1) + 1 .. Len(r) : q[k] = qr[y]
  BY <1>1 DEF Rest
<1>10. \A y \in (j + 1) + 1 .. Len(r) : Before(K, p, qr[y])
  BY <1>3, <1>4, <1>6 DEF IsRun, InOrder
<1>11. ASSUME NEW x \in i + 1 .. Len(l) PROVE Before(K, p, ql[x])
  <2>1. i < Len(l) /\ i + 1 \in 1 .. Len(l) /\ x \in 1 .. Len(l)
    BY <1>4
  <2>2. ~(At(pts, l[i + 1], dimension) <= At(pts, r[j + 1], dimension))
    BY <2>1 DEF LeftNext
  <2>3. ql[i + 1] \in b + 1 .. mid /\ l[i + 1] = a[ql[i + 1]]
        /\ ql[x] \in b + 1 .. mid /\ ql[i + 1] \in 1 .. Len(a) /\ ql[x] \in 1 .. Len(a)
    <3>2. mid <= Len(a)
      BY <1>2, <1>3
    <3>1. ql[i + 1] \in b + 1 .. mid /\ l[i + 1] = a[ql[i + 1]] /\ ql[x] \in b + 1 .. mid
      BY <1>5, <2>1
    <3> QED
      BY <1>2, <1>3, <3>1, <3>2, Inside
  <2>4. K[p] \in Nat /\ K[ql[i + 1]] \in Nat /\ K[ql[x]] \in Nat
    BY <1>2, <1>7, <2>3
  <2>5. K[p] < K[ql[i + 1]]
    <3>1. ~(K[ql[i + 1]] <= K[p])
      BY <1>2, <1>7, <2>2, <2>3
    <3> QED
      BY <2>4, <3>1
  <2>6. K[ql[i + 1]] <= K[ql[x]]
    <3>1. CASE x = i + 1
      BY <1>2, <2>3, <3>1
    <3>2. CASE x # i + 1
      <4>1. Before(K, ql[i + 1], ql[x])
        BY <1>3, <1>4, <2>1, <3>2 DEF IsRun, InOrder
      <4> QED
        BY <1>2, <2>3, <4>1, BeforeIsOrder
    <3> QED
      BY <3>1, <3>2
  <2> QED
    BY <2>4, <2>5, <2>6 DEF Before
<1>12. \A k \in 1 .. Len(s) : Before(K, p, q[k])
  BY <1>9, <1>10, <1>11
<1>13. PICK t : t = <<a[p]>> \o s
  OBVIOUS
<1>14. /\ t \in Seq(Range(a)) /\ Len(t) = Len(s) + 1
       /\ \E u \in [1 .. Len(t) -> b + 1 .. e] :
            /\ Picks(t, a, u) /\ InOrder(K, u, Len(t))
            /\ \A k \in 1 .. Len(t) : u[k] = p \/ \E h \in 1 .. Len(s) : u[k] = q[h]
  <2>1. PICK D : D = b + 1 .. e
    OBVIOUS
  <2>2. Fits(Range(a), a, K, D, s, q, p)
    BY <1>7, <1>8, <1>9, <1>12, <2>1 DEF Fits
  <2>3. InFrontOf(Range(a), a, K, D, s, q, p, t)
    BY <1>13, <2>2, InFront
  <2> QED
    BY <2>1, <2>3 DEF InFrontOf
<1>15. PICK u \in [1 .. Len(t) -> b + 1 .. e] :
         /\ Picks(t, a, u) /\ InOrder(K, u, Len(t))
         /\ \A k \in 1 .. Len(t) : u[k] = p \/ \E h \in 1 .. Len(s) : u[k] = q[h]
  BY <1>14
<1>16. ASSUME NEW k \in 1 .. Len(t)
       PROVE  \/ \E x \in i + 1 .. Len(l) : u[k] = ql[x]
              \/ \E y \in j + 1 .. Len(r) : u[k] = qr[y]
  <2>1. CASE u[k] = p
    BY <1>4, <1>6, <2>1
  <2>2. ASSUME NEW h \in 1 .. Len(s), u[k] = q[h]
        PROVE  \/ \E x \in i + 1 .. Len(l) : u[k] = ql[x]
               \/ \E y \in j + 1 .. Len(r) : u[k] = qr[y]
    <3>1. \A y \in (j + 1) + 1 .. Len(r) : y \in j + 1 .. Len(r)
      BY <1>4
    <3> QED
      BY <1>9, <2>2, <3>1
  <2> QED
    BY <1>15, <2>1, <2>2
<1>17. Len(t) = Len(l) - i + (Len(r) - j)
  BY <1>4, <1>8, <1>14
<1>18. Rest(K, a, t, l, r, ql, qr, b, e, i, j)
  BY <1>14, <1>15, <1>16, <1>17 DEF Rest
<1> QED
  BY <1>1, <1>7, <1>13, <1>18

LEMMA RestEnd ==
  ASSUME NEW K, NEW a, NEW l, NEW r, NEW ql, NEW qr, NEW b, NEW e,
         Len(l) \in Nat, Len(r) \in Nat
  PROVE  Rest(K, a, <<>>, l, r, ql, qr, b, e, Len(l), Len(r))
<1> DEFINE q == [k \in {} |-> k]
<1>1. PICK s : s = <<>>
  OBVIOUS
<1>2. s \in Seq(Range(a)) /\ Len(s) = 0 /\ 1 .. Len(s) = {}
  BY <1>1
<1>3. q \in [1 .. Len(s) -> b + 1 .. e] /\ Picks(s, a, q) /\ InOrder(K, q, Len(s))
  BY <1>2 DEF Picks, InOrder
<1>4. Len(s) = Len(l) - Len(l) + (Len(r) - Len(r))
  BY <1>2
<1> HIDE DEF q
<1>5. Rest(K, a, s, l, r, ql, qr, b, e, Len(l), Len(r))
  BY <1>2, <1>3, <1>4 DEF Rest
<1> QED
  BY <1>1, <1>5

(* The merge of two adjacent runs is a run. *)
LEMMA MergeIsRun ==
  ASSUME NEW pts, NEW a, NEW dimension, NEW l, NEW r, NEW ql, NEW qr, NEW b, NEW mid, NEW e,
         TwoRuns(pts, a, dimension, l, r, ql, qr, b, mid, e)
  PROVE  \E q : IsRun(Range(a), Coordinates(pts, a, dimension), a,
                       MergeRuns(pts, l, r, dimension), q, b, e)
<1>1. PICK K : K = Coordinates(pts, a, dimension)
  OBVIOUS
<1>2. /\ Len(l) \in Nat /\ Len(r) \in Nat /\ Len(l) = mid - b /\ Len(r) = e - mid
      /\ b \in Nat /\ mid \in Nat /\ e \in Nat
  BY DEF TwoRuns, IsRun
<1>3. PICK m : /\ MergeRuns(pts, l, r, dimension) = m[<<0, 0>>]
               /\ \A i \in 0 .. Len(l), j \in 0 .. Len(r) :
                    MergeEquation(m, pts, l, r, dimension, i, j)
  BY <1>2, MergeUnfolded
<1> DEFINE Good(i, j) == Rest(K, a, m[<<i, j>>], l, r, ql, qr, b, e, i, j)
           P == {n \in Nat : \A i \in 0 .. Len(l), j \in 0 .. Len(r) :
                                Len(l) - i + (Len(r) - j) <= n => Good(i, j)}
<1> HIDE DEF Good
<1>4. Good(Len(l), Len(r))
  <2>1. Len(l) \in 0 .. Len(l) /\ Len(r) \in 0 .. Len(r)
    BY <1>2
  <2>2. m[<<Len(l), Len(r)>>] = <<>>
    BY <1>3, <2>1 DEF MergeEquation
  <2> QED
    BY <1>2, <2>2, RestEnd DEF Good
<1>5. 0 \in P
  <2> SUFFICES ASSUME NEW i \in 0 .. Len(l), NEW j \in 0 .. Len(r), Len(l) - i + (Len(r) - j) <= 0
               PROVE  Good(i, j)
    OBVIOUS
  <2>1. i = Len(l) /\ j = Len(r)
    BY <1>2
  <2> QED
    BY <1>4, <2>1
<1>6. \A n \in Nat : n \in P => n + 1 \in P
  <2> SUFFICES ASSUME NEW n \in Nat, n \in P PROVE n + 1 \in P
    OBVIOUS
  <2> SUFFICES ASSUME NEW i \in 0 .. Len(l), NEW j \in 0 .. Len(r),
                      Len(l) - i + (Len(r) - j) <= n + 1
               PROVE  Good(i, j)
    <3>1. n + 1 \in Nat
      OBVIOUS
    <3> QED
      BY <3>1
  <2>1. MergeEquation(m, pts, l, r, dimension, i, j)
    BY <1>3
  <2>2. CASE i = Len(l) /\ j = Len(r)
    BY <1>4, <2>2
  <2>3. CASE ~(i = Len(l) /\ j = Len(r)) /\ LeftNext(pts, l, r, dimension, i, j)
    <3>1. i < Len(l) /\ i + 1 \in 0 .. Len(l) /\ Len(l) - (i + 1) + (Len(r) - j) <= n
      BY <1>2, <2>3, NextInside
    <3>2. Good(i + 1, j)
      BY <3>1
    <3>3. m[<<i, j>>] = <<l[i + 1]>> \o m[<<i + 1, j>>]
      BY <2>1, <2>3 DEF MergeEquation
    <3> QED
      BY <1>1, <2>3, <3>1, <3>2, <3>3, RestLeft DEF Good
  <2>4. CASE ~(i = Len(l) /\ j = Len(r)) /\ ~LeftNext(pts, l, r, dimension, i, j)
    <3>0. j < Len(r)
      BY <1>2, <2>4, NextInside
    <3>1. j < Len(r) /\ j + 1 \in 0 .. Len(r) /\ Len(l) - i + (Len(r) - (j + 1)) <= n
      BY <1>2, <3>0
    <3>2. Good(i, j + 1)
      BY <3>1
    <3>3. m[<<i, j>>] = <<r[j + 1]>> \o m[<<i, j + 1>>]
      BY <2>1, <2>4 DEF MergeEquation
    <3> QED
      BY <1>1, <2>4, <3>1, <3>2, <3>3, RestRight DEF Good
  <2> QED
    BY <2>2, <2>3, <2>4
<1>7. Nat \subseteq P
  <2> HIDE DEF P
  <2> QED
    BY <1>5, <1>6, Induction
<1>8. Good(0, 0)
  <2>1. Len(l) + Len(r) \in Nat
    BY <1>2
  <2>2. Len(l) + Len(r) \in P
    <3> HIDE DEF P
    <3> QED
      BY <1>7, <2>1
  <2> QED
    BY <1>2, <2>2
<1>9. PICK s : s = m[<<0, 0>>]
  OBVIOUS
<1>10. Rest(K, a, s, l, r, ql, qr, b, e, 0, 0)
  BY <1>8, <1>9 DEF Good
<1>11. s \in Seq(Range(a)) /\ Len(s) = Len(l) - 0 + (Len(r) - 0)
  BY <1>10 DEF Rest
<1>12. Len(s) = e - b
  BY <1>2, <1>11
<1>13. PICK q \in [1 .. Len(s) -> b + 1 .. e] : Picks(s, a, q) /\ InOrder(K, q, Len(s))
  BY <1>10 DEF Rest
<1>14. IsRun(Range(a), K, a, s, q, b, e)
  BY <1>11, <1>12, <1>13 DEF IsRun
<1> QED
  BY <1>1, <1>3, <1>9, <1>14
-----------------------------------------------------------------------------
(* The recursion of merge_sort where it does not fork. *)

Mid(b, e) == b + (e - b) \div 2

LEMMA MidInside ==
  ASSUME NEW b \in Nat, NEW e \in Nat
  PROVE  /\ Mid(b, e) \in Nat
         /\ e - b >= 2 => b < Mid(b, e) /\ Mid(b, e) < e
         /\ b <= e => b <= Mid(b, e) /\ Mid(b, e) <= e
         /\ e <= b => e <= Mid(b, e) /\ Mid(b, e) <= b
  BY DEF Mid

LEMMA EmptyMerge ==
  ASSUME NEW pts, NEW dimension
  PROVE  MergeRuns(pts, <<>>, <<>>, dimension) = <<>>
<1>1. PICK s : s = <<>> /\ Len(s) = 0
  OBVIOUS
<1>2. PICK m : /\ MergeRuns(pts, s, s, dimension) = m[<<0, 0>>]
               /\ \A i \in 0 .. Len(s), j \in 0 .. Len(s) :
                    MergeEquation(m, pts, s, s, dimension, i, j)
  BY <1>1, MergeUnfolded
<1>3. MergeEquation(m, pts, s, s, dimension, 0, 0)
  BY <1>1, <1>2
<1> QED
  BY <1>1, <1>2, <1>3 DEF MergeEquation

SortEquation(f, pts, a, dimension, b, e) ==
  f[<<b, e>>] = IF e - b = 1 THEN <<a[b + 1]>>
                ELSE MergeRuns(pts, f[<<b, Mid(b, e)>>], f[<<Mid(b, e), e>>], dimension)

(* For the ranges of at most n elements. *)
SortEquations(f, pts, a, begin, end, dimension, n) ==
  \A b \in begin .. end, e \in begin .. end :
    e - b <= n => SortEquation(f, pts, a, dimension, b, e)

LEMMA SortExists ==
  ASSUME NEW pts, NEW a, NEW dimension, NEW begin \in Nat, NEW end \in Nat, begin <= end
  PROVE  \E f : SortEquations(f, pts, a, begin, end, dimension, end - begin)
<1> DEFINE P == {n \in Nat : \E f : SortEquations(f, pts, a, begin, end, dimension, n)}
           all == (begin .. end) \X (begin .. end)
<1>0. \A b \in begin .. end, e \in begin .. end :
        /\ b \in Nat /\ e \in Nat /\ Mid(b, e) \in begin .. end
  <2> SUFFICES ASSUME NEW b \in begin .. end, NEW e \in begin .. end
               PROVE  b \in Nat /\ e \in Nat /\ Mid(b, e) \in begin .. end
    OBVIOUS
  <2>1. b \in Nat /\ e \in Nat
    OBVIOUS
  <2>2. PICK mid : mid = Mid(b, e)
    OBVIOUS
  <2>3. /\ mid \in Nat
        /\ b <= e => b <= mid /\ mid <= e
        /\ e <= b => e <= mid /\ mid <= b
    BY <2>1, <2>2, MidInside
  <2>4. mid \in begin .. end
    BY <2>1, <2>3
  <2> QED
    BY <2>1, <2>2, <2>4
<1>1. 0 \in P
  <2> DEFINE f == [range \in all |-> <<>>]
  <2>1. \A b \in begin .. end, e \in begin .. end : f[<<b, e>>] = <<>>
    BY Zenon
  <2> HIDE DEF f
  <2>2. ASSUME NEW b \in begin .. end, NEW e \in begin .. end, e - b <= 0
        PROVE  SortEquation(f, pts, a, dimension, b, e)
    <3>1. f[<<b, e>>] = <<>> /\ f[<<b, Mid(b, e)>>] = <<>> /\ f[<<Mid(b, e), e>>] = <<>>
      BY <1>0, <2>1
    <3>2. e - b # 1
      BY <1>0, <2>2
    <3> QED
      BY <3>1, <3>2, EmptyMerge DEF SortEquation
  <2>3. SortEquations(f, pts, a, begin, end, dimension, 0)
    BY <2>2 DEF SortEquations
  <2> QED
    BY <2>3
<1>2. ASSUME NEW n \in Nat, n \in P PROVE n + 1 \in P
  <2>1. PICK h : SortEquations(h, pts, a, begin, end, dimension, n)
    BY <1>2
  <2> DEFINE x(b, e) == IF e - b = 1 THEN <<a[b + 1]>>
                        ELSE MergeRuns(pts, h[<<b, Mid(b, e)>>], h[<<Mid(b, e), e>>], dimension)
             f == [range \in all |-> IF range[2] - range[1] <= n THEN h[range]
                                     ELSE x(range[1], range[2])]
  <2>2. \A b \in begin .. end, e \in begin .. end :
          f[<<b, e>>] = IF e - b <= n THEN h[<<b, e>>] ELSE x(b, e)
    BY Zenon
  <2> HIDE DEF f
  <2>3. ASSUME NEW b \in begin .. end, NEW e \in begin .. end, e - b <= n + 1
        PROVE  SortEquation(f, pts, a, dimension, b, e)
    <3>1. f[<<b, e>>] = x(b, e)
      <4>1. CASE e - b <= n
        <5>1. SortEquation(h, pts, a, dimension, b, e)
          BY <2>1, <4>1 DEF SortEquations
        <5> QED
          BY <2>2, <4>1, <5>1 DEF SortEquation
      <4>2. CASE ~(e - b <= n)
        BY <2>2, <4>2
      <4> QED
        BY <4>1, <4>2
    <3>2. CASE e - b = 1
      BY <3>1, <3>2 DEF SortEquation
    <3>3. CASE e - b # 1
      <4>1. PICK mid : mid = Mid(b, e)
        OBVIOUS
      <4>2. mid \in begin .. end /\ mid - b <= n /\ e - mid <= n
        <5>1. b \in Nat /\ e \in Nat /\ mid \in begin .. end
          BY <1>0, <4>1
        <5>2. CASE e - b >= 2
          <6>1. b < mid /\ mid < e
            BY <4>1, <5>1, <5>2, MidInside
          <6> QED
            BY <1>2, <2>3, <5>1, <6>1
        <5>3. CASE e <= b
          <6>1. e <= mid /\ mid <= b
            BY <4>1, <5>1, <5>3, MidInside
          <6> QED
            BY <1>2, <5>1, <6>1
        <5> QED
          BY <3>3, <5>1, <5>2, <5>3
      <4>3. f[<<b, mid>>] = h[<<b, mid>>] /\ f[<<mid, e>>] = h[<<mid, e>>]
        BY <2>2, <4>2
      <4> QED
        BY <3>1, <3>3, <4>1, <4>3 DEF SortEquation
    <3> QED
      BY <3>2, <3>3
  <2>4. SortEquations(f, pts, a, begin, end, dimension, n + 1)
    BY <2>3 DEF SortEquations
  <2> QED
    BY <1>2, <2>4
<1>3. Nat \subseteq P
  <2> HIDE DEF P
  <2> QED
    BY <1>1, <1>2, Induction
<1>4. end - begin \in P
  <2> HIDE DEF P
  <2> QED
    BY <1>3
<1> QED
  BY <1>4

(* f is a function that satisfies the equation of the recursion on begin .. end. *)
IsSort(f, pts, a, begin, end, dimension) ==
  \A b \in begin .. end, e \in begin .. end : SortEquation(f, pts, a, dimension, b, e)

LEMMA SortUnfolded ==
  ASSUME NEW pts, NEW a, NEW dimension, NEW begin \in Nat, NEW end \in Nat, begin <= end
  PROVE  \E f : /\ SerialSort(pts, a, begin, end, dimension) = f[<<begin, end>>]
                /\ IsSort(f, pts, a, begin, end, dimension)
<1> DEFINE all == (begin .. end) \X (begin .. end)
           body(f, b, e) == IF e - b = 1 THEN <<a[b + 1]>>
                            ELSE MergeRuns(pts, f[<<b, b + (e - b) \div 2>>],
                                           f[<<b + (e - b) \div 2, e>>], dimension)
           IsIt(f) == f = [range \in all |-> body(f, range[1], range[2])]
<1>1. SerialSort(pts, a, begin, end, dimension) = (CHOOSE f : IsIt(f))[<<begin, end>>]
  BY DEF SerialSort
<1>2. PICK h : SortEquations(h, pts, a, begin, end, dimension, end - begin)
  BY SortExists
<1> DEFINE g == [range \in all |-> h[range]]
<1>3. IsIt(g)
  <2>0. \A b \in begin .. end, e \in begin .. end : g[<<b, e>>] = h[<<b, e>>]
    BY Zenon
  <2>1. ASSUME NEW b \in begin .. end, NEW e \in begin .. end PROVE g[<<b, e>>] = body(g, b, e)
    <3> HIDE DEF g
    <3>1. SortEquation(h, pts, a, dimension, b, e)
      BY <1>2 DEF SortEquations
    <3>2. PICK mid : mid = Mid(b, e) /\ mid = b + (e - b) \div 2
      BY DEF Mid
    <3>3. mid \in begin .. end
      BY <3>2, MidInside
    <3>4. g[<<b, mid>>] = h[<<b, mid>>] /\ g[<<mid, e>>] = h[<<mid, e>>] /\ g[<<b, e>>] = h[<<b, e>>]
      BY <2>0, <3>3
    <3> QED
      BY <3>1, <3>2, <3>4 DEF SortEquation
  <2>2. \A range \in all : g[range] = body(g, range[1], range[2])
    <3> HIDE DEF g, body
    <3> QED
      BY <2>1
  <2> QED
    BY <2>2, Zenon
<1>4. PICK f : f = (CHOOSE x : IsIt(x)) /\ IsIt(f)
  <2> HIDE DEF IsIt
  <2> QED
    BY <1>3
<1>5. ASSUME NEW b \in begin .. end, NEW e \in begin .. end
      PROVE  SortEquation(f, pts, a, dimension, b, e)
  <2>1. f = [range \in all |-> body(f, range[1], range[2])]
    BY <1>4
  <2>2. f[<<b, e>>] = body(f, b, e)
    <3> HIDE DEF body
    <3> QED
      BY <2>1
  <2> QED
    BY <2>2 DEF SortEquation, Mid
<1> QED
  BY <1>1, <1>4, <1>5 DEF IsSort

(* Two such functions agree on the ranges both are defined on. *)
LEMMA SortUnique ==
  ASSUME NEW pts, NEW a, NEW dimension,
         NEW b1 \in Nat, NEW e1 \in Nat, NEW f, IsSort(f, pts, a, b1, e1, dimension),
         NEW b2 \in Nat, NEW e2 \in Nat, NEW g, IsSort(g, pts, a, b2, e2, dimension),
         b1 <= b2, e2 <= e1
  PROVE  \A b \in b2 .. e2, e \in b2 .. e2 : b < e => f[<<b, e>>] = g[<<b, e>>]
<1> DEFINE P == {n \in Nat : \A b \in b2 .. e2, e \in b2 .. e2 :
                                b < e /\ e - b <= n => f[<<b, e>>] = g[<<b, e>>]}
<1>1. 0 \in P
  OBVIOUS
<1>2. ASSUME NEW n \in Nat, n \in P PROVE n + 1 \in P
  <2> SUFFICES ASSUME NEW b \in b2 .. e2, NEW e \in b2 .. e2, b < e, e - b <= n + 1
               PROVE  f[<<b, e>>] = g[<<b, e>>]
    <3>1. n + 1 \in Nat
      OBVIOUS
    <3> QED
      BY <3>1
  <2>1. SortEquation(g, pts, a, dimension, b, e) /\ SortEquation(f, pts, a, dimension, b, e)
    BY DEF IsSort
  <2>2. CASE e - b = 1
    BY <2>1, <2>2 DEF SortEquation
  <2>3. CASE e - b # 1
    <3>1. PICK mid : mid = Mid(b, e)
      OBVIOUS
    <3>2. b < mid /\ mid < e /\ mid \in b2 .. e2 /\ mid - b <= n /\ e - mid <= n
      <4>2. b \in Nat /\ e \in Nat /\ e - b >= 2
        BY <2>3
      <4>1. b < mid /\ mid < e /\ mid \in Nat
        BY <3>1, <4>2, MidInside
      <4> QED
        BY <4>1
    <3>3. f[<<b, mid>>] = g[<<b, mid>>] /\ f[<<mid, e>>] = g[<<mid, e>>]
      BY <1>2, <3>2
    <3> QED
      BY <2>1, <2>3, <3>1, <3>3 DEF SortEquation
  <2> QED
    BY <2>2, <2>3
<1>3. Nat \subseteq P
  <2> HIDE DEF P
  <2> QED
    BY <1>1, <1>2, Induction
<1> SUFFICES ASSUME NEW b \in b2 .. e2, NEW e \in b2 .. e2, b < e
             PROVE  f[<<b, e>>] = g[<<b, e>>]
  OBVIOUS
<1>4. e - b \in P
  <2> HIDE DEF P
  <2> QED
    BY <1>3
<1> QED
  BY <1>4

(* The sort of one element, and of more: the halves, then the merge. *)
LEMMA SerialSortSplits ==
  ASSUME NEW pts, NEW a, NEW dimension, NEW b \in Nat, NEW e \in Nat, b < e
  PROVE  SerialSort(pts, a, b, e, dimension) =
           IF e - b = 1 THEN <<a[b + 1]>>
           ELSE MergeRuns(pts, SerialSort(pts, a, b, Mid(b, e), dimension),
                          SerialSort(pts, a, Mid(b, e), e, dimension), dimension)
<1>1. PICK f : /\ SerialSort(pts, a, b, e, dimension) = f[<<b, e>>]
               /\ IsSort(f, pts, a, b, e, dimension)
  BY SortUnfolded
<1>2. SortEquation(f, pts, a, dimension, b, e)
  BY <1>1 DEF IsSort
<1>3. CASE e - b = 1
  BY <1>1, <1>2, <1>3 DEF SortEquation
<1>4. CASE e - b # 1
  <2>1. PICK mid : mid = Mid(b, e) /\ mid \in Nat /\ b < mid /\ mid < e
    BY <1>4, MidInside
  <2>2. PICK g : /\ SerialSort(pts, a, b, mid, dimension) = g[<<b, mid>>]
                 /\ IsSort(g, pts, a, b, mid, dimension)
    BY <2>1, SortUnfolded
  <2>3. PICK h : /\ SerialSort(pts, a, mid, e, dimension) = h[<<mid, e>>]
                 /\ IsSort(h, pts, a, mid, e, dimension)
    BY <2>1, SortUnfolded
  <2>4. \A x \in b .. mid, y \in b .. mid : x < y => f[<<x, y>>] = g[<<x, y>>]
    BY <1>1, <2>1, <2>2, SortUnique
  <2>5. \A x \in mid .. e, y \in mid .. e : x < y => f[<<x, y>>] = h[<<x, y>>]
    BY <1>1, <2>1, <2>3, SortUnique
  <2>6. f[<<b, mid>>] = g[<<b, mid>>] /\ f[<<mid, e>>] = h[<<mid, e>>]
    BY <2>1, <2>4, <2>5
  <2> QED
    BY <1>1, <1>2, <1>4, <2>1, <2>2, <2>3, <2>6 DEF SortEquation
<1> QED
  BY <1>3, <1>4
(* What it returns is the run of its range. *)
LEMMA SerialIsRun ==
  ASSUME NEW pts, NEW a, NEW dimension, IsVector(pts, a, dimension)
  PROVE  \A b, e \in 0 .. Len(a) :
           b < e => \E q : IsRun(Range(a), Coordinates(pts, a, dimension), a,
                                 SerialSort(pts, a, b, e, dimension), q, b, e)
<1>0. PICK K : K = Coordinates(pts, a, dimension)
  OBVIOUS
<1> DEFINE Good(b, e) == \E q : IsRun(Range(a), K, a, SerialSort(pts, a, b, e, dimension), q, b, e)
           P == {n \in Nat : \A b, e \in 0 .. Len(a) : b < e /\ e - b <= n => Good(b, e)}
<1> HIDE DEF Good
<1>1. 0 \in P
  <2> SUFFICES ASSUME NEW b \in 0 .. Len(a), NEW e \in 0 .. Len(a), b < e, e - b <= 0 PROVE FALSE
    OBVIOUS
  <2> QED
    OBVIOUS
<1>2. ASSUME NEW n \in Nat, n \in P PROVE n + 1 \in P
  <2> SUFFICES ASSUME NEW b \in 0 .. Len(a), NEW e \in 0 .. Len(a), b < e, e - b <= n + 1
               PROVE  Good(b, e)
    <3>1. n + 1 \in Nat
      OBVIOUS
    <3> QED
      BY <3>1
  <2>1. b \in Nat /\ e \in Nat /\ e <= Len(a) /\ Len(a) \in Nat
    BY CoordinatesOfVector
  <2>2. CASE e - b = 1
    <3>1. b + 1 \in 1 .. Len(a) /\ a[b + 1] \in Range(a)
      BY <2>1, <2>2, CoordinatesOfVector
    <3>2. PICK s : s = SerialSort(pts, a, b, e, dimension) /\ s = <<a[b + 1]>>
      BY <2>1, <2>2, SerialSortSplits
    <3>3. s \in Seq(Range(a)) /\ Len(s) = 1 /\ s[1] = a[b + 1]
      BY <3>1, <3>2
    <3> DEFINE q == [k \in 1 .. 1 |-> b + 1]
    <3>4. q \in [1 .. 1 -> b + 1 .. e] /\ q[1] = b + 1
      BY <2>1
    <3> HIDE DEF q
    <3>5. Picks(s, a, q) /\ InOrder(K, q, 1)
      BY <3>3, <3>4 DEF Picks, InOrder
    <3>6. IsRun(Range(a), K, a, s, q, b, e)
      BY <2>2, <3>3, <3>4, <3>5 DEF IsRun
    <3> QED
      BY <3>2, <3>6 DEF Good
  <2>3. CASE e - b # 1
    <3>1. e - b >= 2
      BY <2>1, <2>3
    <3>2. PICK mid : mid = Mid(b, e) /\ mid \in Nat /\ b < mid /\ mid < e
      BY <2>1, <3>1, MidInside
    <3>3. mid \in 0 .. Len(a) /\ mid - b <= n /\ e - mid <= n
      BY <2>1, <3>2
    <3>4. Good(b, mid) /\ Good(mid, e)
      BY <1>2, <3>2, <3>3
    <3>5. PICK l : l = SerialSort(pts, a, b, mid, dimension)
      OBVIOUS
    <3>6. PICK r : r = SerialSort(pts, a, mid, e, dimension)
      OBVIOUS
    <3>7. PICK ql : IsRun(Range(a), K, a, l, ql, b, mid)
      BY <3>4, <3>5 DEF Good
    <3>8. PICK qr : IsRun(Range(a), K, a, r, qr, mid, e)
      BY <3>4, <3>6 DEF Good
    <3>9. TwoRuns(pts, a, dimension, l, r, ql, qr, b, mid, e)
      BY <1>0, <2>1, <3>2, <3>7, <3>8 DEF TwoRuns
    <3>10. \E q : IsRun(Range(a), K, a, MergeRuns(pts, l, r, dimension), q, b, e)
      BY <1>0, <3>9, MergeIsRun
    <3>11. SerialSort(pts, a, b, e, dimension) = MergeRuns(pts, l, r, dimension)
      BY <2>1, <2>3, <3>2, <3>5, <3>6, SerialSortSplits
    <3> QED
      BY <3>10, <3>11 DEF Good
  <2> QED
    BY <2>2, <2>3
<1>3. Nat \subseteq P
  <2> HIDE DEF P
  <2> QED
    BY <1>1, <1>2, Induction
<1> SUFFICES ASSUME NEW b \in 0 .. Len(a), NEW e \in 0 .. Len(a), b < e PROVE Good(b, e)
  BY <1>0 DEF Good
<1>4. e - b \in Nat
  OBVIOUS
<1>5. e - b \in P
  <2> HIDE DEF P
  <2> QED
    BY <1>3, <1>4
<1> QED
  BY <1>4, <1>5

(* A run takes every position of its range. *)
Covers(K, q, b, e) ==
  /\ \A x, y \in 1 .. e - b : Before(K, q[x], q[y]) => x < y
  /\ \A p \in b + 1 .. e : \E k \in 1 .. e - b : q[k] = p

LEMMA RunCovers ==
  ASSUME NEW V, NEW a, NEW s, NEW q, NEW m \in Nat, NEW K \in [1 .. m -> Nat],
         NEW b \in Nat, NEW e \in Nat, b <= e, e <= m, IsRun(V, K, a, s, q, b, e)
  PROVE  Covers(K, q, b, e)
<1>1. PICK n : n = e - b
  OBVIOUS
<1>2. n \in Nat /\ q \in [1 .. n -> b + 1 .. e] /\ InOrder(K, q, n)
  BY <1>1 DEF IsRun
<1>3. \A x \in 1 .. n : q[x] \in b + 1 .. e /\ q[x] \in 1 .. m
  BY <1>2
<1>4. ASSUME NEW x \in 1 .. n, NEW y \in 1 .. n, Before(K, q[x], q[y]) PROVE x < y
  <2>1. q[x] \in 1 .. m /\ q[y] \in 1 .. m
    BY <1>3
  <2>2. CASE x = y
    BY <1>4, <2>1, <2>2, BeforeIsOrder
  <2>3. CASE y < x
    <3>1. Before(K, q[y], q[x])
      BY <1>2, <2>3 DEF InOrder
    <3> QED
      BY <1>4, <2>1, <3>1, BeforeIsOrder
  <2> QED
    BY <1>2, <2>2, <2>3
<1>5. ASSUME NEW x \in 1 .. n, NEW y \in 1 .. n, q[x] = q[y] PROVE x = y
  <2>1. q[x] \in 1 .. m /\ q[y] \in 1 .. m
    BY <1>3
  <2>2. ~Before(K, q[x], q[y]) /\ ~Before(K, q[y], q[x])
    BY <1>5, <2>1, BeforeIsOrder
  <2>3. ~(x < y) /\ ~(y < x)
    BY <1>2, <2>2 DEF InOrder
  <2> QED
    BY <1>2, <2>3
<1>6. PICK D : D = b + 1 .. e
  OBVIOUS
<1>7. q \in Injection(1 .. n, D)
  BY <1>2, <1>5, <1>6 DEF Injection, IsInjective
<1>8. IsFiniteSet(D) /\ Cardinality(D) = n
  <2>1. b + 1 \in Int /\ e \in Int
    OBVIOUS
  <2>2. IsFiniteSet(D) /\ Cardinality(D) = IF b + 1 > e THEN 0 ELSE e - (b + 1) + 1
    BY <1>6, <2>1, FS_Interval
  <2> QED
    BY <1>1, <2>2
<1>9. Cardinality(1 .. n) = n
  BY <1>2, FS_Interval
<1>10. q \in Surjection(1 .. n, D)
  BY <1>7, <1>8, <1>9, FS_Injection
<1> QED
  BY <1>1, <1>4, <1>6, <1>10 DEF Surjection, Covers

(* So a run is the stable sort of its range. *)
LEMMA RunIsStable ==
  ASSUME NEW pts, NEW a, NEW dimension, IsVector(pts, a, dimension),
         NEW b \in Nat, NEW e \in Nat, b <= e, e <= Len(a),
         NEW s, NEW q, IsRun(Range(a), Coordinates(pts, a, dimension), a, s, q, b, e)
  PROVE  IsStableSortOf(pts, s, SubSeq(a, b + 1, e), dimension)
<1>1. PICK K : K = Coordinates(pts, a, dimension)
  OBVIOUS
<1>2. PICK n : n = e - b
  OBVIOUS
<1>3. PICK v : v = SubSeq(a, b + 1, e)
  OBVIOUS
<1>4. /\ Len(a) \in Nat /\ K \in [1 .. Len(a) -> Nat]
      /\ \A x \in 1 .. Len(a) : a[x] \in Range(a) /\ K[x] = At(pts, a[x], dimension)
  BY <1>1, CoordinatesOfVector
<1>5. /\ \A x, y \in 1 .. n : Before(K, q[x], q[y]) => x < y
      /\ \A p \in b + 1 .. e : \E k \in 1 .. n : q[k] = p
  <2>1. PICK V : V = Range(a)
    OBVIOUS
  <2>2. IsRun(V, K, a, s, q, b, e)
    BY <1>1, <2>1
  <2>3. Covers(K, q, b, e)
    BY <1>4, <2>2, RunCovers
  <2> QED
    BY <1>2, <2>3 DEF Covers
<1>6. /\ n \in Nat /\ q \in [1 .. n -> b + 1 .. e] /\ InOrder(K, q, n) /\ Len(s) = n
      /\ \A k \in 1 .. n : s[k] = a[q[k]]
  BY <1>1, <1>2 DEF IsRun, Picks
<1>7. \A i \in 1 .. n : b + i \in 1 .. Len(a) /\ b + i \in b + 1 .. e
  BY <1>2, <1>4
<1>8. v \in Seq(Range(a)) /\ Len(v) = n /\ \A i \in 1 .. n : v[i] = a[b + i]
  <2>1. \A i \in b + 1 .. e : a[i] \in Range(a)
    BY <1>4
  <2>2. b + 1 \in Int /\ e \in Int
    OBVIOUS
  <2>3. /\ v \in Seq(Range(a))
        /\ Len(v) = IF b + 1 <= e THEN e - (b + 1) + 1 ELSE 0
        /\ \A i \in 1 .. e - (b + 1) + 1 : v[i] = a[(b + 1) + i - 1]
    BY <1>3, <2>1, <2>2, SubSeqProperties
  <2>4. e - (b + 1) + 1 = n /\ Len(v) = n
    BY <1>2, <2>3
  <2>5. \A i \in 1 .. n : (b + 1) + i - 1 = b + i
    OBVIOUS
  <2> QED
    BY <2>3, <2>4, <2>5
<1>9. DOMAIN v = 1 .. n
  BY <1>8
<1> DEFINE before(i, j) == \/ At(pts, v[i], dimension) < At(pts, v[j], dimension)
                           \/ At(pts, v[i], dimension) = At(pts, v[j], dimension) /\ i < j
<1>10. ASSUME NEW i \in 1 .. n, NEW j \in 1 .. n
       PROVE  before(i, j) <=> Before(K, b + i, b + j)
  <2>1. At(pts, v[i], dimension) = K[b + i] /\ At(pts, v[j], dimension) = K[b + j]
    BY <1>4, <1>7, <1>8
  <2>2. i < j <=> b + i < b + j
    BY <1>6
  <2> QED
    BY <2>1, <2>2 DEF Before
<1> HIDE DEF before
<1>11. ASSUME NEW i \in 1 .. n
       PROVE  s[1 + Cardinality({j \in 1 .. n : before(j, i)})] = v[i]
  <2>1. PICK A : A = {j \in 1 .. n : before(j, i)}
    OBVIOUS
  <2>2. PICK k \in 1 .. n : q[k] = b + i
    BY <1>5, <1>7
  <2>3. PICK R : R = 1 .. k - 1
    OBVIOUS
  <2>4. R \subseteq 1 .. n /\ \A m \in R : m < k
    BY <1>6, <2>3
  <2>5. \A m \in 1 .. n : q[m] - b \in 1 .. n /\ b + (q[m] - b) = q[m]
    BY <1>2, <1>6
  <2> DEFINE g == [m \in R |-> q[m] - b]
  <2>6. ASSUME NEW m \in R PROVE g[m] \in A
    <3>1. Before(K, q[m], q[k])
      BY <1>6, <2>4 DEF InOrder
    <3>2. before(q[m] - b, i)
      BY <1>10, <2>2, <2>4, <2>5, <3>1
    <3> QED
      BY <2>1, <2>4, <2>5, <3>2
  <2>7. ASSUME NEW x \in R, NEW y \in R, g[x] = g[y] PROVE x = y
    <3>1. q[x] = q[y] /\ x \in 1 .. n /\ y \in 1 .. n
      BY <1>6, <2>4, <2>7
    <3>2. q[x] \in 1 .. Len(a) /\ ~Before(K, q[x], q[x])
      <4>1. q[x] \in 1 .. Len(a)
        BY <1>4, <1>6, <3>1
      <4> QED
        BY <1>4, <4>1, BeforeIsOrder
    <3>3. ~(x < y) /\ ~(y < x)
      BY <1>6, <3>1, <3>2 DEF InOrder
    <3> QED
      BY <1>6, <3>1, <3>3
  <2>8. ASSUME NEW j \in A PROVE \E m \in R : g[m] = j
    <3>1. j \in 1 .. n /\ Before(K, b + j, b + i)
      BY <1>10, <2>1
    <3>2. PICK m \in 1 .. n : q[m] = b + j
      BY <1>5, <1>7, <3>1
    <3>3. m < k
      BY <1>5, <2>2, <3>1, <3>2
    <3>4. m \in R
      BY <1>6, <2>3, <3>3
    <3> QED
      BY <1>6, <3>1, <3>2, <3>4
  <2>9. g \in Bijection(R, A)
    <3>1. g \in [R -> A]
      BY <2>6
    <3> HIDE DEF g
    <3> QED
      BY <2>7, <2>8, <3>1 DEF Bijection, Injection, Surjection, IsInjective
  <2>10. IsFiniteSet(R) /\ Cardinality(R) = k - 1
    <3>1. 1 \in Int /\ k - 1 \in Int
      BY <1>6
    <3>2. IsFiniteSet(R) /\ Cardinality(R) = IF 1 > k - 1 THEN 0 ELSE k - 1 - 1 + 1
      BY <2>3, <3>1, FS_Interval
    <3> QED
      BY <1>6, <3>2
  <2>11. Cardinality(A) = k - 1
    BY <2>9, <2>10, FS_Bijection DEF ExistsBijection
  <2>12. s[k] = v[i]
    BY <1>6, <1>8, <2>2
  <2>13. 1 + Cardinality(A) = k
    BY <1>6, <2>11
  <2> QED
    BY <2>1, <2>12, <2>13
<1>12. IsStableSortOf(pts, s, v, dimension)
  <2>1. /\ Len(s) = Len(v)
        /\ \A i \in DOMAIN v : s[1 + Cardinality({j \in DOMAIN v : before(j, i)})] = v[i]
    BY <1>6, <1>8, <1>9, <1>11
  <2> QED
    BY <2>1 DEF IsStableSortOf, before
<1> QED
  BY <1>3, <1>12

(* The recursion of merge_sort, run in one thread, is a stable sort: for any vector of     *)
(* rows, any range of it and any coordinate.                                               *)
THEOREM SerialIsStable ==
  ASSUME NEW pts, NEW a, NEW dimension, IsVector(pts, a, dimension),
         NEW b \in 0 .. Len(a), NEW e \in 0 .. Len(a), b < e
  PROVE  IsStableSortOf(pts, SerialSort(pts, a, b, e, dimension), SubSeq(a, b + 1, e), dimension)
<1>1. PICK s : s = SerialSort(pts, a, b, e, dimension)
  OBVIOUS
<1>2. PICK q : IsRun(Range(a), Coordinates(pts, a, dimension), a, s, q, b, e)
  BY <1>1, SerialIsRun
<1>3. b \in Nat /\ e \in Nat /\ b <= e /\ e <= Len(a)
  BY CoordinatesOfVector
<1> QED
  BY <1>1, <1>2, <1>3, RunIsStable

-----------------------------------------------------------------------------
(* SumFunction, the loop of KNN::distance: a fold over the sets of indexes. *)

AnyOf(s) == CHOOSE x \in s : TRUE

SumEquation(g, f, s) ==
  g[s] = IF s = {} THEN 0 ELSE f[AnyOf(s)] + g[s \ {AnyOf(s)}]

IsSum(g, f) ==
  g = [s \in SUBSET DOMAIN f |-> IF s = {} THEN 0 ELSE f[AnyOf(s)] + g[s \ {AnyOf(s)}]]

LEMMA SumIsChosen ==
  ASSUME NEW f
  PROVE  SumFunction(f) = (CHOOSE g : IsSum(g, f))[DOMAIN f]
  BY DEF SumFunction, SumFunctionOnSet, FoldFunctionOnSet, MapThenFoldSet, IsSum, AnyOf

(* Without one of its elements a finite set is smaller by one. *)
LEMMA OneTaken ==
  ASSUME NEW D, IsFiniteSet(D), NEW s \in SUBSET D
  PROVE  /\ Cardinality(s) \in Nat /\ (Cardinality(s) = 0 <=> s = {})
         /\ s # {} => /\ AnyOf(s) \in s /\ s \ {AnyOf(s)} \in SUBSET D
                      /\ Cardinality(s \ {AnyOf(s)}) = Cardinality(s) - 1
<1>1. IsFiniteSet(s)
  BY FS_Subset
<1>2. Cardinality(s) \in Nat /\ (Cardinality(s) = 0 <=> s = {})
  BY <1>1, FS_CardinalityType, FS_EmptySet
<1>3. ASSUME s # {} PROVE AnyOf(s) \in s
  BY <1>3 DEF AnyOf
<1>4. ASSUME s # {} PROVE Cardinality(s \ {AnyOf(s)}) = Cardinality(s) - 1
  <2>1. PICK x \in s : x = AnyOf(s)
    BY <1>3, <1>4
  <2>2. Cardinality(s \ {x}) = Cardinality(s) - 1
    BY <1>1, FS_RemoveElement
  <2> QED
    BY <2>1, <2>2
<1> QED
  BY <1>2, <1>3, <1>4

LEMMA SumExists ==
  ASSUME NEW f, IsFiniteSet(DOMAIN f)
  PROVE  \E g : IsSum(g, f)
<1> DEFINE D == DOMAIN f
           Good(g, n) == \A s \in SUBSET D : Cardinality(s) <= n => SumEquation(g, f, s)
           P == {n \in Nat : \E g : Good(g, n)}
<1>1. 0 \in P
  <2> DEFINE g == [s \in SUBSET D |-> 0]
  <2>1. ASSUME NEW s \in SUBSET D, Cardinality(s) <= 0 PROVE SumEquation(g, f, s)
    <3>1. PICK m \in Nat : m = Cardinality(s) /\ (m = 0 <=> s = {})
      BY OneTaken
    <3>2. s = {} /\ g[s] = 0
      BY <2>1, <3>1
    <3> QED
      BY <3>2 DEF SumEquation
  <2>2. Good(g, 0)
    BY <2>1
  <2> HIDE DEF Good
  <2> QED
    BY <2>2
<1>2. ASSUME NEW n \in Nat, n \in P PROVE n + 1 \in P
  <2>1. PICK g : Good(g, n)
    BY <1>2
  <2> DEFINE h == [s \in SUBSET D |-> IF Cardinality(s) = n + 1
                                       THEN f[AnyOf(s)] + g[s \ {AnyOf(s)}] ELSE g[s]]
  <2>2. ASSUME NEW s \in SUBSET D, Cardinality(s) <= n + 1 PROVE SumEquation(h, f, s)
    <3>1. PICK m \in Nat : m = Cardinality(s) /\ (m = 0 <=> s = {}) /\ m <= n + 1
      BY <2>2, OneTaken
    <3>2. PICK r : r = s \ {AnyOf(s)}
      OBVIOUS
    <3>3. s # {} => r \in SUBSET D /\ Cardinality(r) = m - 1
      BY <3>1, <3>2, OneTaken
    <3>4. s # {} => h[r] = g[r]
      BY <1>2, <3>1, <3>3
    <3>5. CASE m = n + 1
      <4>1. s # {}
        BY <3>1, <3>5
      <4>2. h[s] = f[AnyOf(s)] + g[s \ {AnyOf(s)}]
        BY <3>1, <3>5
      <4> HIDE DEF h
      <4> QED
        BY <3>2, <3>4, <4>1, <4>2 DEF SumEquation
    <3>6. CASE m # n + 1
      <4>1. h[s] = g[s] /\ SumEquation(g, f, s)
        BY <1>2, <2>1, <3>1, <3>6
      <4> HIDE DEF h
      <4> QED
        BY <3>2, <3>4, <4>1 DEF SumEquation
    <3> QED
      BY <3>5, <3>6
  <2> HIDE DEF h
  <2>3. Good(h, n + 1)
    BY <2>2
  <2>4. n + 1 \in Nat
    OBVIOUS
  <2> HIDE DEF Good
  <2> QED
    BY <2>3, <2>4
<1>3. Nat \subseteq P
  <2> HIDE DEF P
  <2> QED
    BY <1>1, <1>2, Induction
<1>4. PICK n \in Nat : n = Cardinality(D)
  BY FS_CardinalityType
<1>5. PICK g : Good(g, n)
  BY <1>3
<1> DEFINE h == [s \in SUBSET D |-> g[s]]
<1>6. ASSUME NEW s \in SUBSET D
      PROVE  g[s] = IF s = {} THEN 0 ELSE f[AnyOf(s)] + h[s \ {AnyOf(s)}]
  <2>1. Cardinality(s) <= n
    BY <1>4, FS_Subset
  <2>2. SumEquation(g, f, s)
    BY <1>5, <2>1
  <2>3. s \ {AnyOf(s)} \in SUBSET D
    OBVIOUS
  <2> QED
    BY <2>2, <2>3 DEF SumEquation
<1>7. IsSum(h, f)
  BY <1>6 DEF IsSum
<1> QED
  BY <1>7

(* A sum of natural numbers is one, and none of them is greater. *)
LEMMA SumCovers ==
  ASSUME NEW f, IsFiniteSet(DOMAIN f), \A i \in DOMAIN f : f[i] \in Nat
  PROVE  SumFunction(f) \in Nat /\ \A i \in DOMAIN f : f[i] <= SumFunction(f)
<1>1. PICK g : g = (CHOOSE x : IsSum(x, f)) /\ IsSum(g, f)
  BY SumExists
<1>2. ASSUME NEW s \in SUBSET DOMAIN f PROVE SumEquation(g, f, s)
  <2>1. g[s] = IF s = {} THEN 0 ELSE f[AnyOf(s)] + g[s \ {AnyOf(s)}]
    BY <1>1 DEF IsSum
  <2> QED
    BY <2>1 DEF SumEquation
<1> DEFINE Good(s) == g[s] \in Nat /\ \A i \in s : f[i] <= g[s]
           P == {n \in Nat : \A s \in SUBSET DOMAIN f : Cardinality(s) = n => Good(s)}
<1>3. 0 \in P
  <2>1. ASSUME NEW s \in SUBSET DOMAIN f, Cardinality(s) = 0 PROVE Good(s)
    <3>1. s = {}
      BY <2>1, OneTaken
    <3>2. g[s] = 0
      BY <1>2, <3>1 DEF SumEquation
    <3> QED
      BY <3>1, <3>2
  <2> HIDE DEF Good
  <2> QED
    BY <2>1
<1>4. ASSUME NEW n \in Nat, n \in P PROVE n + 1 \in P
  <2>1. ASSUME NEW s \in SUBSET DOMAIN f, Cardinality(s) = n + 1 PROVE Good(s)
    <3>1. PICK x : x = AnyOf(s)
      OBVIOUS
    <3>2. PICK r : r = s \ {x}
      OBVIOUS
    <3>3. s # {}
      <4>1. PICK m \in Nat : m = Cardinality(s) /\ (m = 0 <=> s = {})
        BY OneTaken
      <4> QED
        BY <2>1, <4>1
    <3>4. x \in s /\ r \in SUBSET DOMAIN f /\ Cardinality(r) = n
      BY <2>1, <3>1, <3>2, <3>3, OneTaken
    <3>5. Good(r)
      BY <1>4, <3>4
    <3>6. g[s] = f[x] + g[r]
      BY <1>2, <3>1, <3>2, <3>3 DEF SumEquation
    <3>7. f[x] \in Nat
      BY <3>4
    <3>8. g[s] \in Nat /\ f[x] <= g[s] /\ g[r] <= g[s]
      BY <3>5, <3>6, <3>7
    <3>9. ASSUME NEW i \in s PROVE f[i] <= g[s]
      <4>1. f[i] \in Nat /\ (i = x \/ i \in r)
        BY <3>2
      <4> QED
        BY <3>5, <3>8, <4>1
    <3> QED
      BY <3>8, <3>9
  <2>2. n + 1 \in Nat
    OBVIOUS
  <2> HIDE DEF Good
  <2> QED
    BY <2>1, <2>2
<1>5. Nat \subseteq P
  <2> HIDE DEF P
  <2> QED
    BY <1>3, <1>4, Induction
<1>6. Good(DOMAIN f)
  <2>1. Cardinality(DOMAIN f) \in Nat
    BY FS_CardinalityType
  <2> QED
    BY <1>5, <2>1
<1>7. SumFunction(f) = g[DOMAIN f]
  BY <1>1, SumIsChosen
<1> QED
  BY <1>6, <1>7

(* No coordinate of two points is farther apart than the points are: what pruning rests on. *)
LEMMA DistanceCovers ==
  ASSUME NEW query, NEW point,
         \A d \in Dimensions : query[d + 1] \in Int /\ point[d + 1] \in Int
  PROVE  /\ distance(query, point) \in Nat
         /\ \A d \in Dimensions : square(query[d + 1] - point[d + 1]) <= distance(query, point)
<1>1. \A x \in Int : square(x) \in Nat
  BY DEF square
<1> DEFINE f == [d \in 1 .. num_dimensions |-> square(query[d] - point[d])]
<1>2. ASSUME NEW d \in 1 .. num_dimensions
      PROVE  f[d] = square(query[d] - point[d]) /\ f[d] \in Nat
  <2>1. d - 1 \in Dimensions /\ (d - 1) + 1 = d
    BY DimensionsAssumption DEF Dimensions
  <2>2. query[d] \in Int /\ point[d] \in Int
    BY <2>1
  <2>3. query[d] - point[d] \in Int
    BY <2>2
  <2> QED
    BY <1>1, <2>3
<1>3. DOMAIN f = 1 .. num_dimensions
  OBVIOUS
<1> HIDE DEF f
<1>4. IsFiniteSet(DOMAIN f)
  BY <1>3, FS_Interval, DimensionsAssumption
<1>5. SumFunction(f) \in Nat /\ \A i \in DOMAIN f : f[i] <= SumFunction(f)
  BY <1>2, <1>3, <1>4, SumCovers
<1>6. distance(query, point) = SumFunction(f)
  BY DEF distance, f
<1>7. ASSUME NEW d \in Dimensions
      PROVE  square(query[d + 1] - point[d + 1]) <= distance(query, point)
  <2>1. PICK i \in 1 .. num_dimensions : i = d + 1
    BY DimensionsAssumption DEF Dimensions
  <2>2. f[i] = square(query[i] - point[i]) /\ f[i] <= SumFunction(f)
    BY <1>2, <1>3, <1>5
  <2> QED
    BY <1>6, <2>1, <2>2
<1> QED
  BY <1>5, <1>6, <1>7
=============================================================================

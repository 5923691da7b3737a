-------------------------- MODULE TreeData_proofs --------------------------
(***************************************************************************)
(* What a tree build computes, on at least one core, for any training set, *)
(* any schedule and any calls of pthread_create that fail: the nodes built *)
(* are those of the sequential recursion, a finished tree is fit for the   *)
(* search, and points that are spread out do not exhaust the stack.        *)
(*                                                                         *)
(* The first part is about the sequential tree alone: the vector that      *)
(* reaches a node is a half of the one that reaches its parent             *)
(* (SequentialChild), and the halves share no row and lose none.  The      *)
(* second part carries the data of the calls along with the invariant of   *)
(* TreeBuild_proofs, which knows nothing of it: each call has the vector   *)
(* the sequential recursion gives its node, whoever runs it.               *)
(***************************************************************************)
EXTENDS TreeBuild_proofs

(* The sequential tree: the vector at each node of a path. *)

IsPathLoop(f, t, p, m) ==
  /\ f[0] = Rows(t)
  /\ \A n \in 1 .. m : f[n] = SequentialHalf(t, SubSeq(p, 1, n - 1), p[n], f[n - 1])

LEMMA PathExists ==
  ASSUME NEW t, NEW p, NEW m \in Nat
  PROVE  \E f : IsPathLoop(f, t, p, m)
<1> DEFINE P == {n \in Nat : \E f : IsPathLoop(f, t, p, n)}
<1>1. 0 \in P
  <2> DEFINE f == [n \in {0} |-> Rows(t)]
  <2>1. IsPathLoop(f, t, p, 0)
    BY DEF IsPathLoop
  <2> QED
    BY <2>1
<1>2. ASSUME NEW n \in Nat, n \in P PROVE n + 1 \in P
  <2>1. PICK f : IsPathLoop(f, t, p, n)
    BY <1>2
  <2>2. PICK x : x = SequentialHalf(t, SubSeq(p, 1, n), p[n + 1], f[n])
    OBVIOUS
  <2> DEFINE g == [i \in 0 .. n + 1 |-> IF i = n + 1 THEN x ELSE f[i]]
  <2>3. g[n + 1] = x /\ g[0] = f[0] /\ \A i \in 0 .. n : g[i] = f[i]
    BY <1>2
  <2> HIDE DEF g
  <2>4. \A i \in 1 .. n + 1 : g[i] = SequentialHalf(t, SubSeq(p, 1, i - 1), p[i], g[i - 1])
    <3> SUFFICES ASSUME NEW i \in 1 .. n + 1
                 PROVE  g[i] = SequentialHalf(t, SubSeq(p, 1, i - 1), p[i], g[i - 1])
      OBVIOUS
    <3>1. CASE i = n + 1
      <4>1. i - 1 = n /\ g[n] = f[n]
        BY <1>2, <2>3, <3>1
      <4> QED
        BY <2>2, <2>3, <3>1, <4>1
    <3>2. CASE i # n + 1
      <4>1. i \in 1 .. n /\ g[i] = f[i] /\ g[i - 1] = f[i - 1]
        BY <1>2, <2>3, <3>2
      <4> QED
        BY <2>1, <4>1 DEF IsPathLoop
    <3> QED
      BY <3>1, <3>2
  <2>5. IsPathLoop(g, t, p, n + 1)
    BY <2>1, <2>3, <2>4 DEF IsPathLoop
  <2>6. n + 1 \in Nat
    OBVIOUS
  <2> QED
    BY <2>5, <2>6
<1>3. Nat \subseteq P
  <2> HIDE DEF P
  <2> QED
    BY <1>1, <1>2, Induction
<1> QED
  BY <1>3

LEMMA PointsUnfolded ==
  ASSUME NEW t, NEW p, Len(p) \in Nat
  PROVE  \E f : SequentialPoints(t, p) = f[Len(p)] /\ IsPathLoop(f, t, p, Len(p))
<1> DEFINE IsIt(f) ==
      f = [i \in 0 .. Len(p) |->
             IF i = 0 THEN Rows(t)
             ELSE SequentialHalf(t, SubSeq(p, 1, i - 1), p[i], f[i - 1])]
<1>1. SequentialPoints(t, p) = (CHOOSE f : IsIt(f))[Len(p)]
  BY DEF SequentialPoints
<1>2. PICK h : IsPathLoop(h, t, p, Len(p))
  BY PathExists
<1> DEFINE g == [n \in 0 .. Len(p) |-> h[n]]
<1>3. IsIt(g)
  <2>1. \A n \in 0 .. Len(p) :
          g[n] = IF n = 0 THEN Rows(t)
                 ELSE SequentialHalf(t, SubSeq(p, 1, n - 1), p[n], g[n - 1])
    BY <1>2 DEF IsPathLoop
  <2> QED
    BY <2>1
<1>4. PICK f : f = (CHOOSE x : IsIt(x)) /\ IsIt(f)
  <2> HIDE DEF IsIt
  <2> QED
    BY <1>3
<1>5. IsPathLoop(f, t, p, Len(p))
  <2>1. \A n \in 0 .. Len(p) :
          f[n] = IF n = 0 THEN Rows(t)
                 ELSE SequentialHalf(t, SubSeq(p, 1, n - 1), p[n], f[n - 1])
    BY <1>4
  <2>2. f[0] = Rows(t)
    BY <2>1
  <2>3. \A n \in 1 .. Len(p) : n \in 0 .. Len(p) /\ n # 0
    OBVIOUS
  <2> QED
    BY <2>1, <2>2, <2>3 DEF IsPathLoop
<1> QED
  BY <1>1, <1>4, <1>5

(* The start of a path. *)
LEMMA PathStart ==
  ASSUME NEW p \in Seq(Sides), NEW n \in 0 .. Len(p)
  PROVE  /\ Len(p) \in Nat /\ n \in Nat
         /\ SubSeq(p, 1, n) \in Seq(Sides) /\ Len(SubSeq(p, 1, n)) = n
         /\ \A x \in 1 .. n : SubSeq(p, 1, n)[x] = p[x]
         /\ \A x \in 0 .. n : SubSeq(SubSeq(p, 1, n), 1, x) = SubSeq(p, 1, x)
<1>1. Len(p) \in Nat /\ n \in Nat /\ \A x \in 1 .. Len(p) : p[x] \in Sides
  BY LenProperties, ElementOfSeq
<1>2. ASSUME NEW q, NEW m \in Nat, q \in Seq(Sides), m <= Len(q)
      PROVE  /\ SubSeq(q, 1, m) \in Seq(Sides) /\ Len(SubSeq(q, 1, m)) = m
             /\ \A x \in 1 .. m : SubSeq(q, 1, m)[x] = q[x]
  <2>1. \A x \in 1 .. m : q[x] \in Sides
    BY <1>2, ElementOfSeq
  <2> QED
    BY <2>1, SubSeqProperties
<1>3. PICK s : s = SubSeq(p, 1, n)
  OBVIOUS
<1>4. s \in Seq(Sides) /\ Len(s) = n /\ \A x \in 1 .. n : s[x] = p[x]
  BY <1>1, <1>2, <1>3
<1>5. ASSUME NEW x \in 0 .. n PROVE SubSeq(s, 1, x) = SubSeq(p, 1, x)
  <2>1. x \in Nat /\ x <= Len(s) /\ x <= Len(p) /\ \A y \in 1 .. x : y \in 1 .. n
    BY <1>1, <1>4
  <2>2. /\ SubSeq(s, 1, x) \in Seq(Sides) /\ Len(SubSeq(s, 1, x)) = x
        /\ \A y \in 1 .. x : SubSeq(s, 1, x)[y] = s[y]
    BY <1>2, <1>4, <2>1
  <2>3. /\ SubSeq(p, 1, x) \in Seq(Sides) /\ Len(SubSeq(p, 1, x)) = x
        /\ \A y \in 1 .. x : SubSeq(p, 1, x)[y] = p[y]
    BY <1>2, <2>1
  <2>4. \A y \in 1 .. x : SubSeq(s, 1, x)[y] = SubSeq(p, 1, x)[y]
    BY <1>4, <2>1, <2>2, <2>3
  <2> QED
    BY <2>2, <2>3, <2>4, SeqEqual
<1> QED
  BY <1>1, <1>3, <1>4, <1>5

LEMMA PointsOfStart ==
  ASSUME NEW t, NEW p \in Seq(Sides), NEW f, IsPathLoop(f, t, p, Len(p)), NEW n \in 0 .. Len(p)
  PROVE  f[n] = SequentialPoints(t, SubSeq(p, 1, n))
<1>1. PICK q : q = SubSeq(p, 1, n)
  OBVIOUS
<1>2. /\ Len(p) \in Nat /\ n \in Nat /\ Len(q) = n
      /\ \A x \in 1 .. n : q[x] = p[x]
      /\ \A x \in 0 .. n : SubSeq(q, 1, x) = SubSeq(p, 1, x)
  BY <1>1, PathStart
<1>3. PICK g : SequentialPoints(t, q) = g[n] /\ IsPathLoop(g, t, q, n)
  BY <1>2, PointsUnfolded
<1> DEFINE P == {x \in 0 .. n : f[x] = g[x]}
<1>4. 0 \in P
  BY <1>2, <1>3 DEF IsPathLoop
<1>5. ASSUME NEW x \in 0 .. n - 1, x \in P PROVE x + 1 \in P
  <2>1. x + 1 \in 1 .. n /\ x + 1 \in 1 .. Len(p) /\ (x + 1) - 1 = x /\ f[x] = g[x]
    BY <1>2, <1>5
  <2>2. f[x + 1] = SequentialHalf(t, SubSeq(p, 1, x), p[x + 1], f[x])
    BY <2>1 DEF IsPathLoop
  <2>3. g[x + 1] = SequentialHalf(t, SubSeq(q, 1, x), q[x + 1], g[x])
    BY <1>3, <2>1 DEF IsPathLoop
  <2>4. q[x + 1] = p[x + 1] /\ SubSeq(q, 1, x) = SubSeq(p, 1, x)
    BY <1>2, <2>1
  <2>5. f[x + 1] = g[x + 1]
    BY <2>1, <2>2, <2>3, <2>4
  <2>6. x + 1 \in 0 .. n
    BY <1>2
  <2> QED
    BY <2>5, <2>6
<1>6. \A x \in 0 .. n : x \in P
  <2> HIDE DEF P
  <2> QED
    BY <1>2, <1>4, <1>5, InductionTo
<1> QED
  BY <1>1, <1>2, <1>3, <1>6

LEMMA SequentialRoot ==
  ASSUME NEW t
  PROVE  SequentialPoints(t, <<>>) = Rows(t)
<1>1. PICK p : p = <<>> /\ Len(p) = 0
  OBVIOUS
<1>2. PICK f : SequentialPoints(t, p) = f[0] /\ IsPathLoop(f, t, p, 0)
  BY <1>1, PointsUnfolded
<1> QED
  BY <1>1, <1>2 DEF IsPathLoop

(* The next node of a path has the half that its side names. *)
LEMMA SequentialNext ==
  ASSUME NEW t, NEW p \in Seq(Sides), NEW n \in 0 .. Len(p) - 1
  PROVE  SequentialPoints(t, SubSeq(p, 1, n + 1)) =
           SequentialHalf(t, SubSeq(p, 1, n), p[n + 1], SequentialPoints(t, SubSeq(p, 1, n)))
<1>1. Len(p) \in Nat
  BY LenProperties
<1>2. PICK f : IsPathLoop(f, t, p, Len(p))
  BY <1>1, PathExists
<1>3. n \in 0 .. Len(p) /\ n + 1 \in 0 .. Len(p) /\ n + 1 \in 1 .. Len(p) /\ (n + 1) - 1 = n
  BY <1>1
<1>4. f[n] = SequentialPoints(t, SubSeq(p, 1, n))
  BY <1>2, <1>3, PointsOfStart
<1>5. f[n + 1] = SequentialPoints(t, SubSeq(p, 1, n + 1))
  BY <1>2, <1>3, PointsOfStart
<1>6. f[n + 1] = SequentialHalf(t, SubSeq(p, 1, n), p[n + 1], f[n])
  BY <1>2, <1>3 DEF IsPathLoop
<1> QED
  BY <1>4, <1>5, <1>6

LEMMA SequentialChild ==
  ASSUME NEW t, NEW p \in Seq(Sides), NEW side \in Sides
  PROVE  SequentialPoints(t, Append(p, side)) =
           SequentialHalf(t, p, side, SequentialPoints(t, p))
<1>1. PICK q : q = Append(p, side)
  OBVIOUS
<1>2. /\ q \in Seq(Sides) /\ Len(q) = Len(p) + 1 /\ q[Len(p) + 1] = side
      /\ SubSeq(q, 1, Len(p)) = SubSeq(p, 1, Len(p)) /\ SubSeq(p, 1, Len(p)) = p
      /\ Len(p) \in Nat
  BY <1>1, PathAppend, LenProperties
<1>3. SubSeq(q, 1, Len(p) + 1) = q
  BY <1>2, SubSeqFull
<1>4. PICK n : n = Len(p)
  OBVIOUS
<1>5. n \in 0 .. Len(q) - 1
  BY <1>2, <1>4
<1>6. SequentialPoints(t, SubSeq(q, 1, n + 1)) =
        SequentialHalf(t, SubSeq(q, 1, n), q[n + 1], SequentialPoints(t, SubSeq(q, 1, n)))
  BY <1>2, <1>5, SequentialNext
<1> QED
  BY <1>1, <1>2, <1>3, <1>4, <1>6

-----------------------------------------------------------------------------
(* What a half holds. *)

IsTraining(t) == t \in Seq([1 .. num_dimensions -> Nat])

LEMMA VectorOf ==
  ASSUME NEW t, IsTraining(t), NEW a \in Seq(DOMAIN t), NEW d \in Dimensions
  PROVE  IsVector(t, a, d)
<1>1. d + 1 \in 1 .. num_dimensions
  BY DimensionsAssumption DEF Dimensions
<1>2. \A i \in DOMAIN t : At(t, i, d) \in Nat
  <2> SUFFICES ASSUME NEW i \in DOMAIN t PROVE t[i][d + 1] \in Nat
    BY DEF At
  <2>1. t[i] \in [1 .. num_dimensions -> Nat]
    BY DEF IsTraining
  <2> QED
    BY <1>1, <2>1
<1> QED
  BY <1>2 DEF IsVector

(* The coordinate of a level: cycle_dimensions counts them modulo num_dimensions. *)
LEMMA LevelDimension ==
  ASSUME NEW n \in Nat
  PROVE  /\ n % num_dimensions \in Dimensions
         /\ cycle_dimensions(n % num_dimensions) = (n + 1) % num_dimensions
         /\ 0 % num_dimensions = 0
<1>1. PICK k \in Nat : k = num_dimensions /\ k > 0
  BY DimensionsAssumption
<1>2. PICK q \in Nat, r \in Nat : r = n % k /\ r < k /\ n = k * q + r
  <2>1. n % k \in Nat /\ n % k < k /\ n \div k \in Nat /\ n = k * (n \div k) + (n % k)
    BY <1>1
  <2> QED
    BY <2>1
<1>3. PICK u \in Nat, v \in Nat : v = (n + 1) % k /\ v < k /\ n + 1 = k * u + v
  <2>1. /\ (n + 1) % k \in Nat /\ (n + 1) % k < k /\ (n + 1) \div k \in Nat
        /\ n + 1 = k * ((n + 1) \div k) + ((n + 1) % k)
    BY <1>1
  <2> QED
    BY <2>1
<1>4. ASSUME NEW x \in Nat, NEW y \in Nat, x < y PROVE k * y >= k * x + k
  <2>1. PICK z \in Nat : y = x + 1 + z
    <3>1. y - x - 1 \in Nat /\ y = x + 1 + (y - x - 1)
      BY <1>4
    <3> QED
      BY <3>1
  <2>2. k * y = k * x + k + k * z /\ k * z \in Nat
    BY <1>1, <2>1
  <2> QED
    BY <1>1, <2>2
<1>5. v = IF r < k - 1 THEN r + 1 ELSE 0
  <2>1. k * q \in Nat /\ k * u \in Nat
    BY <1>1
  <2>2. k * q + r + 1 = k * u + v
    BY <1>2, <1>3
  <2>3. ~(u < q)
    <3>1. u < q => k * q >= k * u + k
      BY <1>4
    <3> QED
      BY <1>1, <1>2, <1>3, <2>1, <2>2, <3>1
  <2>4. CASE u = q
    BY <1>1, <1>2, <1>3, <2>1, <2>2, <2>4
  <2>5. CASE q < u
    <3>1. k * u >= k * q + k
      BY <1>4, <2>5
    <3> QED
      BY <1>1, <1>2, <1>3, <2>1, <2>2, <3>1
  <2> QED
    BY <2>3, <2>4, <2>5
<1>6. 0 % k = 0
  BY <1>1
<1> QED
  BY <1>1, <1>2, <1>3, <1>5, <1>6 DEF Dimensions, cycle_dimensions

LEMMA Midpoint ==
  ASSUME NEW a \in Nat, NEW b \in Nat, b <= a
  PROVE  /\ FloatMidpoint(a, b) \in Nat /\ FloatMidpoint(a, b) <= a
         /\ b + 2 <= a => b < FloatMidpoint(a, b)
  BY DEF FloatMidpoint

(* No two rows are within one unit in the last place of each other in coordinate d. *)
SpreadIn(t, d) == \A i, j \in DOMAIN t : i # j => At(t, i, d) - At(t, j, d) \notin -1 .. 1

(* The median m of the first e elements of a: the upper half of them, at positions that q   *)
(* lists, is not below it; the lower half is below it if the points are spread.             *)
Divides(t, a, d, e, m, q) ==
  /\ m \in Nat
  /\ q \in Injection(1 .. e, 1 .. Len(a))
  /\ \A x \in (e \div 2) + 1 .. e : m <= At(t, a[q[x]], d)
  /\ SpreadIn(t, d) /\ Distinct(a) => \A x \in 1 .. e \div 2 : At(t, a[q[x]], d) < m

LEMMA MedianDivides ==
  ASSUME NEW t, NEW a, NEW d, IsVector(t, a, d), NEW e \in Nat, 1 <= e, e <= Len(a)
  PROVE  \E q : Divides(t, a, d, e, get_median_and_split(t, SerialSort(t, a, 0, e, d), d), q)
<1>1. PICK s : s = SerialSort(t, a, 0, e, d)
  OBVIOUS
<1>2. PICK K : K = Coordinates(t, a, d)
  OBVIOUS
<1>3. /\ Len(a) \in Nat /\ K \in [1 .. Len(a) -> Nat] /\ DOMAIN a = 1 .. Len(a)
      /\ \A x \in 1 .. Len(a) : a[x] \in DOMAIN t /\ K[x] = At(t, a[x], d)
  BY <1>2, CoordinatesOfVector DEF IsVector
<1>4. 0 \in 0 .. Len(a) /\ e \in 0 .. Len(a) /\ 0 < e
  BY <1>3
<1>5. PICK q : IsRun(Range(a), K, a, s, q, 0, e)
  BY <1>1, <1>2, <1>4, SerialIsRun
<1>6. /\ Len(s) = e /\ s \in Seq(Range(a)) /\ q \in [1 .. e -> 1 .. e]
      /\ \A x \in 1 .. e : s[x] = a[q[x]]
      /\ \A x, y \in 1 .. e : x < y => Before(K, q[x], q[y])
  <2>1. e - 0 = e /\ 0 + 1 = 1
    OBVIOUS
  <2> QED
    BY <2>1, <1>5 DEF IsRun, Picks, InOrder
<1>7. ASSUME NEW x \in 1 .. e
      PROVE  /\ q[x] \in 1 .. Len(a) /\ K[q[x]] \in Nat /\ K[q[x]] = At(t, a[q[x]], d)
             /\ K[q[x]] = At(t, s[x], d)
  <2>1. q[x] \in 1 .. Len(a)
    BY <1>3, <1>6
  <2> QED
    BY <1>3, <1>6, <2>1
<1>8. ASSUME NEW x \in 1 .. e, NEW y \in 1 .. e, x < y
      PROVE  K[q[x]] <= K[q[y]] /\ q[x] # q[y]
  <2>1. Before(K, q[x], q[y])
    BY <1>6, <1>8
  <2>2. K[q[x]] \in Nat /\ K[q[y]] \in Nat /\ q[x] \in Nat /\ q[y] \in Nat
    BY <1>7
  <2> QED
    BY <2>1, <2>2 DEF Before
<1>9. q \in Injection(1 .. e, 1 .. Len(a))
  <2>1. \A x, y \in 1 .. e : q[x] = q[y] => x = y
    BY <1>8
  <2> QED
    BY <1>3, <1>6, <2>1 DEF Injection, IsInjective
<1>10. ASSUME SpreadIn(t, d), Distinct(a), NEW x \in 1 .. e, NEW y \in 1 .. e, x < y
       PROVE  K[q[x]] + 2 <= K[q[y]]
  <2>1. /\ q[x] \in DOMAIN a /\ q[y] \in DOMAIN a /\ q[x] # q[y] /\ K[q[x]] <= K[q[y]]
        /\ a[q[x]] \in DOMAIN t /\ a[q[y]] \in DOMAIN t
        /\ K[q[x]] = At(t, a[q[x]], d) /\ K[q[y]] = At(t, a[q[y]], d)
        /\ K[q[x]] \in Nat /\ K[q[y]] \in Nat
    BY <1>3, <1>7, <1>8, <1>10
  <2>2. a[q[x]] # a[q[y]]
    BY <1>10, <2>1 DEF Distinct
  <2>3. At(t, a[q[y]], d) - At(t, a[q[x]], d) \notin -1 .. 1
    BY <1>10, <2>1, <2>2 DEF SpreadIn
  <2>4. K[q[y]] - K[q[x]] \notin -1 .. 1
    BY <2>1, <2>3
  <2> QED
    BY <2>1, <2>4
<1>11. PICK h : h = e \div 2
  OBVIOUS
<1>12. h \in Nat /\ h + 1 \in 1 .. e /\ (e % 2 # 1 => h \in 1 .. e)
  BY <1>11
<1>13. PICK m : m = get_median_and_split(t, s, d)
  OBVIOUS
<1>14. PICK y \in Nat : y = K[q[h + 1]]
  BY <1>7, <1>12
<1>15. m = IF e % 2 = 1 THEN y ELSE FloatMidpoint(y, K[q[h]])
  <2>1. At(t, s[h + 1], d) = y
    BY <1>7, <1>12, <1>14
  <2>2. e % 2 # 1 => At(t, s[h], d) = K[q[h]]
    BY <1>7, <1>12
  <2> QED
    BY <1>6, <1>11, <1>13, <2>1, <2>2 DEF get_median_and_split
<1>16. /\ m \in Nat /\ m <= y
       /\ SpreadIn(t, d) /\ Distinct(a) => \A x \in 1 .. h : K[q[x]] < m
  <2>1. CASE e % 2 = 1
    <3>1. ASSUME SpreadIn(t, d), Distinct(a), NEW x \in 1 .. h PROVE K[q[x]] < m
      <4>1. x \in 1 .. e /\ x < h + 1 /\ K[q[x]] \in Nat
        BY <1>7, <1>12
      <4>2. K[q[x]] + 2 <= y
        BY <1>10, <1>12, <1>14, <3>1, <4>1
      <4> QED
        BY <1>15, <2>1, <4>1, <4>2
    <3> QED
      BY <1>15, <2>1, <3>1
  <2>2. CASE e % 2 # 1
    <3>1. PICK z \in Nat : z = K[q[h]] /\ z <= y
      BY <1>7, <1>8, <1>12, <1>14, <2>2
    <3>2. m = FloatMidpoint(y, z)
      BY <1>15, <2>2, <3>1
    <3>3. m \in Nat /\ m <= y /\ (z + 2 <= y => z < m)
      BY <3>1, <3>2, Midpoint
    <3>4. ASSUME SpreadIn(t, d), Distinct(a), NEW x \in 1 .. h PROVE K[q[x]] < m
      <4>1. x \in 1 .. e /\ h \in 1 .. e /\ h < h + 1 /\ K[q[x]] \in Nat
        BY <1>7, <1>12, <2>2
      <4>2. z + 2 <= y
        BY <1>10, <1>12, <1>14, <3>1, <3>4, <4>1
      <4>3. K[q[x]] <= z
        <5>1. CASE x = h
          BY <3>1, <4>1, <5>1
        <5>2. CASE x # h
          <6>1. x < h
            BY <4>1, <5>2
          <6> QED
            BY <1>8, <3>1, <4>1, <6>1
        <5> QED
          BY <5>1, <5>2
      <4> QED
        BY <3>1, <3>3, <4>1, <4>2, <4>3
    <3> QED
      BY <3>3, <3>4
  <2> QED
    BY <2>1, <2>2
<1>17. ASSUME NEW x \in h + 1 .. e PROVE m <= At(t, a[q[x]], d)
  <2>1. x \in 1 .. e /\ K[q[x]] \in Nat /\ K[q[x]] = At(t, a[q[x]], d)
    BY <1>7, <1>12
  <2>2. y <= K[q[x]]
    <3>1. CASE x = h + 1
      BY <1>14, <2>1, <3>1
    <3>2. CASE x # h + 1
      <4>1. h + 1 < x
        BY <1>12, <3>2
      <4> QED
        BY <1>8, <1>12, <1>14, <2>1, <4>1
    <3> QED
      BY <3>1, <3>2
  <2> QED
    BY <1>14, <1>16, <2>1, <2>2
<1>18. SpreadIn(t, d) /\ Distinct(a) => \A x \in 1 .. h : At(t, a[q[x]], d) < m
  <2>1. \A x \in 1 .. h : x \in 1 .. e
    BY <1>12
  <2> QED
    BY <1>7, <1>16, <2>1
<1>19. Divides(t, a, d, e, m, q)
  BY <1>9, <1>11, <1>16, <1>17, <1>18 DEF Divides
<1> QED
  BY <1>1, <1>13, <1>19

LEMMA HalvesHold ==
  ASSUME NEW t, NEW a, NEW d, IsVector(t, a, d), NEW m
  PROVE  /\ SplitLeft(t, a, d, m) \in Seq(DOMAIN t) /\ SplitRight(t, a, d, m) \in Seq(DOMAIN t)
         /\ Range(SplitLeft(t, a, d, m)) = {i \in Range(a) : At(t, i, d) < m}
         /\ Range(SplitRight(t, a, d, m)) = {i \in Range(a) : At(t, i, d) >= m}
         /\ Distinct(a) => /\ Distinct(SplitLeft(t, a, d, m))
                           /\ Distinct(SplitRight(t, a, d, m))
<1>1. PICK S : S = {i \in DOMAIN t : At(t, i, d) < m}
  OBVIOUS
<1>2. PICK T : T = {i \in DOMAIN t : At(t, i, d) >= m}
  OBVIOUS
<1>3. SplitLeft(t, a, d, m) = Filter(a, S) /\ SplitRight(t, a, d, m) = Filter(a, T)
  BY <1>1, <1>2 DEF SplitLeft, SplitRight
<1>4. a \in Seq(DOMAIN t)
  BY DEF IsVector
<1>5. Range(a) \subseteq DOMAIN t
  BY <1>4 DEF Range
<1>6. /\ Filter(a, S) \in Seq(DOMAIN t) /\ Range(Filter(a, S)) = Range(a) \cap S
      /\ Distinct(a) => Distinct(Filter(a, S))
  BY <1>4, FilterHolds
<1>7. /\ Filter(a, T) \in Seq(DOMAIN t) /\ Range(Filter(a, T)) = Range(a) \cap T
      /\ Distinct(a) => Distinct(Filter(a, T))
  BY <1>4, FilterHolds
<1>8. /\ Range(a) \cap S = {i \in Range(a) : At(t, i, d) < m}
      /\ Range(a) \cap T = {i \in Range(a) : At(t, i, d) >= m}
  BY <1>1, <1>2, <1>5
<1> QED
  BY <1>3, <1>6, <1>7, <1>8

(* The halves have all the points between them, and each its part of the sample. *)
LEMMA HalvesCount ==
  ASSUME NEW t, NEW a, NEW d, IsVector(t, a, d), NEW e \in Nat, 1 <= e, e <= Len(a),
         NEW m, NEW q, Divides(t, a, d, e, m, q)
  PROVE  /\ Len(SplitLeft(t, a, d, m)) + Len(SplitRight(t, a, d, m)) = Len(a)
         /\ e - e \div 2 <= Len(SplitRight(t, a, d, m))
         /\ SpreadIn(t, d) /\ Distinct(a) => e \div 2 <= Len(SplitLeft(t, a, d, m))
<1>1. PICK S : S = {i \in DOMAIN t : At(t, i, d) < m}
  OBVIOUS
<1>2. PICK T : T = {i \in DOMAIN t : At(t, i, d) >= m}
  OBVIOUS
<1>3. SplitLeft(t, a, d, m) = Filter(a, S) /\ SplitRight(t, a, d, m) = Filter(a, T)
  BY <1>1, <1>2 DEF SplitLeft, SplitRight
<1>4. a \in Seq(DOMAIN t) /\ Len(a) \in Nat /\ \A x \in 1 .. Len(a) : a[x] \in DOMAIN t
  BY DEF IsVector
<1>5. PICK n \in Nat : n = Len(a)
  BY <1>4
<1>6. PICK C : C = Chosen(a, S, n)
  OBVIOUS
<1>7. PICK E : E = Chosen(a, T, n)
  OBVIOUS
<1>8. /\ IsFiniteSet(C) /\ Len(Filter(a, S)) = Cardinality(C)
      /\ IsFiniteSet(E) /\ Len(Filter(a, T)) = Cardinality(E)
  BY <1>4, <1>5, <1>6, <1>7, FilterHolds
<1>9. Cardinality(C) \in Nat /\ Cardinality(E) \in Nat
  BY <1>8, FS_CardinalityType
<1>10. \A x \in 1 .. n : At(t, a[x], d) \in Nat /\ a[x] \in DOMAIN t
  BY <1>4, <1>5 DEF IsVector
<1>11. m \in Nat
  BY DEF Divides
<1>12. /\ C = {x \in 1 .. n : At(t, a[x], d) < m}
       /\ E = {x \in 1 .. n : At(t, a[x], d) >= m}
  BY <1>1, <1>2, <1>6, <1>7, <1>10 DEF Chosen
<1>13. C \cup E = 1 .. n /\ C \cap E = {}
  BY <1>10, <1>11, <1>12
<1>14. Cardinality(C) + Cardinality(E) = n
  <2>1. Cardinality(C \cup E) = Cardinality(C) + Cardinality(E) - Cardinality(C \cap E)
    BY <1>8, FS_Union
  <2>2. Cardinality(1 .. n) = n
    BY FS_Interval
  <2>3. Cardinality(C \cup E) = n /\ Cardinality(C \cap E) = 0
    BY <1>13, <2>2, FS_EmptySet
  <2> QED
    BY <1>9, <2>1, <2>3
<1>15. PICK h : h = e \div 2
  OBVIOUS
<1>16. h \in Nat /\ h <= e /\ e - h \in Nat
  BY <1>15
<1>17. /\ q \in [1 .. e -> 1 .. n] /\ \A x, y \in 1 .. e : q[x] = q[y] => x = y
  BY <1>5 DEF Divides, Injection, IsInjective
<1>18. e - h <= Cardinality(E)
  <2>1. PICK U : U = h + 1 .. e
    OBVIOUS
  <2>2. IsFiniteSet(U) /\ Cardinality(U) = e - h
    <3>1. h + 1 \in Int /\ e \in Int
      BY <1>16
    <3>2. IsFiniteSet(U) /\ Cardinality(U) = IF h + 1 > e THEN 0 ELSE e - (h + 1) + 1
      BY <2>1, <3>1, FS_Interval
    <3> QED
      BY <1>16, <3>2
  <2> DEFINE f == [x \in U |-> q[x]]
  <2>3. \A x \in U : x \in 1 .. e /\ q[x] \in E
    <3>1. \A x \in U : x \in 1 .. e /\ q[x] \in 1 .. n /\ m <= At(t, a[q[x]], d)
      BY <1>15, <1>16, <1>17, <2>1 DEF Divides
    <3> QED
      BY <1>10, <1>11, <1>12, <3>1
  <2>4. f \in Injection(U, E)
    BY <1>17, <2>3 DEF Injection, IsInjective
  <2> QED
    BY <1>8, <2>2, <2>4, FS_Injection, FS_CardinalityType
<1>19. ASSUME SpreadIn(t, d), Distinct(a) PROVE h <= Cardinality(C)
  <2>1. PICK U : U = 1 .. h
    OBVIOUS
  <2>2. IsFiniteSet(U) /\ Cardinality(U) = h
    BY <1>16, <2>1, FS_Interval
  <2> DEFINE f == [x \in U |-> q[x]]
  <2>3. \A x \in U : x \in 1 .. e /\ q[x] \in C
    <3>1. \A x \in U : x \in 1 .. e /\ q[x] \in 1 .. n /\ At(t, a[q[x]], d) < m
      BY <1>15, <1>16, <1>17, <1>19, <2>1 DEF Divides
    <3> QED
      BY <1>12, <3>1
  <2>4. f \in Injection(U, C)
    BY <1>17, <2>3 DEF Injection, IsInjective
  <2> QED
    BY <1>8, <2>2, <2>4, FS_Injection
<1> QED
  BY <1>3, <1>5, <1>8, <1>14, <1>15, <1>18, <1>19

(* What a node hands down: a half, nothing below a leaf. *)
LEMMA HalfIsVector ==
  ASSUME NEW t, IsTraining(t), NEW p \in Seq(Sides), NEW side \in Sides,
         NEW a \in Seq(DOMAIN t), NEW h, h = SequentialHalf(t, p, side, a)
  PROVE  /\ h \in Seq(DOMAIN t) /\ Range(h) \subseteq Range(a)
         /\ Distinct(a) => Distinct(h)
         /\ Len(a) <= 1 => h = <<>>
<1>1. PICK d : d = Len(p) % num_dimensions
  OBVIOUS
<1>2. d \in Dimensions
  BY <1>1, LevelDimension, LenProperties
<1>3. IsVector(t, a, d)
  BY <1>2, VectorOf
<1>4. PICK m : m = SequentialMedian(t, p, a)
  OBVIOUS
<1>5. h = IF Len(a) <= 1 THEN <<>>
          ELSE IF side = "l" THEN SplitLeft(t, a, d, m) ELSE SplitRight(t, a, d, m)
  BY <1>1, <1>4 DEF SequentialHalf
<1>6. PICK l : l = SplitLeft(t, a, d, m)
  OBVIOUS
<1>7. PICK r : r = SplitRight(t, a, d, m)
  OBVIOUS
<1>8. /\ l \in Seq(DOMAIN t) /\ Range(l) \subseteq Range(a) /\ (Distinct(a) => Distinct(l))
      /\ r \in Seq(DOMAIN t) /\ Range(r) \subseteq Range(a) /\ (Distinct(a) => Distinct(r))
  BY <1>3, <1>6, <1>7, HalvesHold
<1>9. PICK z : z = <<>>
  OBVIOUS
<1>10. z \in Seq(DOMAIN t) /\ Range(z) \subseteq Range(a) /\ Distinct(z)
  BY <1>9 DEF Range, Distinct
<1>11. h \in {z, l, r} /\ (Len(a) <= 1 => h = z)
  BY <1>5, <1>6, <1>7, <1>9
<1> QED
  BY <1>8, <1>9, <1>10, <1>11

(* An inner node: the halves share no row and lose none, and the right one is not empty. *)
LEMMA HalvesOfNode ==
  ASSUME NEW t, IsTraining(t), NEW p \in Seq(Sides), NEW a \in Seq(DOMAIN t),
         Len(a) >= 2, 1 <= Sample(p, a)
  PROVE  LET d == Len(p) % num_dimensions
             m == SequentialMedian(t, p, a)
             l == SequentialHalf(t, p, "l", a)
             r == SequentialHalf(t, p, "r", a)
         IN  /\ m \in Nat
             /\ Range(l) = {i \in Range(a) : At(t, i, d) < m}
             /\ Range(r) = {i \in Range(a) : At(t, i, d) >= m}
             /\ Range(l) \cap Range(r) = {} /\ Range(l) \cup Range(r) = Range(a)
             /\ Len(l) + Len(r) = Len(a)
             /\ Sample(p, a) - Sample(p, a) \div 2 <= Len(r)
             /\ SpreadIn(t, d) /\ Distinct(a) => Sample(p, a) \div 2 <= Len(l)
<1>1. PICK d : d = Len(p) % num_dimensions
  OBVIOUS
<1>2. d \in Dimensions
  BY <1>1, LevelDimension, LenProperties
<1>3. IsVector(t, a, d)
  BY <1>2, VectorOf
<1>4. PICK e : e = Sample(p, a)
  OBVIOUS
<1>5. Len(a) \in Nat
  BY LenProperties
<1>6. e \in Nat /\ 1 <= e /\ e <= Len(a)
  BY <1>4, <1>5, ThresholdAssumption DEF Sample, RootSample, LocalEnd
<1>7. PICK m : m = get_median_and_split(t, SerialSort(t, a, 0, e, d), d)
  OBVIOUS
<1>8. m = SequentialMedian(t, p, a)
  BY <1>1, <1>4, <1>7 DEF SequentialMedian
<1>9. PICK q : Divides(t, a, d, e, m, q)
  BY <1>3, <1>6, <1>7, MedianDivides
<1>10. PICK l : l = SplitLeft(t, a, d, m)
  OBVIOUS
<1>11. PICK r : r = SplitRight(t, a, d, m)
  OBVIOUS
<1>12. l = SequentialHalf(t, p, "l", a) /\ r = SequentialHalf(t, p, "r", a)
  BY <1>1, <1>5, <1>8, <1>10, <1>11 DEF SequentialHalf
<1>13. /\ Range(l) = {i \in Range(a) : At(t, i, d) < m}
       /\ Range(r) = {i \in Range(a) : At(t, i, d) >= m}
  BY <1>3, <1>10, <1>11, HalvesHold
<1>14. /\ Len(l) + Len(r) = Len(a)
       /\ e - e \div 2 <= Len(r)
       /\ SpreadIn(t, d) /\ Distinct(a) => e \div 2 <= Len(l)
  BY <1>3, <1>6, <1>9, <1>10, <1>11, HalvesCount
<1>15. m \in Nat
  BY <1>9 DEF Divides
<1>16. \A i \in Range(a) : At(t, i, d) \in Nat
  BY <1>3 DEF IsVector, Range
<1>17. Range(l) \cap Range(r) = {} /\ Range(l) \cup Range(r) = Range(a)
  BY <1>13, <1>15, <1>16
<1> QED
  BY <1>1, <1>4, <1>8, <1>12, <1>13, <1>14, <1>15, <1>17

(* The vector of any node has rows of the training set, none of them twice. *)
LEMMA SequentialVector ==
  ASSUME NEW t, IsTraining(t), NEW p \in Seq(Sides)
  PROVE  SequentialPoints(t, p) \in Seq(DOMAIN t) /\ Distinct(SequentialPoints(t, p))
<1> DEFINE Good(v) == v \in Seq(DOMAIN t) /\ Distinct(v)
           at(n) == SequentialPoints(t, SubSeq(p, 1, n))
           P == {n \in 0 .. Len(p) : Good(at(n))}
<1>1. Len(p) \in Nat
  BY LenProperties
<1>2. 0 \in P
  <2>1. SubSeq(p, 1, 0) = <<>>
    BY SubSeqEmpty
  <2>2. at(0) = Rows(t)
    BY <2>1, SequentialRoot
  <2>3. Good(Rows(t))
    BY DEF Rows, IsTraining, Distinct
  <2> QED
    BY <1>1, <2>2, <2>3
<1>3. ASSUME NEW n \in 0 .. Len(p) - 1, n \in P PROVE n + 1 \in P
  <2>1. /\ p[n + 1] \in Sides /\ SubSeq(p, 1, n) \in Seq(Sides)
        /\ n \in 0 .. Len(p) /\ n + 1 \in 0 .. Len(p)
    BY <1>1, PathPrefix
  <2>2. Good(at(n))
    BY <1>3
  <2>3. at(n + 1) = SequentialHalf(t, SubSeq(p, 1, n), p[n + 1], at(n))
    BY SequentialNext
  <2>4. PICK v : v = at(n)
    OBVIOUS
  <2>5. PICK h : h = SequentialHalf(t, SubSeq(p, 1, n), p[n + 1], v)
    OBVIOUS
  <2>6. h \in Seq(DOMAIN t) /\ Distinct(h)
    <3>1. PICK c \in Seq(Sides) : c = SubSeq(p, 1, n)
      BY <2>1
    <3>2. PICK side \in Sides : side = p[n + 1]
      BY <2>1
    <3>3. v \in Seq(DOMAIN t) /\ Distinct(v) /\ h = SequentialHalf(t, c, side, v)
      BY <2>2, <2>4, <2>5, <3>1, <3>2
    <3> QED
      BY <3>3, HalfIsVector
  <2>7. Good(at(n + 1))
    BY <2>3, <2>4, <2>5, <2>6
  <2> QED
    BY <2>1, <2>7
<1>4. \A n \in 0 .. Len(p) : n \in P
  <2> HIDE DEF P
  <2> QED
    BY <1>1, <1>2, <1>3, InductionTo
<1>5. Len(p) \in 0 .. Len(p)
  BY <1>1
<1>6. Good(at(Len(p)))
  BY <1>4, <1>5
<1>7. SubSeq(p, 1, Len(p)) = p
  BY SubSeqFull
<1> QED
  BY <1>6, <1>7

-----------------------------------------------------------------------------
(* The data of a build.  The sort a node asks for is that of its sample. *)

IsSampleOf(t, p, s) ==
  /\ s.a = SequentialPoints(t, p) /\ s.dimension = Len(p) % num_dimensions
  /\ s.begin = 0 /\ s.end = Sample(p, s.a)

SamplesInv == \A id \in DOMAIN sorts : id[2] = <<>> => IsSampleOf(train, id[1], sorts[id])

Splits == {"left", "right", "join"}

(* A call has the vector of its node; it has more points than one once it sorts. *)
CallHas(t, p, c) ==
  /\ c.points = SequentialPoints(t, p) /\ c.dimension = Len(p) % num_dimensions
  /\ Len(p) <= StackDepth
  /\ c.pc \in {"sort"} \cup Splits => Len(p) < StackDepth /\ Len(c.points) >= 2

(* The node of a call that has split its points is in the tree. *)
CallGood(t, nodes, p, c) == CallHas(t, p, c) /\ (c.pc \in Splits => p \in nodes)

CallsInv == \A p \in DOMAIN calls : CallGood(train, DOMAIN tree, p, calls[p])

(* A node is the one the sequential recursion puts there, up to its number of points. *)
IsNodeOf(t, p, node) ==
  LET a == SequentialPoints(t, p)
      dimension == Len(p) % num_dimensions
  IN  \/ Len(a) = 1 /\ node = Node(dimension, 0, 1, a[1])
      \/ /\ Len(a) >= 2 /\ 1 <= Sample(p, a)
         /\ node.dimension = dimension /\ node.median = SequentialMedian(t, p, a)
         /\ node.num_pts # 1 /\ node.point = NoPoint

NodeGood(t, p, node) == p \in Seq(Sides) /\ Len(p) <= StackDepth /\ IsNodeOf(t, p, node)

NodesInv == \A p \in DOMAIN tree : NodeGood(train, p, tree[p])

RootInv ==
  /\ main.pc # "main" => Len(train) >= 2
  /\ main.pc \notin {"main", "sort"} \/ status = "built" => <<>> \in DOMAIN tree

DInv == RunsInv /\ SamplesInv /\ CallsInv /\ NodesInv /\ RootInv

-----------------------------------------------------------------------------
(* What the steps have in common. *)

LEMMA TrainingSet ==
  ASSUME IInv
  PROVE  IsTraining(train) /\ Len(train) \in Nat
<1>1. train \in Seq([1 .. num_dimensions -> Nat])
  BY DatasetsAssumption DEF IInv, DataInv
<1> QED
  BY <1>1 DEF IsTraining

LEMMA CallsKept ==
  ASSUME CallsInv, train' = train, DOMAIN tree \subseteq DOMAIN tree',
         \A q \in DOMAIN calls' : \/ q \in DOMAIN calls /\ calls'[q] = calls[q]
                                  \/ CallGood(train, DOMAIN tree', q, calls'[q])
  PROVE  CallsInv'
<1>1. \A q \in DOMAIN calls' : CallGood(train, DOMAIN tree', q, calls'[q])
  BY DEF CallsInv, CallGood
<1> QED
  BY <1>1 DEF CallsInv

(* A call that goes on keeps what it was given. *)
LEMMA GoesOn ==
  ASSUME NEW t, NEW p, NEW c, CallHas(t, p, c), NEW d, SameCall(c, d), NEW nodes,
         d.pc \in {"sort"} \cup Splits => Len(p) < StackDepth /\ Len(c.points) >= 2,
         d.pc \in Splits => p \in nodes
  PROVE  CallGood(t, nodes, p, d)
  BY DEF CallGood, CallHas, SameCall

LEMMA NodesKept ==
  ASSUME NodesInv, train' = train,
         \/ tree' = tree
         \/ \E p, node : NodeGood(train, p, node) /\ tree' = Put(tree, p, node)
  PROVE  NodesInv' /\ DOMAIN tree \subseteq DOMAIN tree'
<1>1. ASSUME NEW p, NEW node, NodeGood(train, p, node), tree' = Put(tree, p, node)
      PROVE  /\ DOMAIN tree \subseteq DOMAIN tree'
             /\ \A q \in DOMAIN tree' : NodeGood(train, q, tree'[q])
  BY <1>1 DEF Put, NodesInv
<1>2. /\ DOMAIN tree \subseteq DOMAIN tree'
      /\ \A q \in DOMAIN tree' : NodeGood(train, q, tree'[q])
  BY <1>1 DEF NodesInv
<1> QED
  BY <1>2 DEF NodesInv

LEMMA NodePut ==
  ASSUME NEW p, NEW node, tree' = Put(tree, p, node)
  PROVE  /\ DOMAIN tree' = DOMAIN tree \cup {p} /\ tree'[p] = node
         /\ \A q \in DOMAIN tree : q # p => tree'[q] = tree[q]
  BY DEF Put

LEMMA SamplesKept ==
  ASSUME SamplesInv, train' = train,
         \A id \in DOMAIN sorts' : id[2] = <<>> =>
           \/ id \in DOMAIN sorts /\ SameRange(sorts[id], sorts'[id])
           \/ IsSampleOf(train, id[1], sorts'[id])
  PROVE  SamplesInv'
<1>1. \A id \in DOMAIN sorts' : id[2] = <<>> => IsSampleOf(train, id[1], sorts'[id])
  BY DEF SamplesInv, IsSampleOf, SameRange
<1> QED
  BY <1>1 DEF SamplesInv

LEMMA RunsKept ==
  ASSUME RunsInv, SamplesInv, train' = train, sorts' = sorts
  PROVE  RunsInv' /\ SamplesInv'
  BY DEF RunsInv, SamplesInv, SortsShape

(* A sort is asked for. *)
LEMMA RunAdded ==
  ASSUME RunsInv, train' = train, NEW p, \A id \in DOMAIN sorts : id[1] # p,
         NEW new, IsSortCall(new), new.pc = "call", SortedCall(train, new),
         sorts' = Put(sorts, SortOf(p), new)
  PROVE  /\ RunsInv' /\ DOMAIN sorts' = DOMAIN sorts \cup {SortOf(p)}
         /\ sorts'[SortOf(p)] = new
         /\ \A id \in DOMAIN sorts : sorts'[id] = sorts[id]
<1>1. IsSortName(SortOf(p)) /\ SortOf(p)[1] = p /\ SortOf(p)[2] = <<>>
  BY DEF IsSortName, SortOf
<1>2. PICK x : x = SortOf(p)
  OBVIOUS
<1>3. x \notin DOMAIN sorts
  BY <1>1, <1>2
<1>4. /\ DOMAIN sorts' = DOMAIN sorts \cup {x} /\ sorts'[x] = new
      /\ \A id \in DOMAIN sorts : sorts'[id] = sorts[id]
      /\ sorts' = [id \in DOMAIN sorts' |-> sorts'[id]]
  BY <1>2, <1>3 DEF Put
<1>5. IsFiniteSet(DOMAIN sorts')
  BY <1>4, FS_AddElement DEF RunsInv, SortsShape
<1>6. SortsShape'
  BY <1>4, <1>5 DEF RunsInv, SortsShape
<1>7. \A id \in DOMAIN sorts' : IsSortName(id) /\ SortedCall(train, sorts'[id])
  BY <1>1, <1>2, <1>4 DEF RunsInv
<1>8. ASSUME NEW id \in DOMAIN sorts', NEW side \in Sides, Beyond(sorts'[id].pc, side),
             Half(id, side) \in DOMAIN sorts'
      PROVE  IsHalf(side, sorts'[id], sorts'[Half(id, side)])
  <2>1. id \in DOMAIN sorts
    BY <1>4, <1>8 DEF Beyond
  <2>2. Half(id, side) # x
    BY <1>1, <1>2, <1>7, HalfIsName
  <2> QED
    BY <1>4, <1>8, <2>1, <2>2 DEF RunsInv
<1> QED
  BY <1>2, <1>4, <1>6, <1>7, <1>8 DEF RunsInv

(* Its result is taken. *)
LEMMA RunTaken ==
  ASSUME RunsInv, SamplesInv, train' = train, NEW x, sorts' = Drop(sorts, {x})
  PROVE  RunsInv' /\ SamplesInv'
<1>1. /\ DOMAIN sorts' = DOMAIN sorts \ {x}
      /\ \A id \in DOMAIN sorts' : sorts'[id] = sorts[id]
  BY DEF Drop
<1>2. SortsShape'
  BY SortGone DEF RunsInv
<1> QED
  BY <1>1, <1>2 DEF RunsInv, SamplesInv

(* The steps of a sort leave what its calls were given. *)
LEMMA SortKeepsSamples ==
  ASSUME RunsInv, SamplesInv, SortStep
  PROVE  SamplesInv'
<1>1. PICK id \in DOMAIN sorts :
        \/ SortBase(id) \/ SortAssert(id) \/ SortSerial(id)
        \/ SortLeft(id) \/ SortRight(id) \/ SortMerge(id)
  BY DEF SortStep
<1>2. train' = train /\ SortsShape /\ IsSortName(id)
  BY <1>1 DEF SortBase, SortAssert, SortSerial, SortLeft, SortRight, SortFork, SortMerge, RunsInv
<1>3. \A i \in DOMAIN sorts : SameRange(sorts[i], sorts[i])
  BY DEF SameRange
<1>4. ASSUME NEW f, NEW out, Returns(f, id, out)
      PROVE  DOMAIN f = DOMAIN sorts /\ \A i \in DOMAIN sorts : SameRange(sorts[i], f[i])
  BY <1>2, <1>3, <1>4, GoneBack
<1>5. CASE SortBase(id)
  <2>1. PICK out : Returns(sorts', id, out)
    BY <1>5 DEF SortBase, Returns
  <2> QED
    BY <1>2, <1>4, <2>1, SamplesKept
<1>6. CASE SortAssert(id)
  <2>1. sorts' = sorts
    BY <1>6 DEF SortAssert
  <2> QED
    BY <1>2, <1>3, <2>1, SamplesKept
<1>7. CASE SortSerial(id)
  <2>1. PICK out : Returns(sorts', id, out)
    BY <1>7 DEF SortSerial, Returns
  <2> QED
    BY <1>2, <1>4, <2>1, SamplesKept
<1>8. ASSUME NEW side \in Sides, NEW begin, NEW end, NEW pc \in SortPcs,
             SortFork(id, side, begin, end, pc)
      PROVE  SamplesInv'
  <2>1. CASE sorts' = sorts
    BY <1>2, <1>3, <2>1, SamplesKept
  <2>2. CASE sorts' # sorts
    <3>1. PICK new : IsSortCall(new) /\ Forks(id, Half(id, side), new, pc)
      BY <1>8, <2>2, ForkOutcome
    <3>2. ForkAdds(id, Half(id, side), new, pc)
      BY <1>2, <3>1, Forked
    <3>3. Half(id, side)[2] # <<>>
      BY <1>2, HalfIsName
    <3>4. \A i \in DOMAIN sorts' : i[2] = <<>> =>
            i \in DOMAIN sorts /\ SameRange(sorts[i], sorts'[i])
      BY <1>3, <3>2, <3>3 DEF ForkAdds
    <3> QED
      BY <1>2, <3>4, SamplesKept
  <2> QED
    BY <2>1, <2>2
<1>9. CASE SortLeft(id)
  BY <1>8, <1>9 DEF SortLeft, Sides, SortPcs
<1>10. CASE SortRight(id)
  BY <1>8, <1>10 DEF SortRight, Sides, SortPcs
<1>11. CASE SortMerge(id)
  <2>1. PICK f, out : Returns(f, id, out) /\ sorts' = Drop(f, {Half(id, "l"), Half(id, "r")})
    BY <1>11 DEF SortMerge, Returns
  <2>2. /\ DOMAIN sorts' \subseteq DOMAIN sorts
        /\ \A i \in DOMAIN sorts' : SameRange(sorts[i], sorts'[i])
    BY <1>4, <2>1 DEF Drop
  <2> QED
    BY <1>2, <2>2, SamplesKept
<1> QED
  BY <1>1, <1>5, <1>6, <1>7, <1>9, <1>10, <1>11

-----------------------------------------------------------------------------
(* The sample, the node, the halves. *)

LEMMA SampleSize ==
  ASSUME NEW p, NEW a, Len(a) \in Nat
  PROVE  /\ Sample(p, a) \in Nat /\ Sample(p, a) <= Len(a)
         /\ Len(a) >= 2 /\ p # <<>> => Sample(p, a) >= 2
  BY ThresholdAssumption DEF Sample, RootSample, LocalEnd

(* A node asks for the sort of its sample. *)
AsksFor(p, a, dimension, new) ==
  \E depth : new = SortCall(a, 0, Sample(p, a), depth, dimension, FALSE)

LEMMA SampleAsked ==
  ASSUME NEW t, IsTraining(t), NEW p \in Seq(Sides), NEW a, a = SequentialPoints(t, p),
         NEW d, d = Len(p) % num_dimensions, NEW new, AsksFor(p, a, d, new)
  PROVE  /\ IsSortCall(new) /\ new.pc = "call" /\ ~new.is_thread
         /\ SortedCall(t, new) /\ IsSampleOf(t, p, new)
<1>1. PICK z : z = 0
  OBVIOUS
<1>2. PICK e : e = Sample(p, a)
  OBVIOUS
<1>3. PICK depth : new = SortCall(a, z, e, depth, d, FALSE)
  BY <1>1, <1>2, Zenon DEF AsksFor
<1>4. PICK is_thread \in BOOLEAN : is_thread = FALSE
  OBVIOUS
<1>5. new = SortCall(a, z, e, depth, d, is_thread)
  BY <1>3, <1>4, Zenon
<1>6. /\ IsSortCall(new) /\ new.pc = "call" /\ new.is_thread = is_thread
      /\ new.a = a /\ new.begin = z /\ new.end = e /\ new.dimension = d
  <2>1. PICK pc, out : pc = "call" /\ out = <<>>
    OBVIOUS
  <2>2. new = [a |-> a, begin |-> z, end |-> e, depth |-> depth, dimension |-> d,
               is_thread |-> is_thread, pc |-> pc, out |-> out]
    BY <1>5, <2>1 DEF SortCall
  <2>3. /\ new = [a |-> new.a, begin |-> new.begin, end |-> new.end, depth |-> new.depth,
                  dimension |-> new.dimension, is_thread |-> new.is_thread, pc |-> new.pc,
                  out |-> new.out]
        /\ new.is_thread \in BOOLEAN
    BY <2>2
  <2>4. new.a = a /\ new.begin = z /\ new.end = e /\ new.dimension = d /\ new.pc = pc
    BY <2>2
  <2>5. new.is_thread = is_thread
    BY <2>2
  <2> QED
    BY <2>1, <2>3, <2>4, <2>5 DEF IsSortCall, SortPcs
<1>7. a \in Seq(DOMAIN t) /\ Len(a) \in Nat
  BY SequentialVector, LenProperties
<1>8. d \in Dimensions
  BY LevelDimension, LenProperties
<1>9. e \in Nat /\ e <= Len(a)
  BY <1>2, <1>7, SampleSize
<1>10. SortedCall(t, new)
  <2>1. new.begin = 0 /\ new.end = e /\ new.a = a /\ new.dimension = d
    BY <1>1, <1>6
  <2>2. new.begin \in Nat /\ new.end \in Nat /\ new.begin <= new.end /\ new.end <= Len(new.a)
    BY <1>9, <2>1
  <2>3. new.pc \notin {"left", "right"} /\ new.pc # "returned"
    BY <1>6
  <2> QED
    BY <1>7, <1>8, <2>1, <2>2, <2>3 DEF SortedCall
<1>11. IsSampleOf(t, p, new)
  BY <1>1, <1>2, <1>6 DEF IsSampleOf
<1> QED
  BY <1>4, <1>6, <1>10, <1>11

(* When the sort returns, the median of its result is the one of the recursion. *)
LEMMA SampleTaken ==
  ASSUME RunsInv, SamplesInv, NEW p \in Seq(Sides), SortReturned(SortOf(p))
  PROVE  LET a == SequentialPoints(train, p)
             out == sorts[SortOf(p)].out
         IN  /\ 1 <= Sample(p, a) /\ Len(out) = Sample(p, a)
             /\ get_median_and_split(train, out, Len(p) % num_dimensions)
                  = SequentialMedian(train, p, a)
<1>1. PICK a : a = SequentialPoints(train, p)
  OBVIOUS
<1>2. PICK s : s = sorts[SortOf(p)]
  OBVIOUS
<1>3. PICK d : d = Len(p) % num_dimensions
  OBVIOUS
<1>4. SortOf(p) \in DOMAIN sorts /\ SortOf(p)[1] = p /\ SortOf(p)[2] = <<>> /\ s.pc = "returned"
  BY <1>2 DEF SortReturned, SortOf
<1>5. s.a = a /\ s.dimension = d /\ s.begin = 0 /\ s.end = Sample(p, a)
  BY <1>1, <1>2, <1>3, <1>4 DEF SamplesInv, IsSampleOf
<1>6. IsVector(train, a, d)
  BY <1>2, <1>4, <1>5, RunsVector
<1>7. PICK e : e = Sample(p, a)
  OBVIOUS
<1>8. SortedCall(train, s)
  BY <1>2, <1>4 DEF RunsInv
<1>9. /\ e \in Nat /\ 0 < e /\ e <= Len(a) /\ Len(a) \in Nat
      /\ s.out = SerialSort(train, a, 0, e, d)
  BY <1>4, <1>5, <1>7, <1>8 DEF SortedCall
<1>10. Len(s.out) = e
  <2>1. 0 \in 0 .. Len(a) /\ e \in 0 .. Len(a)
    BY <1>9
  <2>2. PICK q : IsRun(Range(a), Coordinates(train, a, d), a, s.out, q, 0, e)
    BY <1>6, <1>9, <2>1, SerialIsRun
  <2> QED
    BY <1>9, <2>2 DEF IsRun
<1>11. get_median_and_split(train, s.out, d) = SequentialMedian(train, p, a)
  BY <1>3, <1>7, <1>9 DEF SequentialMedian
<1> QED
  BY <1>1, <1>2, <1>3, <1>7, <1>9, <1>10, <1>11

(* The inner node made from it. *)
LEMMA NodeMade ==
  ASSUME RunsInv, SamplesInv, NEW p \in Seq(Sides), Len(p) <= StackDepth,
         SortReturned(SortOf(p)),
         NEW dimension, dimension = Len(p) % num_dimensions,
         Len(SequentialPoints(train, p)) \in Nat, Len(SequentialPoints(train, p)) >= 2,
         NEW num_pts, num_pts # 1
  PROVE  NodeGood(train, p, SplitNode(p, dimension, num_pts))
<1>1. PICK a : a = SequentialPoints(train, p)
  OBVIOUS
<1>2. PICK m : m = SequentialMedian(train, p, a)
  OBVIOUS
<1>3. PICK node : node = SplitNode(p, dimension, num_pts)
  OBVIOUS
<1>4. 1 <= Sample(p, a) /\ get_median_and_split(train, sorts[SortOf(p)].out, dimension) = m
  BY <1>1, <1>2, SampleTaken
<1>5. node = Node(dimension, m, num_pts, NoPoint)
  BY <1>3, <1>4 DEF SplitNode
<1>6. /\ node.dimension = dimension /\ node.median = m /\ node.num_pts = num_pts
      /\ node.point = NoPoint
  BY <1>5 DEF Node
<1>7. IsNodeOf(train, p, node)
  BY <1>1, <1>2, <1>4, <1>6 DEF IsNodeOf
<1> QED
  BY <1>3, <1>7 DEF NodeGood

(* What a call or make_tree hands to a child is the vector of the child's node. *)
LEMMA ChildHas ==
  ASSUME IInv, NodesInv, NEW p \in DOMAIN tree, NEW side \in Sides,
         NEW a, Points(p) = a, a = SequentialPoints(train, p), Len(a) >= 2
  PROVE  ChildPoints(p, side) = SequentialPoints(train, Append(p, side))
<1>2. NodeGood(train, p, tree[p])
  BY DEF NodesInv
<1>3. p \in Seq(Sides)
  BY <1>2 DEF NodeGood
<1>4. Len(a) \in Nat /\ Len(a) >= 2
  BY <1>3, TrainingSet, SequentialVector, LenProperties
<1>5. /\ tree[p].dimension = Len(p) % num_dimensions
      /\ tree[p].median = SequentialMedian(train, p, a)
  <2>1. Len(a) # 1
    <3>1. PICK n : n = Len(a) /\ n \in Nat /\ n >= 2
      BY <1>4, Zenon
    <3> QED
      BY <3>1
  <2>2. IsNodeOf(train, p, tree[p])
    BY <1>2 DEF NodeGood
  <2> QED
    BY <2>1, <2>2, Zenon DEF IsNodeOf
<1>6. SequentialPoints(train, Append(p, side)) = SequentialHalf(train, p, side, a)
  BY <1>3, SequentialChild
<1>7. ~(Len(a) <= 1)
  BY <1>4
<1> QED
  BY <1>5, <1>6, <1>7 DEF SequentialHalf, ChildPoints

-----------------------------------------------------------------------------
(* The steps of populate_nodes. *)

TreeGrows ==
  \/ tree' = tree
  \/ \E p, node : NodeGood(train, p, node) /\ tree' = Put(tree, p, node)

CallsStay ==
  \A q \in DOMAIN calls' : \/ q \in DOMAIN calls /\ calls'[q] = calls[q]
                           \/ CallGood(train, DOMAIN tree', q, calls'[q])

LEMMA CallFacts ==
  ASSUME IInv, DInv, NEW p \in DOMAIN calls
  PROVE  /\ p \in Seq(Sides) /\ Len(p) \in Nat /\ Len(p) >= 1 /\ p # <<>>
         /\ Points(p) = calls[p].points /\ calls[p].points = SequentialPoints(train, p)
         /\ calls[p].dimension = Len(p) % num_dimensions
         /\ Len(p) <= StackDepth /\ Len(calls[p].points) \in Nat
         /\ CallHas(train, p, calls[p])
         /\ calls[p].pc \in Splits => p \in DOMAIN tree
<1>1. p \in Seq(Sides) /\ Len(p) \in Nat /\ Len(p) >= 1
  BY Named DEF IInv
<1>2. p # <<>>
  BY <1>1, EmptySeq
<1>3. CallGood(train, DOMAIN tree, p, calls[p])
  BY DEF DInv, CallsInv
<1>4. CallHas(train, p, calls[p])
  BY <1>3 DEF CallGood
<1>5. Points(p) = calls[p].points
  BY <1>2 DEF Points
<1>6. Len(SequentialPoints(train, p)) \in Nat
  BY <1>1, TrainingSet, SequentialVector, LenProperties
<1> QED
  BY <1>1, <1>2, <1>3, <1>4, <1>5, <1>6 DEF CallHas, CallGood

LEMMA DataStep ==
  ASSUME DInv, UNCHANGED <<train, main>>, status' # "built", RunsInv', SamplesInv',
         TreeGrows, CallsStay
  PROVE  DInv'
<1>1. NodesInv' /\ DOMAIN tree \subseteq DOMAIN tree'
  BY NodesKept DEF DInv, TreeGrows
<1>2. CallsInv'
  BY <1>1, CallsKept DEF DInv, CallsStay
<1>3. RootInv'
  BY <1>1 DEF DInv, RootInv
<1> QED
  BY <1>1, <1>2, <1>3 DEF DInv

LEMMA DataRuns ==
  ASSUME DInv, UNCHANGED <<train, sorts>>
  PROVE  RunsInv' /\ SamplesInv'
  BY RunsKept DEF DInv

LEMMA EmptyData ==
  ASSUME IInv, DInv, NEW p \in DOMAIN calls, PopulateEmpty(p) \/ PopulateLeaf(p)
  PROVE  DInv'
<1>1. /\ status = "running" /\ calls[p].pc = "call" /\ Moves(calls', p, "returned")
      /\ UNCHANGED <<train, sorts, status, main>>
  BY DEF PopulateEmpty, PopulateLeaf, Active, Moves
<1>2. Changed(calls', p, "returned")
  BY <1>1, CallMoved DEF IInv, CallPcs
<1>3. TreeGrows
  <2>1. CASE PopulateEmpty(p)
    BY <2>1 DEF PopulateEmpty, TreeGrows
  <2>2. CASE PopulateLeaf(p)
    <3>1. PICK a : a = SequentialPoints(train, p)
      OBVIOUS
    <3>2. PICK d : d = Len(p) % num_dimensions
      OBVIOUS
    <3>3. /\ p \in Seq(Sides) /\ Len(p) <= StackDepth /\ Points(p) = a
          /\ calls[p].dimension = d
      BY <3>1, <3>2, CallFacts
    <3>4. Len(a) = 1 /\ tree' = Put(tree, p, Node(d, 0, 1, a[1]))
      BY <2>2, <3>3 DEF PopulateLeaf
    <3>5. IsNodeOf(train, p, Node(d, 0, 1, a[1]))
      BY <3>1, <3>2, <3>4 DEF IsNodeOf
    <3> QED
      BY <3>3, <3>4, <3>5 DEF NodeGood, TreeGrows
  <2> QED
    BY <2>1, <2>2
<1>4. CallsStay
  <2>1. CallGood(train, DOMAIN tree', p, calls'[p])
    BY <1>2, CallFacts, GoesOn DEF Changed, Splits
  <2> QED
    BY <1>2, <2>1 DEF Changed, CallsStay
<1> QED
  BY <1>1, <1>3, <1>4, DataRuns, DataStep

LEMMA SortData ==
  ASSUME IInv, DInv, NEW p \in DOMAIN calls, PopulateSort(p)
  PROVE  DInv'
<1>1. /\ status = "running" /\ calls[p].pc = "call" /\ Len(Points(p)) >= 2
      /\ UNCHANGED <<train, main, tree>>
  BY DEF PopulateSort, Active
<1>2. PICK a : a = SequentialPoints(train, p)
  OBVIOUS
<1>3. PICK d : d = Len(p) % num_dimensions
  OBVIOUS
<1>4. /\ p \in Seq(Sides) /\ p # <<>> /\ Len(p) \in Nat /\ Points(p) = a
      /\ calls[p].points = a /\ calls[p].dimension = d /\ CallHas(train, p, calls[p])
  BY <1>2, <1>3, CallFacts
<1>5. TreeGrows
  BY <1>1 DEF TreeGrows
<1>6. CASE status' = "segfault" /\ UNCHANGED <<sorts, calls>>
  <2>1. CallsStay
    BY <1>6 DEF CallsStay
  <2> QED
    BY <1>1, <1>5, <1>6, <2>1, DataRuns, DataStep
<1>7. CASE status' # "segfault"
  <2>1. /\ ~(Len(p) >= StackDepth) /\ Moves(calls', p, "sort") /\ status' = status
    BY <1>7 DEF PopulateSort, Moves
  <2>2. PICK new : AsksFor(p, a, d, new) /\ sorts' = Put(sorts, SortOf(p), new)
    <3>1. sorts' = Put(sorts, SortOf(p),
                       SortCall(Points(p), 0, LocalEnd(Points(p)), calls[p].depth,
                                calls[p].dimension, FALSE))
      BY <1>7, Zenon DEF PopulateSort
    <3>2. LocalEnd(a) = Sample(p, a)
      BY <1>4 DEF Sample
    <3>3. sorts' = Put(sorts, SortOf(p), SortCall(a, 0, Sample(p, a), calls[p].depth, d, FALSE))
      BY <1>4, <3>1, <3>2, Zenon
    <3> QED
      BY <3>3, Zenon DEF AsksFor
  <2>3. IsSortCall(new) /\ new.pc = "call" /\ SortedCall(train, new) /\ IsSampleOf(train, p, new)
    BY <1>2, <1>3, <1>4, <2>2, TrainingSet, SampleAsked
  <2>4. \A id \in DOMAIN sorts : id[1] # p
    BY <1>1, <1>4 DEF IInv, SortOwners
  <2>5. /\ RunsInv' /\ DOMAIN sorts' = DOMAIN sorts \cup {SortOf(p)}
        /\ sorts'[SortOf(p)] = new
        /\ \A id \in DOMAIN sorts : sorts'[id] = sorts[id]
    BY <1>1, <2>2, <2>3, <2>4, RunAdded DEF DInv
  <2>6. SamplesInv'
    <3>1. SortOf(p)[1] = p
      BY DEF SortOf
    <3>2. \A id \in DOMAIN sorts : SameRange(sorts[id], sorts'[id])
      BY <2>5 DEF SameRange
    <3> QED
      BY <1>1, <2>3, <2>5, <3>1, <3>2, SamplesKept DEF DInv
  <2>7. Changed(calls', p, "sort")
    BY <2>1, CallMoved DEF IInv, CallPcs
  <2>8. CallsStay
    <3>1. Len(p) < StackDepth /\ Len(calls[p].points) >= 2
      BY <1>1, <1>4, <2>1, StackAssumption
    <3>2. CallGood(train, DOMAIN tree', p, calls'[p])
      BY <1>4, <2>7, <3>1, GoesOn DEF Changed, Splits
    <3> QED
      BY <2>7, <3>2 DEF Changed, CallsStay
  <2> QED
    BY <1>1, <1>5, <2>1, <2>5, <2>6, <2>8, DataStep
<1>8. status' = "segfault" => UNCHANGED <<sorts, calls>>
  BY <1>1 DEF PopulateSort
<1> QED
  BY <1>6, <1>7, <1>8

LEMMA SplitData ==
  ASSUME IInv, DInv, NEW p \in DOMAIN calls, PopulateSplit(p)
  PROVE  DInv'
<1>1. /\ status = "running" /\ calls[p].pc = "sort" /\ SortReturned(SortOf(p))
      /\ sorts' = Drop(sorts, {SortOf(p)}) /\ Moves(calls', p, "left")
      /\ UNCHANGED <<train, status, main>>
  BY DEF PopulateSplit, Active, Moves
<1>2. PICK a : a = SequentialPoints(train, p)
  OBVIOUS
<1>3. PICK d : d = Len(p) % num_dimensions
  OBVIOUS
<1>4. PICK c : c = calls[p]
  OBVIOUS
<1>5. /\ p \in Seq(Sides) /\ p # <<>> /\ Len(p) <= StackDepth /\ CallHas(train, p, c)
      /\ c.points = a /\ c.dimension = d /\ Len(a) \in Nat
  BY <1>2, <1>3, <1>4, CallFacts
<1>6. Len(p) < StackDepth /\ Len(a) >= 2
  BY <1>1, <1>4, <1>5 DEF CallHas
<1>7. PICK num_pts : num_pts = Len(sorts[SortOf(p)].out)
  OBVIOUS
<1>8. num_pts # 1
  <2>1. num_pts = Sample(p, a)
    BY <1>1, <1>2, <1>5, <1>7, SampleTaken DEF DInv
  <2>2. Sample(p, a) \in Nat /\ Sample(p, a) >= 2
    BY <1>5, <1>6, SampleSize
  <2> QED
    BY <2>1, <2>2
<1>9. PICK node : node = SplitNode(p, d, num_pts)
  OBVIOUS
<1>10. NodeGood(train, p, node)
  BY <1>1, <1>2, <1>3, <1>5, <1>6, <1>8, <1>9, NodeMade DEF DInv
<1>11. TreeGrows /\ p \in DOMAIN tree'
  <2>1. tree' = Put(tree, p, node)
    <3>1. tree' = Put(tree, p, SplitNode(p, d, num_pts))
      BY <1>4, <1>5, <1>7 DEF PopulateSplit
    <3> QED
      BY <1>9, <3>1, Zenon
  <2>2. TreeGrows
    BY <1>10, <2>1, Zenon DEF TreeGrows
  <2>3. p \in DOMAIN tree'
    BY <2>1 DEF Put
  <2> QED
    BY <2>2, <2>3
<1>12. Changed(calls', p, "left")
  BY <1>1, CallMoved DEF IInv, CallPcs
<1>13. CallsStay
  <2>1. CallGood(train, DOMAIN tree', p, calls'[p])
    BY <1>4, <1>5, <1>6, <1>11, <1>12, GoesOn DEF Changed
  <2> QED
    BY <1>12, <2>1 DEF Changed, CallsStay
<1>14. RunsInv' /\ SamplesInv'
  BY <1>1, RunTaken DEF DInv
<1> QED
  BY <1>1, <1>11, <1>13, <1>14, DataStep

(* The call of a child. *)
IsChildOf(p, side, c) ==
  /\ c.points = ChildPoints(p, side)
  /\ c.dimension = cycle_dimensions(Len(p) % num_dimensions)
  /\ c.pc \in {"call", "not created"}

LEMMA NewCallHas ==
  ASSUME IInv, DInv, NEW p \in DOMAIN tree, NEW side \in Sides, Len(p) < StackDepth,
         NEW a, Points(p) = a, a = SequentialPoints(train, p), Len(a) >= 2,
         NEW c, IsChildOf(p, side, c), NEW nodes
  PROVE  CallGood(train, nodes, Append(p, side), c)
<1>1. p \in Seq(Sides)
  BY DEF DInv, NodesInv, NodeGood
<1>2. Len(p) \in Nat /\ Len(Append(p, side)) = Len(p) + 1
  BY <1>1, PathAppend, LenProperties
<1>3. c.points = SequentialPoints(train, Append(p, side))
  BY ChildHas DEF DInv, IsChildOf
<1>4. c.dimension = Len(Append(p, side)) % num_dimensions
  BY <1>2, LevelDimension DEF IsChildOf
<1>5. Len(Append(p, side)) <= StackDepth
  BY <1>2, StackAssumption
<1>6. c.pc \notin {"sort"} \cup Splits
  BY DEF Splits, IsChildOf
<1> QED
  BY <1>3, <1>4, <1>5, <1>6 DEF CallGood, CallHas

LEMMA ForkAdded ==
  ASSUME IInv, NEW p \in DOMAIN calls, NEW side \in Sides, NEW pc \in {"right", "join"},
         PopulateFork(p, side, pc)
  PROVE  \E f, c : /\ Changed(f, p, pc) /\ calls' = Put(f, Append(p, side), c)
                   /\ c.points = ChildPoints(p, side)
                   /\ c.dimension = cycle_dimensions(calls[p].dimension)
                   /\ c.pc \in {"call", "not created"}
                   /\ c.pc = "not created" => failed_creates' = failed_creates + 1
<1>1. PICK f : Moves(f, p, pc)
  BY DEF Moves
<1>2. Changed(f, p, pc)
  BY <1>1, CallMoved DEF IInv, CallPcs
<1> DEFINE child(thread, here) ==
             [node_info(ChildPoints(p, side), calls[p].depth + 1,
                        cycle_dimensions(calls[p].dimension), thread, thread) EXCEPT !.pc = here]
           Adds(thread, here) == calls' = Put(f, Append(p, side), child(thread, here))
           fails(here) == here = "not created" => failed_creates' = failed_creates + 1
<1>3. \E thread \in BOOLEAN, here \in {"call", "not created"} : Adds(thread, here) /\ fails(here)
  BY <1>1 DEF PopulateFork, Moves
<1>4. ASSUME NEW thread \in BOOLEAN, NEW here \in {"call", "not created"}, Adds(thread, here),
             fails(here)
      PROVE  \E c : /\ calls' = Put(f, Append(p, side), c)
                    /\ c.points = ChildPoints(p, side)
                    /\ c.dimension = cycle_dimensions(calls[p].dimension)
                    /\ c.pc \in {"call", "not created"}
                    /\ fails(c.pc)
  <2>1. PICK c : c = child(thread, here)
    OBVIOUS
  <2>2. calls' = Put(f, Append(p, side), c)
    BY <1>4, <2>1
  <2>3. PICK points, depth, dimension :
          /\ points = ChildPoints(p, side) /\ depth = calls[p].depth + 1
          /\ dimension = cycle_dimensions(calls[p].dimension)
    OBVIOUS
  <2>4. c = [points |-> points, depth |-> depth, dimension |-> dimension,
             is_thread |-> thread, thread |-> thread, pc |-> here]
    BY <2>1, <2>3 DEF node_info
  <2>5. c.points = points /\ c.dimension = dimension /\ c.pc = here
    BY <2>4
  <2> QED
    BY <1>4, <2>2, <2>3, <2>5
<1> HIDE DEF Adds, fails
<1>5. \E c : /\ calls' = Put(f, Append(p, side), c)
             /\ c.points = ChildPoints(p, side)
             /\ c.dimension = cycle_dimensions(calls[p].dimension)
             /\ c.pc \in {"call", "not created"}
             /\ fails(c.pc)
  BY <1>3, <1>4
<1> QED
  BY <1>2, <1>5 DEF fails

LEMMA ForkData ==
  ASSUME IInv, DInv, NEW p \in DOMAIN calls, NEW side \in Sides, NEW pc \in {"right", "join"},
         status = "running", calls[p].pc \in {"left", "right"}, PopulateFork(p, side, pc)
  PROVE  DInv'
<1>1. UNCHANGED <<train, sorts, status, main, tree>>
  BY DEF PopulateFork
<1>2. PICK f, c : /\ Changed(f, p, pc) /\ calls' = Put(f, Append(p, side), c)
                  /\ c.points = ChildPoints(p, side)
                  /\ c.dimension = cycle_dimensions(calls[p].dimension)
                  /\ c.pc \in {"call", "not created"}
  BY ForkAdded
<1>3. PICK a : a = SequentialPoints(train, p)
  OBVIOUS
<1>4. PICK d : d = Len(p) % num_dimensions
  OBVIOUS
<1>5. /\ p \in DOMAIN tree /\ Points(p) = a /\ calls[p].points = a /\ calls[p].dimension = d
      /\ CallHas(train, p, calls[p])
  BY <1>3, <1>4, CallFacts DEF Splits
<1>6. Len(p) < StackDepth /\ Len(a) >= 2
  BY <1>5 DEF CallHas, Splits
<1>7. CallGood(train, DOMAIN tree', Append(p, side), c)
  <2>1. IsChildOf(p, side, c)
    BY <1>2, <1>4, <1>5 DEF IsChildOf
  <2>2. p \in DOMAIN tree /\ Points(p) = a
    BY <1>5
  <2> QED
    BY <1>3, <1>6, <2>1, <2>2, NewCallHas
<1>8. CallGood(train, DOMAIN tree', p, f[p])
  BY <1>1, <1>2, <1>5, <1>6, GoesOn DEF Changed
<1>9. CallsStay
  <2>1. PICK q : q = Append(p, side)
    OBVIOUS
  <2>2. /\ DOMAIN calls' = DOMAIN calls \cup {q} /\ calls'[q] = c
        /\ \A i \in DOMAIN calls : i # q => calls'[i] = f[i]
        /\ \A i \in DOMAIN calls : i # p => f[i] = calls[i]
    BY <1>2, <2>1 DEF Put, Changed
  <2> QED
    BY <1>7, <1>8, <2>1, <2>2 DEF CallsStay
<1>10. TreeGrows
  BY <1>1 DEF TreeGrows
<1> QED
  BY <1>1, <1>9, <1>10, DataRuns, DataStep

LEMMA JoinData ==
  ASSUME IInv, DInv, NEW p \in DOMAIN calls, JoinUninitialised(p)
  PROVE  DInv'
<1>1. status = "running" /\ UNCHANGED <<train, sorts, main, tree>> /\ status' # "built"
  BY DEF JoinUninitialised, Active
<1>2. CASE UNCHANGED calls
  BY <1>1, <1>2, DataRuns, DataStep DEF CallsStay, TreeGrows
<1>3. ASSUME NEW q, Moves(calls', q, "returned") PROVE DInv'
  <2>1. CASE q \in DOMAIN calls
    <3>1. Changed(calls', q, "returned")
      BY <1>3, <2>1, CallMoved DEF IInv, CallPcs
    <3>2. CallGood(train, DOMAIN tree', q, calls'[q])
      BY <2>1, <3>1, CallFacts, GoesOn DEF Changed, Splits
    <3>3. CallsStay
      BY <3>1, <3>2 DEF Changed, CallsStay
    <3>4. TreeGrows
      BY <1>1 DEF TreeGrows
    <3> QED
      BY <1>1, <3>3, <3>4, DataRuns, DataStep
  <2>2. CASE q \notin DOMAIN calls
    <3>1. UNCHANGED calls
      BY <1>3, <2>2 DEF Moves, IInv, CallsShape
    <3> QED
      BY <1>2, <3>1
  <2> QED
    BY <2>1, <2>2
<1>4. UNCHANGED calls \/ \E q : Moves(calls', q, "returned")
  BY DEF JoinUninitialised, Moves
<1> QED
  BY <1>2, <1>3, <1>4

LEMMA ReturnData ==
  ASSUME IInv, DInv, NEW p \in DOMAIN calls, PopulateReturn(p)
  PROVE  DInv'
<1>1. PICK S : S = {Append(p, "l"), Append(p, "r")}
  OBVIOUS
<1>2. /\ status = "running" /\ calls[p].pc = "join"
      /\ UNCHANGED <<train, sorts, status, main, tree>>
  BY DEF PopulateReturn, Active
<1>3. PICK f : Moves(f, p, "returned") /\ calls' = Drop(f, S)
  BY <1>1 DEF PopulateReturn, Moves
<1>4. Changed(f, p, "returned")
  BY <1>3, CallMoved DEF IInv, CallPcs
<1>5. CallGood(train, DOMAIN tree', p, f[p])
  BY <1>4, CallFacts, GoesOn DEF Changed, Splits
<1>6. CallsStay
  <2>1. DOMAIN calls' = DOMAIN calls \ S /\ \A q \in DOMAIN calls' : calls'[q] = f[q]
    BY <1>3, <1>4 DEF Drop, Changed
  <2> QED
    BY <1>4, <1>5, <2>1 DEF Changed, CallsStay
<1>7. TreeGrows
  BY <1>2 DEF TreeGrows
<1> QED
  BY <1>2, <1>6, <1>7, DataRuns, DataStep

LEMMA PopulateData ==
  ASSUME IInv, DInv, PopulateNodes
  PROVE  DInv'
<1>1. PICK p \in DOMAIN calls :
        \/ PopulateEmpty(p) \/ PopulateLeaf(p) \/ PopulateSort(p) \/ PopulateSplit(p)
        \/ PopulateLeft(p) \/ PopulateRight(p) \/ JoinUninitialised(p) \/ PopulateReturn(p)
  BY DEF PopulateNodes
<1>2. CASE PopulateLeft(p)
  BY <1>2, ForkData DEF PopulateLeft, Active, Sides
<1>3. CASE PopulateRight(p)
  BY <1>3, ForkData DEF PopulateRight, Active, Sides
<1> QED
  BY <1>1, <1>2, <1>3, EmptyData, SortData, SplitData, JoinData, ReturnData

-----------------------------------------------------------------------------
(* The steps of make_tree. *)

LEMMA MainDataStep ==
  ASSUME DInv, train' = train, RunsInv', SamplesInv', TreeGrows, CallsStay, RootInv'
  PROVE  DInv'
<1>1. NodesInv' /\ DOMAIN tree \subseteq DOMAIN tree'
  BY NodesKept DEF DInv, TreeGrows
<1>2. CallsInv'
  BY <1>1, CallsKept DEF DInv, CallsStay
<1> QED
  BY <1>1, <1>2 DEF DInv

(* The root has all the rows and dimension 0. *)
LEMMA RootFacts ==
  ASSUME IInv
  PROVE  /\ Rows(train) = SequentialPoints(train, <<>>) /\ Points(<<>>) = Rows(train)
         /\ Len(Rows(train)) = Len(train) /\ Len(train) \in Nat
         /\ <<>> \in Seq(Sides) /\ Len(<<>>) = 0 /\ Len(<<>>) < StackDepth
         /\ Len(<<>>) % num_dimensions = 0
<1>1. Len(train) \in Nat
  BY TrainingSet
<1>2. Rows(train) = SequentialPoints(train, <<>>)
  BY SequentialRoot
<1>3. Points(<<>>) = Rows(train)
  BY DEF Points
<1>4. Len(Rows(train)) = Len(train)
  <2>1. PICK n \in Nat : n = Len(train)
    BY <1>1
  <2>2. Rows(train) = [i \in 1 .. n |-> i]
    BY <2>1 DEF Rows
  <2>3. Rows(train) \in Seq(Nat) /\ Len(Rows(train)) = n
    BY <2>2
  <2> QED
    BY <2>1, <2>3
<1>5. <<>> \in Seq(Sides) /\ Len(<<>>) = 0 /\ 0 < StackDepth
  BY StackAssumption
<1>6. 0 % num_dimensions = 0
  BY LevelDimension
<1>7. Len(<<>>) % num_dimensions = 0
  BY <1>5, <1>6, Zenon
<1> QED
  BY <1>1, <1>2, <1>3, <1>4, <1>5, <1>7

LEMMA LeafOfMain ==
  ASSUME IInv, DInv, MakeTreeLeaf
  PROVE  DInv'
<1>1. /\ main.pc = "main" /\ Len(train) = 1 /\ tree' = Put(tree, <<>>, Node(0, 0, 1, 1))
      /\ UNCHANGED <<train, sorts, main, calls>>
  BY DEF MakeTreeLeaf, MainAt
<1>2. PICK p : p = <<>>
  OBVIOUS
<1>3. PICK a : a = Rows(train)
  OBVIOUS
<1>4. PICK node : node = Node(0, 0, 1, 1)
  OBVIOUS
<1>5. /\ a = SequentialPoints(train, p) /\ Len(a) = 1
      /\ p \in Seq(Sides) /\ Len(p) <= StackDepth
  BY <1>1, <1>2, <1>3, RootFacts, StackAssumption
<1>6. a[1] = 1
  BY <1>1, <1>3 DEF Rows
<1>7. NodeGood(train, p, node)
  <2>1. PICK d : d = Len(p) % num_dimensions
    OBVIOUS
  <2>2. d = 0
    BY <1>2, <2>1, RootFacts
  <2>3. node = Node(d, 0, 1, a[1])
    BY <1>4, <1>6, <2>2
  <2>4. IsNodeOf(train, p, node)
    BY <1>5, <2>1, <2>3 DEF IsNodeOf
  <2> QED
    BY <1>5, <2>4 DEF NodeGood
<1>8. tree' = Put(tree, p, node)
  BY <1>1, <1>2, <1>4
<1>9. TreeGrows
  BY <1>7, <1>8, Zenon DEF TreeGrows
<1>10. <<>> \in DOMAIN tree'
  BY <1>2, <1>8 DEF Put
<1>11. CallsStay
  BY <1>1 DEF CallsStay
<1>12. RootInv'
  BY <1>1, <1>10 DEF RootInv
<1> QED
  BY <1>1, <1>9, <1>11, <1>12, DataRuns, MainDataStep

LEMMA SortOfMain ==
  ASSUME IInv, DInv, MakeTreeSort
  PROVE  DInv'
<1>1. /\ main.pc = "main" /\ status = "running" /\ Len(train) >= 2
      /\ main' = [main EXCEPT !.pc = "sort"]
      /\ UNCHANGED <<train, status, calls, tree>>
  BY DEF MakeTreeSort, MainAt
<1>2. PICK p : p = <<>>
  OBVIOUS
<1>3. PICK a : a = Rows(train)
  OBVIOUS
<1>4. PICK d : d = Len(p) % num_dimensions
  OBVIOUS
<1>5. a = SequentialPoints(train, p) /\ p \in Seq(Sides)
  BY <1>2, <1>3, RootFacts
<1>6. PICK new : AsksFor(p, a, d, new) /\ sorts' = Put(sorts, SortOf(p), new)
  <2>1. Sample(p, a) = RootSample(train)
    BY <1>2, <1>3, RootFacts DEF Sample, RootSample
  <2>2. sorts' = Put(sorts, SortOf(p), SortCall(a, 0, RootSample(train), 0, 0, FALSE))
    BY <1>2, <1>3, Zenon DEF MakeTreeSort
  <2>3. d = 0
    BY <1>2, <1>4, RootFacts
  <2>4. sorts' = Put(sorts, SortOf(p), SortCall(a, 0, Sample(p, a), 0, d, FALSE))
    BY <2>1, <2>2, <2>3, Zenon
  <2> QED
    BY <2>4, Zenon DEF AsksFor
<1>7. IsSortCall(new) /\ new.pc = "call" /\ SortedCall(train, new) /\ IsSampleOf(train, p, new)
  BY <1>4, <1>5, <1>6, TrainingSet, SampleAsked
<1>8. \A id \in DOMAIN sorts : id[1] # p
  <2>1. DOMAIN calls = {}
    BY <1>1 DEF IInv, MainInv
  <2>2. DOMAIN sorts = {}
    BY <1>1, <2>1, Alone
  <2> QED
    BY <2>2
<1>9. /\ RunsInv' /\ DOMAIN sorts' = DOMAIN sorts \cup {SortOf(p)}
      /\ sorts'[SortOf(p)] = new
      /\ \A id \in DOMAIN sorts : sorts'[id] = sorts[id]
  BY <1>1, <1>6, <1>7, <1>8, RunAdded DEF DInv
<1>10. SamplesInv'
  <2>1. SortOf(p)[1] = p
    BY DEF SortOf
  <2>2. \A id \in DOMAIN sorts : SameRange(sorts[id], sorts'[id])
    BY <1>9 DEF SameRange
  <2> QED
    BY <1>1, <1>7, <1>9, <2>1, <2>2, SamplesKept DEF DInv
<1>11. CallsStay /\ TreeGrows
  BY <1>1 DEF CallsStay, TreeGrows
<1>12. RootInv'
  <2>1. main'.pc = "sort"
    BY <1>1, MainMoved DEF MainPcs
  <2> QED
    BY <1>1, <2>1 DEF RootInv
<1> QED
  BY <1>1, <1>9, <1>10, <1>11, <1>12, MainDataStep

LEMMA AskLeftData ==
  ASSUME IInv, IInv', DInv, MakeTreeAskLeft
  PROVE  DInv'
<1>1. /\ main.pc = "sort" /\ SortReturned(SortOf(<<>>))
      /\ tree' = Put(tree, <<>>, SplitNode(<<>>, 0, Len(train)))
      /\ sorts' = Drop(sorts, {SortOf(<<>>)})
      /\ UNCHANGED <<train, status, calls>>
  BY DEF MakeTreeAskLeft, MainAt
<1>2. PICK p : p = <<>>
  OBVIOUS
<1>3. PICK a : a = SequentialPoints(train, p)
  OBVIOUS
<1>4. PICK d : d = Len(p) % num_dimensions
  OBVIOUS
<1>5. PICK num_pts : num_pts = Len(train)
  OBVIOUS
<1>6. PICK node : node = SplitNode(p, d, num_pts)
  OBVIOUS
<1>7. num_pts \in Nat /\ num_pts >= 2 /\ Len(a) = num_pts
  <2>1. Len(train) >= 2
    BY <1>1 DEF DInv, RootInv
  <2> QED
    BY <1>2, <1>3, <1>5, <2>1, RootFacts
<1>8. NodeGood(train, p, node)
  <2>1. p \in Seq(Sides) /\ Len(p) <= StackDepth /\ SortReturned(SortOf(p))
    BY <1>1, <1>2, RootFacts, StackAssumption
  <2>2. num_pts # 1 /\ Len(a) \in Nat /\ Len(a) >= 2
    BY <1>7
  <2> QED
    BY <1>3, <1>4, <1>6, <2>1, <2>2, NodeMade DEF DInv
<1>9. tree' = Put(tree, p, node)
  <2>1. d = 0
    BY <1>2, <1>4, RootFacts
  <2> QED
    BY <1>1, <1>2, <1>5, <1>6, <2>1, Zenon
<1>10. TreeGrows
  BY <1>8, <1>9, Zenon DEF TreeGrows
<1>11. <<>> \in DOMAIN tree'
  BY <1>2, <1>9 DEF Put
<1>12. CallsStay
  BY <1>1 DEF CallsStay
<1>13. RootInv'
  BY <1>1, <1>5, <1>7, <1>11 DEF RootInv
<1>14. RunsInv' /\ SamplesInv'
  BY <1>1, RunTaken DEF DInv
<1> QED
  BY <1>1, <1>10, <1>12, <1>13, <1>14, MainDataStep

LEMMA AskRightData ==
  ASSUME DInv, MakeTreeAskRight
  PROVE  DInv'
<1>1. main.pc = "ask right" /\ UNCHANGED <<train, sorts, status, calls, tree>>
  BY DEF MakeTreeAskRight, MainAt
<1>2. CallsStay /\ TreeGrows
  BY <1>1 DEF CallsStay, TreeGrows
<1>3. RootInv'
  BY <1>1 DEF DInv, RootInv
<1> QED
  BY <1>1, <1>2, <1>3, DataRuns, MainDataStep

(* The steps that create the threads of the root's children or build them. *)
LEMMA RootData ==
  ASSUME IInv, DInv, main.pc \in AfterRight, status' # "built",
         UNCHANGED <<train, sorts, tree>>, NEW side \in Sides, NEW thread \in BOOLEAN,
         \/ calls' = calls
         \/ calls' = Put(calls, <<side>>, RootChild(side, thread))
  PROVE  DInv'
<1>1. PICK c : c = RootChild(side, thread)
  OBVIOUS
<1>2. PICK p : p = <<>>
  OBVIOUS
<1>3. PICK a : a = Rows(train)
  OBVIOUS
<1>4. Append(p, side) = <<side>>
  BY <1>2
<1>5. IsChildOf(p, side, c)
  <2>1. c.pc = "call"
    BY <1>1, RootChildCall
  <2>2. c.points = ChildPoints(p, side) /\ c.dimension = cycle_dimensions(0)
    BY <1>1, <1>2 DEF RootChild, node_info
  <2>3. Len(p) % num_dimensions = 0
    BY <1>2, RootFacts
  <2>4. c.dimension = cycle_dimensions(Len(p) % num_dimensions)
    BY <2>2, <2>3, Zenon
  <2> QED
    BY <2>1, <2>2, <2>4, Zenon DEF IsChildOf
<1>6. main.pc \notin {"main", "sort"}
  BY DEF AfterRight
<1>7. p \in DOMAIN tree /\ Len(train) >= 2
  BY <1>2, <1>6 DEF DInv, RootInv
<1>8. /\ Len(p) < StackDepth /\ Points(p) = a /\ a = SequentialPoints(train, p)
      /\ Len(a) >= 2
  BY <1>2, <1>3, <1>7, RootFacts
<1>9. CallGood(train, DOMAIN tree', <<side>>, c)
  BY <1>4, <1>5, <1>7, <1>8, NewCallHas
<1>10. CallsStay
  <2>1. CASE calls' = calls
    BY <2>1 DEF CallsStay
  <2>2. CASE calls' = Put(calls, <<side>>, c)
    <3>1. /\ DOMAIN calls' = DOMAIN calls \cup {<<side>>} /\ calls'[<<side>>] = c
          /\ \A i \in DOMAIN calls : i # <<side>> => calls'[i] = calls[i]
      BY <2>2 DEF Put
    <3> QED
      BY <1>9, <3>1 DEF CallsStay
  <2> QED
    BY <1>1, <2>1, <2>2
<1>11. TreeGrows
  BY DEF TreeGrows
<1>12. RootInv'
  BY <1>2, <1>7 DEF RootInv
<1> QED
  BY <1>10, <1>11, <1>12, DataRuns, MainDataStep

LEMMA ReturnOfMain ==
  ASSUME DInv, MakeTreeReturn
  PROVE  DInv'
<1>1. /\ main.pc = "return" /\ UNCHANGED <<train, sorts, main, tree>>
      /\ calls' = Drop(calls, {<<"l">>, <<"r">>})
  BY DEF MakeTreeReturn, MainAt
<1>2. CallsStay /\ TreeGrows
  BY <1>1 DEF CallsStay, TreeGrows, Drop
<1>3. RootInv'
  BY <1>1 DEF DInv, RootInv
<1> QED
  BY <1>1, <1>2, <1>3, DataRuns, MainDataStep

LEMMA MakeTreeData ==
  ASSUME IInv, IInv', DInv, MakeTree
  PROVE  DInv'
<1>1. CASE MakeTreeEmpty
  <2>1. UNCHANGED <<train, sorts, main, calls, tree>> /\ status' # "built"
    BY <1>1 DEF MakeTreeEmpty
  <2>2. CallsStay /\ TreeGrows
    BY <2>1 DEF CallsStay, TreeGrows
  <2> QED
    BY <2>1, <2>2, DataRuns, DataStep
<1>2. ASSUME NEW side \in Sides, NEW made, NEW here \in {"create left", "create right"}, NEW next,
             MakeTreeCreate(side, made, here, next)
      PROVE  DInv'
  <2>1. /\ main.pc \in AfterRight /\ status' # "built" /\ UNCHANGED <<train, sorts, tree>>
        /\ calls' = calls \/ calls' = Put(calls, <<side>>, RootChild(side, TRUE))
    BY <1>2 DEF MakeTreeCreate, MainAt, AfterRight
  <2>2. PICK thread \in BOOLEAN : thread = TRUE
    OBVIOUS
  <2>3. calls' = calls \/ calls' = Put(calls, <<side>>, RootChild(side, thread))
    BY <2>1, <2>2, Zenon
  <2> QED
    BY <1>2, <2>1, <2>3, RootData
<1>3. ASSUME NEW side \in Sides, NEW made, NEW here \in {"left", "right"}, NEW next,
             MainAt(here), MakeTreeRun(side, made, next)
      PROVE  DInv'
  <2>1. /\ main.pc \in AfterRight /\ status' # "built" /\ UNCHANGED <<train, sorts, tree>>
        /\ calls' = calls \/ calls' = Put(calls, <<side>>, RootChild(side, FALSE))
    BY <1>3 DEF MakeTreeRun, MainAt, AfterRight
  <2>2. PICK thread \in BOOLEAN : thread = FALSE
    OBVIOUS
  <2>3. calls' = calls \/ calls' = Put(calls, <<side>>, RootChild(side, thread))
    BY <2>1, <2>2, Zenon
  <2> QED
    BY <1>3, <2>1, <2>3, RootData
<1>4. CASE MakeTreeRunLeft \/ MakeTreeRunRight
  BY <1>3, <1>4 DEF MakeTreeRunLeft, MakeTreeRunRight, Sides
<1>5. CASE \/ MakeTreeCreate("l", main.l, "create left", "create right")
           \/ MakeTreeCreate("r", main.r, "create right", "left")
  BY <1>2, <1>5 DEF Sides
<1> QED
  BY <1>1, <1>4, <1>5, LeafOfMain, SortOfMain, AskLeftData, AskRightData, ReturnOfMain
  DEF MakeTree

-----------------------------------------------------------------------------
LEMMA DInvInit == Init => DInv
<1> SUFFICES ASSUME Init PROVE DInv
  OBVIOUS
<1>1. /\ train \in Datasets /\ sorts = <<>> /\ DOMAIN sorts = {}
      /\ DOMAIN calls = {} /\ DOMAIN tree = {} /\ main.pc = "main" /\ status = "running"
  BY DEF Init
<1>2. SortsShape
  BY <1>1, FS_EmptySet DEF SortsShape
<1>3. RunsInv /\ SamplesInv
  BY <1>1, <1>2 DEF RunsInv, SamplesInv
<1>4. CallsInv /\ NodesInv /\ RootInv
  BY <1>1 DEF CallsInv, NodesInv, RootInv
<1> QED
  BY <1>3, <1>4 DEF DInv

LEMMA DInvStep == IInv /\ IInv' /\ DInv /\ [Next]_vars => DInv'
<1> SUFFICES ASSUME IInv, IInv', DInv, [Next]_vars PROVE DInv'
  OBVIOUS
<1>1. CASE UNCHANGED vars
  <2>1. UNCHANGED <<train, sorts, status, main, calls, tree>>
    BY <1>1 DEF vars, sortVars
  <2>2. CallsStay /\ TreeGrows
    BY <2>1 DEF CallsStay, TreeGrows
  <2>3. RootInv'
    BY <2>1 DEF DInv, RootInv
  <2> QED
    BY <2>1, <2>2, <2>3, DataRuns, MainDataStep
<1>2. CASE Sorting
  <2>1. SortStep /\ UNCHANGED <<train, main, calls, tree>> /\ status' # "built"
    BY <1>2
    DEF Sorting, SortStep, SortBase, SortAssert, SortSerial, SortLeft, SortRight, SortMerge, SortFork
  <2>2. RunsInv' /\ SamplesInv'
    BY <2>1, SortKeepsRuns, SortKeepsSamples DEF DInv
  <2>3. CallsStay /\ TreeGrows
    BY <2>1 DEF CallsStay, TreeGrows
  <2> QED
    BY <2>1, <2>2, <2>3, DataStep
<1> QED
  BY <1>1, <1>2, MakeTreeData, PopulateData DEF Next, Step, Over

(* The invariant of a build and of its data, on at least one core. *)
LEMMA DInvAlways == cores >= 1 /\ Spec => [](IInv /\ DInv)
<1>1. Init /\ cores >= 1 => IInv /\ DInv
  BY IInvInit, DInvInit
<1>2. IInv /\ DInv /\ [Next]_vars => IInv' /\ DInv'
  BY IInvStep, DInvStep
<1> QED
  BY <1>1, <1>2, PTL DEF Spec

LEMMA NodeIsSequential ==
  ASSUME NEW t, NEW p, NEW node, IsNodeOf(t, p, node)
  PROVE  /\ IsSequentialNode(t, p)
         /\ node.dimension = SequentialNode(t, p).dimension
         /\ node.median = SequentialNode(t, p).median
         /\ node.point = SequentialNode(t, p).point
<1>1. PICK a : a = SequentialPoints(t, p)
  OBVIOUS
<1>2. PICK d : d = Len(p) % num_dimensions
  OBVIOUS
<1>3. PICK m : m = SequentialMedian(t, p, a)
  OBVIOUS
<1>4. PICK n : n = IF p = <<>> THEN Len(a) ELSE Sample(p, a)
  OBVIOUS
<1>5. SequentialNode(t, p) = IF Len(a) = 1 THEN Node(d, 0, 1, a[1]) ELSE Node(d, m, n, NoPoint)
  BY <1>1, <1>2, <1>3, <1>4, Zenon DEF SequentialNode
<1>6. \/ Len(a) = 1 /\ node = Node(d, 0, 1, a[1])
      \/ /\ Len(a) >= 2 /\ node.dimension = d /\ node.median = m /\ node.point = NoPoint
  BY <1>1, <1>2, <1>3, Zenon DEF IsNodeOf
<1>7. a # <<>> /\ (Len(a) >= 2 => Len(a) # 1)
  <2>1. PICK z : z = <<>> /\ Len(z) = 0
    OBVIOUS
  <2>2. PICK n1 : n1 = Len(a) /\ (n1 = 1 \/ n1 >= 2)
    BY <1>6
  <2>3. n1 # 0 /\ (n1 >= 2 => n1 # 1)
    BY <2>2
  <2> QED
    BY <2>1, <2>2, <2>3, Zenon
<1>8. CASE Len(a) = 1 /\ node = Node(d, 0, 1, a[1])
  <2>1. node = SequentialNode(t, p)
    BY <1>5, <1>8, Zenon
  <2> QED
    BY <1>1, <1>7, <2>1, Zenon DEF IsSequentialNode
<1>9. CASE Len(a) >= 2 /\ node.dimension = d /\ node.median = m /\ node.point = NoPoint
  <2>1. SequentialNode(t, p) = Node(d, m, n, NoPoint)
    BY <1>5, <1>7, <1>9, Zenon
  <2>2. PICK r : r = SequentialNode(t, p)
    OBVIOUS
  <2>3. r = Node(d, m, n, NoPoint)
    BY <2>1, <2>2, Zenon
  <2>4. r.dimension = d /\ r.median = m /\ r.point = NoPoint
    BY <2>3 DEF Node
  <2> QED
    BY <1>1, <1>7, <1>9, <2>2, <2>4, Zenon DEF IsSequentialNode
<1> QED
  BY <1>6, <1>8, <1>9

(* Every node built is the one the sequential recursion puts there: for any number of     *)
(* cores from one, training set, schedule of the threads and failures of pthread_create,  *)
(* the tree depends on none of them but the training set.                                  *)
THEOREM TreeIsSequentialAlways == cores >= 1 /\ Spec => []TreeIsSequential
<1>1. IInv /\ DInv => TreeIsSequential
  <2> SUFFICES ASSUME DInv, NEW p \in DOMAIN tree
               PROVE  /\ IsSequentialNode(train, p)
                      /\ tree[p].dimension = SequentialNode(train, p).dimension
                      /\ tree[p].median = SequentialNode(train, p).median
                      /\ tree[p].point = SequentialNode(train, p).point
    BY DEF TreeIsSequential
  <2>1. IsNodeOf(train, p, tree[p])
    BY DEF DInv, NodesInv, NodeGood
  <2> QED
    BY <2>1, NodeIsSequential
<1> QED
  BY <1>1, DInvAlways, PTL

(* Every sort of a sample that has returned has the stable sort of its range: in a build   *)
(* too, where the sorts of many nodes draw on one budget.                                   *)
THEOREM SortedRunsInBuild == cores >= 1 /\ Spec => []SortedRuns
<1>1. IInv /\ DInv => SortedRuns
  BY RunsSorted DEF DInv
<1> QED
  BY <1>1, DInvAlways, PTL

-----------------------------------------------------------------------------
(* Nothing is left out, as long as every thread can be created: a node that splits has a *)
(* child on either side, or a call that builds it, or is still to call it; a half         *)
(* without points needs no child.                                                         *)

Built(p) == p \in DOMAIN tree \/ SequentialPoints(train, p) = <<>>

(* The call for p, or make_tree for the root, is still to call the child of a side. *)
ToCall(p, side) ==
  IF p = <<>>
    THEN \/ main.pc \in {"ask right", "create left"}
         \/ side = "l" /\ main.pc \in {"create right", "left"} /\ ~main.l
         \/ side = "r" /\ main.pc = "create right"
         \/ side = "r" /\ main.pc \in {"left", "right"} /\ ~main.r
    ELSE p \in DOMAIN calls /\ (calls[p].pc = "left" \/ (calls[p].pc = "right" /\ side = "r"))

Attended(p, side) ==
  Append(p, side) \in DOMAIN calls \/ Built(Append(p, side)) \/ ToCall(p, side)

Splitting(nodes, p) == p \in DOMAIN nodes /\ nodes[p].point = NoPoint

ChildrenHold ==
  /\ \A p \in DOMAIN calls : calls[p].pc = "returned" => Built(p)
  /\ \A p \in DOMAIN calls : calls[p].pc # "not created"
  /\ \A p : Splitting(tree, p) => \A side \in Sides : Attended(p, side)

ChildrenInv == failed_creates = 0 => ChildrenHold

(* What a step may do to the calls and the nodes. *)
CallsBuild ==
  /\ \A q \in DOMAIN calls : q \in DOMAIN calls' \/ calls[q].pc = "returned"
  /\ \A q \in DOMAIN calls' :
       \/ q \in DOMAIN calls /\ calls'[q] = calls[q]
       \/ calls'[q].pc # "not created" /\ (calls'[q].pc = "returned" => Built(q)')

TreeBuilds ==
  /\ DOMAIN tree \subseteq DOMAIN tree'
  /\ \A q : Splitting(tree', q) => Splitting(tree, q) \/ \A side \in Sides : ToCall(q, side)'

ToCallLeft == \A q : \A side \in Sides :
                ToCall(q, side) => ToCall(q, side)' \/ Append(q, side) \in DOMAIN calls'

LEMMA ChildrenKept ==
  ASSUME ChildrenHold, train' = train, CallsBuild, TreeBuilds, ToCallLeft
  PROVE  ChildrenHold'
<1>1. ASSUME NEW p, Built(p) PROVE Built(p)'
  BY <1>1 DEF Built, TreeBuilds
<1>2. \A p \in DOMAIN calls' : calls'[p].pc = "returned" => Built(p)'
  BY <1>1 DEF CallsBuild, ChildrenHold
<1>3. \A p \in DOMAIN calls' : calls'[p].pc # "not created"
  BY DEF CallsBuild, ChildrenHold
<1>4. ASSUME NEW p, NEW side \in Sides, Attended(p, side) PROVE Attended(p, side)'
  <2>1. PICK q : q = Append(p, side)
    OBVIOUS
  <2>2. CASE q \in DOMAIN calls
    <3>1. q \in DOMAIN calls' \/ calls[q].pc = "returned"
      BY <2>2 DEF CallsBuild
    <3>2. calls[q].pc = "returned" => Built(q)
      BY <2>2 DEF ChildrenHold
    <3> QED
      BY <1>1, <2>1, <3>1, <3>2 DEF Attended
  <2>3. CASE Built(q)
    BY <1>1, <2>1, <2>3 DEF Attended
  <2>4. CASE ToCall(p, side)
    BY <2>4 DEF Attended, ToCallLeft
  <2> QED
    BY <1>4, <2>1, <2>2, <2>3, <2>4 DEF Attended
<1>5. ASSUME NEW p, Splitting(tree', p), NEW side \in Sides PROVE Attended(p, side)'
  <2>1. CASE Splitting(tree, p)
    BY <1>4, <1>5, <2>1 DEF ChildrenHold
  <2>2. CASE ToCall(p, side)'
    BY <2>2 DEF Attended
  <2> QED
    BY <1>5, <2>1, <2>2 DEF TreeBuilds
<1> QED
  BY <1>2, <1>3, <1>5 DEF ChildrenHold

LEMMA StillToCall ==
  ASSUME main' = main,
         \A q \in DOMAIN calls : calls[q].pc \in {"left", "right"} =>
           q \in DOMAIN calls' /\ calls'[q].pc = calls[q].pc
  PROVE  ToCallLeft
<1> SUFFICES ASSUME NEW q, NEW side \in Sides, ToCall(q, side) PROVE ToCall(q, side)'
  BY DEF ToCallLeft
<1>1. CASE q = <<>>
  BY <1>1 DEF ToCall
<1>2. CASE q # <<>>
  BY <1>2 DEF ToCall
<1> QED
  BY <1>1, <1>2

LEMMA TreeStays == tree' = tree => TreeBuilds
  BY DEF TreeBuilds, Splitting

(* A call goes on without a fork. *)
LEMMA MovedBuilds ==
  ASSUME main' = main, NEW p \in DOMAIN calls, NEW pc, Changed(calls', p, pc),
         calls[p].pc \notin {"left", "right"}, pc # "not created", pc = "returned" => Built(p)'
  PROVE  CallsBuild /\ ToCallLeft
<1>1. CallsBuild
  BY DEF Changed, CallsBuild
<1>2. \A q \in DOMAIN calls : calls[q].pc \in {"left", "right"} =>
        q \in DOMAIN calls' /\ calls'[q].pc = calls[q].pc
  BY DEF Changed
<1> QED
  BY <1>1, <1>2, StillToCall

LEMMA LeafPoint ==
  ASSUME NEW t, NEW a \in Seq(DOMAIN t), t \in Seq([1 .. num_dimensions -> Nat]), Len(a) = 1
  PROVE  a[1] \in DOMAIN t /\ a[1] # NoPoint
<1>1. a[1] \in DOMAIN t
  OBVIOUS
<1>2. DOMAIN t = 1 .. Len(t) /\ Len(t) \in Nat
  OBVIOUS
<1> QED
  BY <1>1, <1>2 DEF NoPoint

LEMMA EmptyChildren ==
  ASSUME IInv, DInv, ChildrenHold, NEW p \in DOMAIN calls, PopulateEmpty(p) \/ PopulateLeaf(p)
  PROVE  ChildrenHold'
<1>1. /\ calls[p].pc = "call" /\ Moves(calls', p, "returned") /\ UNCHANGED <<train, main>>
  BY DEF PopulateEmpty, PopulateLeaf, Active, Moves
<1>2. Changed(calls', p, "returned")
  BY <1>1, CallMoved DEF IInv, CallPcs
<1>3. PICK a : a = SequentialPoints(train, p)
  OBVIOUS
<1>4. Points(p) = a /\ a \in Seq(DOMAIN train)
  BY <1>3, CallFacts, TrainingSet, SequentialVector
<1>5. Built(p)' /\ TreeBuilds
  <2>1. CASE PopulateEmpty(p)
    <3>1. Len(a) = 0 /\ tree' = tree
      BY <1>4, <2>1 DEF PopulateEmpty
    <3>2. a = <<>>
      BY <1>4, <3>1
    <3> QED
      BY <1>1, <1>3, <3>1, <3>2, TreeStays DEF Built
  <2>2. CASE PopulateLeaf(p)
    <3>1. PICK node : node = Node(calls[p].dimension, 0, 1, a[1])
      OBVIOUS
    <3>2. Len(a) = 1 /\ tree' = Put(tree, p, node)
      BY <1>4, <2>2, <3>1 DEF PopulateLeaf
    <3>3. node.point # NoPoint
      <4>1. a[1] # NoPoint
        BY <1>4, <3>2, TrainingSet, LeafPoint DEF IsTraining
      <4> QED
        BY <3>1, <4>1 DEF Node
    <3>4. /\ DOMAIN tree' = DOMAIN tree \cup {p} /\ tree'[p] = node
          /\ \A q \in DOMAIN tree : q # p => tree'[q] = tree[q]
      BY <3>2, NodePut
    <3> QED
      BY <3>3, <3>4 DEF Built, TreeBuilds, Splitting
  <2> QED
    BY <2>1, <2>2
<1> QED
  BY <1>1, <1>2, <1>5, MovedBuilds, ChildrenKept

LEMMA SortChildren ==
  ASSUME IInv, ChildrenHold, NEW p \in DOMAIN calls, PopulateSort(p)
  PROVE  ChildrenHold'
<1>1. calls[p].pc = "call" /\ UNCHANGED <<train, main, tree>>
  BY DEF PopulateSort, Active
<1>2. CASE Moves(calls', p, "sort")
  <2>1. Changed(calls', p, "sort")
    BY <1>2, CallMoved DEF IInv, CallPcs
  <2> QED
    BY <1>1, <2>1, MovedBuilds, TreeStays, ChildrenKept
<1>3. CASE UNCHANGED calls
  <2>1. CallsBuild
    BY <1>3 DEF CallsBuild
  <2> QED
    BY <1>1, <1>3, <2>1, StillToCall, TreeStays, ChildrenKept
<1> QED
  BY <1>2, <1>3 DEF PopulateSort, Moves

LEMMA SplitChildren ==
  ASSUME IInv, ChildrenHold, NEW p \in DOMAIN calls, PopulateSplit(p)
  PROVE  ChildrenHold'
<1>1. calls[p].pc = "sort" /\ Moves(calls', p, "left") /\ UNCHANGED <<train, main>>
  BY DEF PopulateSplit, Active, Moves
<1>2. Changed(calls', p, "left")
  BY <1>1, CallMoved DEF IInv, CallPcs
<1>3. CallsBuild /\ ToCallLeft
  BY <1>1, <1>2, MovedBuilds
<1>4. TreeBuilds
  <2>1. PICK node : tree' = Put(tree, p, node)
    BY DEF PopulateSplit
  <2>2. /\ DOMAIN tree' = DOMAIN tree \cup {p}
        /\ \A q \in DOMAIN tree : q # p => tree'[q] = tree[q]
    BY <2>1, NodePut
  <2>3. p # <<>>
    BY Named, EmptySeq DEF IInv
  <2>4. \A side \in Sides : ToCall(p, side)'
    BY <1>2, <2>3 DEF ToCall, Changed
  <2> QED
    BY <2>2, <2>4 DEF TreeBuilds, Splitting
<1> QED
  BY <1>1, <1>3, <1>4, ChildrenKept

LEMMA NoFailure ==
  ASSUME failed_creates = 0, failed_creates' = 0
  PROVE  ~(failed_creates' = failed_creates + 1)
  OBVIOUS

LEMMA ForkChildren ==
  ASSUME IInv, ChildrenHold, failed_creates = 0, failed_creates' = 0,
         NEW p \in DOMAIN calls, NEW side \in Sides, NEW pc \in {"right", "join"},
         (calls[p].pc = "left" /\ side = "l" /\ pc = "right")
           \/ (calls[p].pc = "right" /\ side = "r" /\ pc = "join"),
         PopulateFork(p, side, pc)
  PROVE  ChildrenHold'
<1>1. UNCHANGED <<train, main, tree>>
  BY DEF PopulateFork
<1>2. PICK f, c : /\ Changed(f, p, pc) /\ calls' = Put(f, Append(p, side), c)
                  /\ c.pc \in {"call", "not created"}
                  /\ c.pc = "not created" => failed_creates' = failed_creates + 1
  BY ForkAdded
<1>3. c.pc = "call"
  BY <1>2, NoFailure, Zenon
<1>4. PICK x : x = Append(p, side)
  OBVIOUS
<1>5. p \in Seq(Sides) /\ Len(p) \in Nat /\ Len(p) >= 1 /\ p # <<>>
  BY Named, EmptySeq DEF IInv
<1>6. x # p /\ x \notin DOMAIN calls
  <2>1. Len(x) > 1 /\ Owner(x) = p /\ x[Len(x)] = side /\ x # p
    BY <1>4, <1>5, ChildName
  <2>2. ~CallLeads(calls[p].pc, side)
    BY DEF CallLeads
  <2> QED
    BY <2>1, <2>2 DEF IInv, CallNames
<1>7. /\ DOMAIN calls' = DOMAIN calls \cup {x} /\ calls'[x] = c
      /\ calls'[p].pc = pc
      /\ \A q \in DOMAIN calls : q # p => calls'[q] = calls[q]
  BY <1>2, <1>4, <1>6 DEF Put, Changed
<1>8. CallsBuild
  BY <1>3, <1>7 DEF CallsBuild
<1>9. ToCallLeft
  <2> SUFFICES ASSUME NEW q, NEW s \in Sides, ToCall(q, s)
               PROVE  ToCall(q, s)' \/ Append(q, s) \in DOMAIN calls'
    BY DEF ToCallLeft
  <2>1. CASE q = <<>>
    BY <1>1, <2>1 DEF ToCall
  <2>2. CASE q # <<>> /\ q # p
    BY <1>7, <2>2 DEF ToCall
  <2>3. CASE q = p
    <3>1. CASE s = side
      BY <1>4, <1>7, <2>3, <3>1
    <3>2. CASE s # side
      <4>1. calls[p].pc = "left" /\ s = "r" /\ pc = "right"
        BY <1>5, <2>3, <3>2 DEF ToCall, Sides
      <4> QED
        BY <1>5, <1>7, <2>3, <4>1 DEF ToCall
    <3> QED
      BY <3>1, <3>2
  <2> QED
    BY <2>1, <2>2, <2>3
<1> QED
  BY <1>1, <1>8, <1>9, TreeStays, ChildrenKept

LEMMA JoinChildren ==
  ASSUME IInv, ChildrenHold, NEW p \in DOMAIN calls, JoinUninitialised(p)
  PROVE  ChildrenHold'
<1>1. UNCHANGED <<train, main, tree>>
  BY DEF JoinUninitialised
<1>2. UNCHANGED calls \/ \E q : calls[q].pc = "not created" /\ Moves(calls', q, "returned")
  BY DEF JoinUninitialised, Moves
<1>3. UNCHANGED calls
  <2>1. ASSUME NEW q, calls[q].pc = "not created", Moves(calls', q, "returned")
        PROVE  UNCHANGED calls
    <3>1. q \notin DOMAIN calls
      BY <2>1 DEF ChildrenHold
    <3> QED
      BY <2>1, <3>1 DEF Moves, IInv, CallsShape
  <2> QED
    BY <1>2, <2>1
<1>4. CallsBuild
  BY <1>3 DEF CallsBuild
<1> QED
  BY <1>1, <1>3, <1>4, StillToCall, TreeStays, ChildrenKept

LEMMA ReturnChildren ==
  ASSUME IInv, DInv, ChildrenHold, NEW p \in DOMAIN calls, PopulateReturn(p)
  PROVE  ChildrenHold'
<1>1. PICK S : S = {Append(p, "l"), Append(p, "r")}
  OBVIOUS
<1>2. /\ calls[p].pc = "join" /\ \A q \in S : Returned(q)
      /\ UNCHANGED <<train, main, tree>>
  BY <1>1 DEF PopulateReturn, Active
<1>3. PICK f : Moves(f, p, "returned") /\ calls' = Drop(f, S)
  BY <1>1 DEF PopulateReturn, Moves
<1>4. Changed(f, p, "returned")
  BY <1>3, CallMoved DEF IInv, CallPcs
<1>5. Built(p)'
  <2>1. p \in DOMAIN tree
    BY <1>2, CallFacts DEF Splits
  <2> QED
    BY <1>2, <2>1 DEF Built
<1>6. /\ DOMAIN calls' = DOMAIN calls \ S /\ \A q \in DOMAIN calls' : calls'[q] = f[q]
      /\ \A q \in DOMAIN calls : q # p => f[q] = calls[q]
      /\ f[p].pc = "returned"
  BY <1>3, <1>4 DEF Drop, Changed
<1>7. CallsBuild
  BY <1>2, <1>5, <1>6 DEF CallsBuild, Returned
<1>8. \A q \in DOMAIN calls : calls[q].pc \in {"left", "right"} =>
        q \in DOMAIN calls' /\ calls'[q].pc = calls[q].pc
  BY <1>2, <1>6 DEF Returned
<1> QED
  BY <1>2, <1>7, <1>8, StillToCall, TreeStays, ChildrenKept

LEMMA PopulateChildren ==
  ASSUME IInv, DInv, ChildrenHold, failed_creates = 0, failed_creates' = 0, PopulateNodes
  PROVE  ChildrenHold'
<1>1. PICK p \in DOMAIN calls :
        \/ PopulateEmpty(p) \/ PopulateLeaf(p) \/ PopulateSort(p) \/ PopulateSplit(p)
        \/ PopulateLeft(p) \/ PopulateRight(p) \/ JoinUninitialised(p) \/ PopulateReturn(p)
  BY DEF PopulateNodes
<1>2. CASE PopulateLeft(p)
  BY <1>2, ForkChildren DEF PopulateLeft, Active, Sides
<1>3. CASE PopulateRight(p)
  BY <1>3, ForkChildren DEF PopulateRight, Active, Sides
<1> QED
  BY <1>1, <1>2, <1>3, EmptyChildren, SortChildren, SplitChildren, JoinChildren, ReturnChildren

-----------------------------------------------------------------------------
(* make_tree leaves no child of the root out. *)

(* The control point changes, the calls do not. *)
LEMMA MainGoesOn ==
  ASSUME ChildrenHold, train' = train, calls' = calls, TreeBuilds,
         \A side \in Sides : ToCall(<<>>, side) => ToCall(<<>>, side)'
  PROVE  ChildrenHold'
<1>1. CallsBuild
  BY DEF CallsBuild
<1>2. ToCallLeft
  <2> SUFFICES ASSUME NEW q, NEW side \in Sides, ToCall(q, side) PROVE ToCall(q, side)'
    BY DEF ToCallLeft
  <2>1. CASE q = <<>>
    BY <2>1
  <2>2. CASE q # <<>>
    BY <2>2 DEF ToCall
  <2> QED
    BY <2>1, <2>2
<1> QED
  BY <1>1, <1>2, ChildrenKept

(* One more call, for a child of the root. *)
LEMMA RootChildren ==
  ASSUME ChildrenHold, UNCHANGED <<train, tree>>, NEW side \in Sides, NEW c, c.pc = "call",
         <<side>> \notin DOMAIN calls, calls' = Put(calls, <<side>>, c),
         \A s \in Sides : s # side /\ ToCall(<<>>, s) => ToCall(<<>>, s)'
  PROVE  ChildrenHold'
<1>1. PICK x : x = <<side>>
  OBVIOUS
<1>2. /\ DOMAIN calls' = DOMAIN calls \cup {x} /\ calls'[x] = c /\ x \notin DOMAIN calls
      /\ \A q \in DOMAIN calls : calls'[q] = calls[q]
  BY <1>1 DEF Put
<1>3. CallsBuild
  BY <1>2 DEF CallsBuild
<1>4. ToCallLeft
  <2> SUFFICES ASSUME NEW q, NEW s \in Sides, ToCall(q, s)
               PROVE  ToCall(q, s)' \/ Append(q, s) \in DOMAIN calls'
    BY DEF ToCallLeft
  <2>1. CASE q = <<>>
    <3>1. CASE s = side
      <4>1. Append(q, s) = x
        BY <1>1, <2>1, <3>1
      <4> QED
        BY <1>2, <4>1
    <3>2. CASE s # side
      BY <2>1, <3>2
    <3> QED
      BY <3>1, <3>2
  <2>2. CASE q # <<>>
    BY <1>2, <2>2 DEF ToCall
  <2> QED
    BY <2>1, <2>2
<1> QED
  BY <1>3, <1>4, TreeStays, ChildrenKept

(* What make_tree is still to call. *)
LEMMA RootToCall ==
  ASSUME NEW side \in Sides
  PROVE  ToCall(<<>>, side) <=>
           \/ main.pc \in {"ask right", "create left"}
           \/ side = "l" /\ main.pc \in {"create right", "left"} /\ ~main.l
           \/ side = "r" /\ main.pc = "create right"
           \/ side = "r" /\ main.pc \in {"left", "right"} /\ ~main.r
  BY DEF ToCall

LEMMA LeafOfMainChildren ==
  ASSUME IInv, ChildrenHold, MakeTreeLeaf
  PROVE  ChildrenHold'
<1>1. tree' = Put(tree, <<>>, Node(0, 0, 1, 1)) /\ UNCHANGED <<train, main, calls>>
  BY DEF MakeTreeLeaf
<1>2. PICK node : node = Node(0, 0, 1, 1)
  OBVIOUS
<1>3. node.point # NoPoint
  BY <1>2 DEF Node, NoPoint
<1>4. /\ DOMAIN tree' = DOMAIN tree \cup {<<>>} /\ tree'[<<>>] = node
      /\ \A q \in DOMAIN tree : q # <<>> => tree'[q] = tree[q]
  BY <1>1, <1>2, NodePut
<1>5. TreeBuilds
  BY <1>3, <1>4 DEF TreeBuilds, Splitting
<1>6. \A side \in Sides : ToCall(<<>>, side) => ToCall(<<>>, side)'
  BY <1>1 DEF ToCall
<1> QED
  BY <1>1, <1>5, <1>6, MainGoesOn

LEMMA AskLeftChildren ==
  ASSUME IInv, IInv', ChildrenHold, MakeTreeAskLeft
  PROVE  ChildrenHold'
<1>1. PICK node : tree' = Put(tree, <<>>, node)
  BY DEF MakeTreeAskLeft
<1>2. /\ main.pc = "sort" /\ UNCHANGED <<train, calls>>
      /\ \E made \in BOOLEAN : main' = [main EXCEPT !.pc = "ask right", !.l = made]
  BY DEF MakeTreeAskLeft, MainAt
<1>3. main'.pc = "ask right"
  BY <1>2 DEF IInv, MainInv
<1>4. \A side \in Sides : ToCall(<<>>, side)'
  BY <1>3 DEF ToCall
<1>5. /\ DOMAIN tree' = DOMAIN tree \cup {<<>>}
      /\ \A q \in DOMAIN tree : q # <<>> => tree'[q] = tree[q]
  BY <1>1, NodePut
<1>6. TreeBuilds
  BY <1>4, <1>5 DEF TreeBuilds, Splitting
<1> QED
  BY <1>2, <1>4, <1>6, MainGoesOn

LEMMA CreateChildren ==
  ASSUME IInv, ChildrenHold, failed_creates = 0, failed_creates' = 0,
         \/ MakeTreeCreate("l", main.l, "create left", "create right")
         \/ MakeTreeCreate("r", main.r, "create right", "left")
  PROVE  ChildrenHold'
<1>1. CASE MakeTreeCreate("l", main.l, "create left", "create right")
  <2>1. /\ main.pc = "create left" /\ main' = [main EXCEPT !.pc = "create right"]
        /\ UNCHANGED <<train, tree>>
    BY <1>1 DEF MakeTreeCreate, MainAt
  <2>2. main'.pc = "create right" /\ main'.l = main.l /\ main'.r = main.r
    BY <2>1, MainMoved DEF MainPcs, AfterRight
  <2>3. PICK c : c = RootChild("l", TRUE)
    OBVIOUS
  <2>4. c.pc = "call"
    BY <2>3, RootChildCall DEF Sides
  <2>5. ~(failed_creates' = failed_creates + 1)
    BY NoFailure
  <2>6. (~main.l /\ calls' = calls) \/ calls' = Put(calls, <<"l">>, c)
    BY <1>1, <2>3, <2>5 DEF MakeTreeCreate
  <2>7. <<"l">> \notin DOMAIN calls
    BY <2>1 DEF IInv, MainInv
  <2>8. ToCall(<<>>, "r")' /\ (~main.l => ToCall(<<>>, "l")')
    BY <2>2 DEF ToCall
  <2>9. CASE ~main.l /\ calls' = calls
    BY <2>1, <2>8, <2>9, TreeStays, MainGoesOn DEF Sides
  <2>10. CASE calls' = Put(calls, <<"l">>, c)
    BY <2>1, <2>4, <2>7, <2>8, <2>10, RootChildren DEF Sides
  <2> QED
    BY <2>6, <2>9, <2>10
<1>2. CASE MakeTreeCreate("r", main.r, "create right", "left")
  <2>1. /\ main.pc = "create right" /\ main' = [main EXCEPT !.pc = "left"]
        /\ UNCHANGED <<train, tree>>
    BY <1>2 DEF MakeTreeCreate, MainAt
  <2>2. main'.pc = "left" /\ main'.l = main.l /\ main'.r = main.r
    BY <2>1, MainMoved DEF MainPcs, AfterRight
  <2>3. PICK c : c = RootChild("r", TRUE)
    OBVIOUS
  <2>4. c.pc = "call"
    BY <2>3, RootChildCall DEF Sides
  <2>5. ~(failed_creates' = failed_creates + 1)
    BY NoFailure
  <2>6. (~main.r /\ calls' = calls) \/ calls' = Put(calls, <<"r">>, c)
    BY <1>2, <2>3, <2>5 DEF MakeTreeCreate
  <2>7. <<"r">> \notin DOMAIN calls
    BY <2>1 DEF IInv, MainInv
  <2>8. /\ ToCall(<<>>, "l") => ToCall(<<>>, "l")'
        /\ ~main.r => ToCall(<<>>, "r")'
    BY <2>1, <2>2 DEF ToCall
  <2>9. CASE ~main.r /\ calls' = calls
    BY <2>1, <2>8, <2>9, TreeStays, MainGoesOn DEF Sides
  <2>10. CASE calls' = Put(calls, <<"r">>, c)
    BY <2>1, <2>4, <2>7, <2>8, <2>10, RootChildren DEF Sides
  <2> QED
    BY <2>6, <2>9, <2>10
<1> QED
  BY <1>1, <1>2

LEMMA RunChildren ==
  ASSUME IInv, ChildrenHold, MakeTreeRunLeft \/ MakeTreeRunRight
  PROVE  ChildrenHold'
<1>1. CASE MakeTreeRunLeft
  <2>1. /\ main.pc = "left" /\ main' = [main EXCEPT !.pc = "right"]
        /\ UNCHANGED <<train, tree>>
    BY <1>1 DEF MakeTreeRunLeft, MakeTreeRun, MainAt
  <2>2. main'.pc = "right" /\ main'.l = main.l /\ main'.r = main.r
    BY <2>1, MainMoved DEF MainPcs, AfterRight
  <2>3. PICK c : c = RootChild("l", FALSE)
    OBVIOUS
  <2>4. c.pc = "call"
    BY <2>3, RootChildCall DEF Sides
  <2>5. (main.l /\ calls' = calls) \/ (~main.l /\ calls' = Put(calls, <<"l">>, c))
    BY <1>1, <2>3 DEF MakeTreeRunLeft, MakeTreeRun
  <2>6. ~main.l => <<"l">> \notin DOMAIN calls
    BY <2>1 DEF IInv, MainInv
  <2>7. /\ ToCall(<<>>, "r") => ToCall(<<>>, "r")'
        /\ main.l => ~ToCall(<<>>, "l")
    BY <2>1, <2>2 DEF ToCall
  <2>8. CASE main.l /\ calls' = calls
    BY <2>1, <2>7, <2>8, TreeStays, MainGoesOn DEF Sides
  <2>9. CASE ~main.l /\ calls' = Put(calls, <<"l">>, c)
    BY <2>1, <2>4, <2>6, <2>7, <2>9, RootChildren DEF Sides
  <2> QED
    BY <2>5, <2>8, <2>9
<1>2. CASE MakeTreeRunRight
  <2>1. /\ main.pc = "right" /\ main' = [main EXCEPT !.pc = "return"]
        /\ UNCHANGED <<train, tree>>
    BY <1>2 DEF MakeTreeRunRight, MakeTreeRun, MainAt
  <2>2. main'.pc = "return" /\ main'.l = main.l /\ main'.r = main.r
    BY <2>1, MainMoved DEF MainPcs, AfterRight
  <2>3. PICK c : c = RootChild("r", FALSE)
    OBVIOUS
  <2>4. c.pc = "call"
    BY <2>3, RootChildCall DEF Sides
  <2>5. (main.r /\ calls' = calls) \/ (~main.r /\ calls' = Put(calls, <<"r">>, c))
    BY <1>2, <2>3 DEF MakeTreeRunRight, MakeTreeRun
  <2>6. ~main.r => <<"r">> \notin DOMAIN calls
    BY <2>1 DEF IInv, MainInv
  <2>7. ~ToCall(<<>>, "l") /\ (main.r => ~ToCall(<<>>, "r"))
    BY <2>1 DEF ToCall
  <2>8. CASE main.r /\ calls' = calls
    BY <2>1, <2>7, <2>8, TreeStays, MainGoesOn DEF Sides
  <2>9. CASE ~main.r /\ calls' = Put(calls, <<"r">>, c)
    BY <2>1, <2>4, <2>6, <2>7, <2>9, RootChildren DEF Sides
  <2> QED
    BY <2>5, <2>8, <2>9
<1> QED
  BY <1>1, <1>2

LEMMA MakeTreeChildren ==
  ASSUME IInv, IInv', ChildrenHold, failed_creates = 0, failed_creates' = 0, MakeTree
  PROVE  ChildrenHold'
<1>1. CASE MakeTreeEmpty
  <2>1. UNCHANGED <<train, main, calls, tree>>
    BY <1>1 DEF MakeTreeEmpty
  <2>2. \A side \in Sides : ToCall(<<>>, side) => ToCall(<<>>, side)'
    BY <2>1 DEF ToCall
  <2> QED
    BY <2>1, <2>2, TreeStays, MainGoesOn
<1>2. CASE MakeTreeSort
  <2>1. UNCHANGED <<train, calls, tree>> /\ main.pc = "main"
    BY <1>2 DEF MakeTreeSort, MainAt
  <2>2. \A side \in Sides : ~ToCall(<<>>, side)
    BY <2>1 DEF ToCall
  <2> QED
    BY <2>1, <2>2, TreeStays, MainGoesOn
<1>3. CASE MakeTreeAskRight
  <2>1. /\ UNCHANGED <<train, calls, tree>>
        /\ \E made \in BOOLEAN : main' = [main EXCEPT !.pc = "create left", !.r = made]
    BY <1>3 DEF MakeTreeAskRight
  <2>2. main'.pc = "create left"
    BY <2>1 DEF IInv, MainInv
  <2>3. \A side \in Sides : ToCall(<<>>, side)'
    BY <2>2 DEF ToCall
  <2> QED
    BY <2>1, <2>3, TreeStays, MainGoesOn
<1>4. CASE MakeTreeReturn
  <2>1. PICK S : S = {<<"l">>, <<"r">>}
    OBVIOUS
  <2>2. /\ UNCHANGED <<train, main, tree>> /\ calls' = Drop(calls, S)
        /\ \A q \in S : Returned(q)
    BY <1>4, <2>1 DEF MakeTreeReturn
  <2>3. DOMAIN calls' = DOMAIN calls \ S /\ \A q \in DOMAIN calls' : calls'[q] = calls[q]
    BY <2>2 DEF Drop
  <2>4. CallsBuild
    BY <2>2, <2>3 DEF CallsBuild, Returned
  <2>5. ToCallLeft
    BY <2>2, <2>3, StillToCall DEF Returned
  <2> QED
    BY <2>2, <2>4, <2>5, TreeStays, ChildrenKept
<1> QED
  BY <1>1, <1>2, <1>3, <1>4, LeafOfMainChildren, AskLeftChildren, CreateChildren, RunChildren
  DEF MakeTree

LEMMA ChildrenInvInit == Init => ChildrenInv
<1> SUFFICES ASSUME Init PROVE ChildrenHold
  BY DEF ChildrenInv
<1>1. DOMAIN calls = {} /\ DOMAIN tree = {}
  BY DEF Init
<1> QED
  BY <1>1 DEF ChildrenHold, Splitting

LEMMA FailuresGrow ==
  ASSUME IInv, Next, failed_creates' = 0
  PROVE  failed_creates = 0
<1>1. failed_creates' = failed_creates \/ failed_creates' = failed_creates + 1
  <2>1. CASE MakeTree
    BY <2>1
    DEF MakeTree, MakeTreeEmpty, MakeTreeLeaf, MakeTreeSort, MakeTreeAskLeft, MakeTreeAskRight,
        MakeTreeCreate, MakeTreeRunLeft, MakeTreeRunRight, MakeTreeRun, MakeTreeReturn
  <2>2. CASE PopulateNodes
    BY <2>2
    DEF PopulateNodes, PopulateEmpty, PopulateLeaf, PopulateSort, PopulateSplit, PopulateLeft,
        PopulateRight, PopulateFork, JoinUninitialised, PopulateReturn
  <2>3. CASE Sorting
    BY <2>3
    DEF Sorting, SortStep, SortBase, SortAssert, SortSerial, SortLeft, SortRight, SortFork, SortMerge
  <2>4. CASE Over
    BY <2>4 DEF Over, vars, sortVars
  <2> QED
    BY <2>1, <2>2, <2>3, <2>4 DEF Next, Step
<1>2. failed_creates \in Nat
  BY FailuresAssumption DEF IInv, DataInv
<1> QED
  BY <1>1, <1>2

LEMMA ChildrenInvStep == IInv /\ IInv' /\ DInv /\ ChildrenInv /\ [Next]_vars => ChildrenInv'
<1> SUFFICES ASSUME IInv, IInv', DInv, ChildrenInv, [Next]_vars, failed_creates' = 0
             PROVE  ChildrenHold'
  BY DEF ChildrenInv
<1>1. CASE UNCHANGED vars \/ Sorting \/ Over
  <2>1. UNCHANGED <<train, main, calls, tree>>
    BY <1>1
    DEF vars, sortVars, Over, Sorting, SortStep, SortBase, SortAssert, SortSerial, SortLeft,
        SortRight, SortMerge, SortFork
  <2>2. failed_creates = 0
    <3>1. CASE UNCHANGED vars
      BY <3>1 DEF vars, sortVars
    <3>2. CASE Next
      BY <3>2, FailuresGrow
    <3> QED
      BY <3>1, <3>2
  <2>3. ChildrenHold
    BY <2>2 DEF ChildrenInv
  <2>4. \A side \in Sides : ToCall(<<>>, side) => ToCall(<<>>, side)'
    BY <2>1 DEF ToCall
  <2> QED
    BY <2>1, <2>3, <2>4, TreeStays, MainGoesOn
<1>2. CASE MakeTree \/ PopulateNodes
  <2>1. failed_creates = 0
    BY <1>2, FailuresGrow DEF Next, Step
  <2>2. ChildrenHold
    BY <2>1 DEF ChildrenInv
  <2> QED
    BY <1>2, <2>1, <2>2, MakeTreeChildren, PopulateChildren
<1> QED
  BY <1>1, <1>2 DEF Next, Step

LEMMA ChildrenInvAlways == cores >= 1 /\ Spec => [](IInv /\ DInv /\ ChildrenInv)
<1>1. Init => ChildrenInv
  BY ChildrenInvInit
<1>2. IInv /\ IInv' /\ DInv /\ ChildrenInv /\ [Next]_vars => ChildrenInv'
  BY ChildrenInvStep
<1> QED
  BY <1>1, <1>2, DInvAlways, PTL DEF Spec

(* No call is at work once make_tree has returned. *)
LEMMA NoCallLeft ==
  ASSUME IInv, status = "built"
  PROVE  DOMAIN calls = {} /\ main.pc \in {"main", "return"}
<1>1. /\ main.pc \in {"main", "return"} /\ <<"l">> \notin DOMAIN calls /\ <<"r">> \notin DOMAIN calls
  BY DEF IInv, MainInv
<1> DEFINE P == {n \in Nat : \A p \in DOMAIN calls : Len(p) # n}
<1>2. 0 \in P
  <2>1. \A p \in DOMAIN calls : Len(p) # 0
    <3> SUFFICES ASSUME NEW p \in DOMAIN calls PROVE Len(p) # 0
      OBVIOUS
    <3>1. PICK n : n = Len(p) /\ n \in Nat /\ n >= 1
      BY Named DEF IInv
    <3> QED
      BY <3>1
  <2> QED
    BY <2>1
<1>3. ASSUME NEW n \in Nat, n \in P PROVE n + 1 \in P
  <2>1. n + 1 \in Nat
    OBVIOUS
  <2>2. ASSUME NEW p \in DOMAIN calls, Len(p) = n + 1 PROVE FALSE
    <3>1. p \in Seq(Sides) /\ Len(p) \in Nat /\ Len(p) >= 1
      BY <2>2, Named DEF IInv
    <3>2. CASE Len(p) = 1
      <4>1. p = <<"l">> \/ p = <<"r">>
        <5>1. p[1] \in Sides /\ p = <<p[1]>>
          BY <3>1, <3>2
        <5> QED
          BY <5>1 DEF Sides
      <4> QED
        BY <1>1, <2>2, <4>1
    <3>3. CASE Len(p) # 1
      <4>1. Len(p) > 1
        <5>1. PICK m \in Nat : m = Len(p) /\ m >= 1 /\ m # 1
          BY <3>1, <3>3
        <5> QED
          BY <5>1
      <4>2. Owner(p) \in DOMAIN calls
        BY <2>2, <4>1 DEF IInv, CallNames
      <4>3. Len(Owner(p)) = n
        <5>1. n \in 0 .. Len(p) - 1 /\ Len(p) - 1 = n
          BY <1>3, <2>2
        <5> QED
          BY <3>1, <5>1, PathPrefix DEF Owner
      <4> QED
        BY <1>3, <4>2, <4>3
    <3> QED
      BY <3>2, <3>3
  <2> QED
    BY <2>1, <2>2
<1>4. Nat \subseteq P
  <2> HIDE DEF P
  <2> QED
    BY <1>2, <1>3, Induction
<1>5. \A p \in DOMAIN calls : Len(p) \in Nat
  BY Named DEF IInv
<1> QED
  BY <1>1, <1>4, <1>5

-----------------------------------------------------------------------------
(* The finished tree: from the root on, no half with points is left out. *)

Complete(t, T) ==
  /\ <<>> \in DOMAIN T
  /\ \A p \in DOMAIN T : NodeGood(t, p, T[p])
  /\ \A p \in DOMAIN T : T[p].point = NoPoint =>
       \A side \in Sides : \/ Append(p, side) \in DOMAIN T
                           \/ SequentialPoints(t, Append(p, side)) = <<>>

LEMMA TreeComplete ==
  ASSUME IInv, DInv, ChildrenInv, status = "built", failed_creates = 0
  PROVE  Complete(train, tree)
<1>1. DOMAIN calls = {} /\ main.pc \in {"main", "return"}
  BY NoCallLeft
<1>2. <<>> \in DOMAIN tree
  BY DEF DInv, RootInv
<1>3. \A p \in DOMAIN tree : NodeGood(train, p, tree[p])
  BY DEF DInv, NodesInv
<1>4. ASSUME NEW p \in DOMAIN tree, tree[p].point = NoPoint, NEW side \in Sides
      PROVE  Built(Append(p, side))
  <2>1. Attended(p, side)
    BY <1>4 DEF ChildrenInv, ChildrenHold, Splitting
  <2>2. ~ToCall(p, side)
    BY <1>1 DEF ToCall
  <2> QED
    BY <1>1, <2>1, <2>2 DEF Attended
<1> QED
  BY <1>2, <1>3, <1>4 DEF Complete, Built

LEMMA SidesAll == "l" \in Sides /\ "r" \in Sides
  BY DEF Sides

(* Row i reaches p: it is one of the points of its vector. *)
Reaches(t, p, i) == i \in Range(SequentialPoints(t, p))

(* A row that reaches a node reaches the nodes above it. *)
LEMMA ReachesAbove ==
  ASSUME NEW t, IsTraining(t), NEW q \in Seq(Sides), NEW n \in 0 .. Len(q), NEW i, Reaches(t, q, i)
  PROVE  Reaches(t, SubSeq(q, 1, n), i)
<1>1. Len(q) \in Nat /\ SubSeq(q, 1, Len(q)) = q
  BY LenProperties, SubSeqFull
<1> DEFINE P == {m \in Nat : m <= Len(q) => Reaches(t, SubSeq(q, 1, Len(q) - m), i)}
<1>2. 0 \in P
  <2>1. Len(q) - 0 = Len(q)
    BY <1>1
  <2> QED
    BY <1>1, <2>1
<1>3. ASSUME NEW m \in Nat, m \in P PROVE m + 1 \in P
  <2>1. m + 1 \in Nat
    OBVIOUS
  <2>2. ASSUME m + 1 <= Len(q) PROVE Reaches(t, SubSeq(q, 1, Len(q) - (m + 1)), i)
    <3>1. PICK k : k = Len(q) - (m + 1)
      OBVIOUS
    <3>2. k \in 0 .. Len(q) - 1 /\ k + 1 = Len(q) - m /\ m <= Len(q)
      BY <1>1, <2>2, <3>1
    <3>3. PICK c : c = SubSeq(q, 1, k)
      OBVIOUS
    <3>4. PICK side : side = q[k + 1]
      OBVIOUS
    <3>5. c \in Seq(Sides) /\ side \in Sides
      BY <3>2, <3>3, <3>4, PathPrefix
    <3>6. PICK a : a = SequentialPoints(t, c)
      OBVIOUS
    <3>7. a \in Seq(DOMAIN t)
      BY <3>5, <3>6, SequentialVector
    <3>8. PICK h : h = SequentialHalf(t, c, side, a)
      OBVIOUS
    <3>9. SequentialPoints(t, SubSeq(q, 1, k + 1)) = h
      BY <3>2, <3>3, <3>4, <3>6, <3>8, SequentialNext
    <3>10. Range(h) \subseteq Range(a)
      BY <3>5, <3>7, <3>8, HalfIsVector
    <3>11. Reaches(t, SubSeq(q, 1, k + 1), i)
      BY <1>3, <3>2
    <3> QED
      BY <3>1, <3>3, <3>6, <3>9, <3>10, <3>11 DEF Reaches
  <2> QED
    BY <2>1, <2>2
<1>4. Nat \subseteq P
  <2> HIDE DEF P
  <2> QED
    BY <1>2, <1>3, Induction
<1>5. PICK m : m = Len(q) - n
  OBVIOUS
<1>6. m \in Nat /\ m <= Len(q) /\ Len(q) - m = n
  BY <1>1, <1>5
<1> QED
  BY <1>4, <1>6

(* The halves of an inner node of the tree. *)
LEMMA NodeSplits ==
  ASSUME NEW t, IsTraining(t), NEW p, NEW node, NodeGood(t, p, node), node.point = NoPoint
  PROVE  /\ \A i : ~(Reaches(t, Append(p, "l"), i) /\ Reaches(t, Append(p, "r"), i))
         /\ \A i : Reaches(t, p, i) => \E side \in Sides : Reaches(t, Append(p, side), i)
         /\ \A i : Reaches(t, Append(p, "l"), i) => At(t, i, node.dimension) < node.median
         /\ \A i : Reaches(t, Append(p, "r"), i) => At(t, i, node.dimension) >= node.median
         /\ SequentialPoints(t, Append(p, "r")) # <<>>
         /\ node.num_pts # 1
<1>1. p \in Seq(Sides) /\ IsNodeOf(t, p, node)
  BY DEF NodeGood
<1>2. PICK a : a = SequentialPoints(t, p)
  OBVIOUS
<1>3. PICK d : d = Len(p) % num_dimensions
  OBVIOUS
<1>4. PICK m : m = SequentialMedian(t, p, a)
  OBVIOUS
<1>5. a \in Seq(DOMAIN t) /\ Len(a) \in Nat
  BY <1>1, <1>2, SequentialVector, LenProperties
<1>6. ~(Len(a) = 1 /\ node = Node(d, 0, 1, a[1]))
  <2>1. ASSUME Len(a) = 1, node = Node(d, 0, 1, a[1]) PROVE FALSE
    <3>1. a[1] # NoPoint
      BY <1>5, <2>1, LeafPoint DEF IsTraining
    <3>2. node.point = a[1]
      BY <2>1 DEF Node
    <3> QED
      BY <3>1, <3>2
  <2> QED
    BY <2>1
<1>7. /\ Len(a) >= 2 /\ 1 <= Sample(p, a) /\ node.dimension = d /\ node.median = m
      /\ node.num_pts # 1
  BY <1>1, <1>2, <1>3, <1>4, <1>6, Zenon DEF IsNodeOf
<1>8. PICK l : l = SequentialHalf(t, p, "l", a)
  OBVIOUS
<1>9. PICK r : r = SequentialHalf(t, p, "r", a)
  OBVIOUS
<1>10. SequentialPoints(t, Append(p, "l")) = l /\ SequentialPoints(t, Append(p, "r")) = r
  BY <1>1, <1>2, <1>8, <1>9, SidesAll, SequentialChild
<1>11. PICK e : e = Sample(p, a)
  OBVIOUS
<1>12. /\ Range(l) = {i \in Range(a) : At(t, i, d) < m}
       /\ Range(r) = {i \in Range(a) : At(t, i, d) >= m}
       /\ Range(l) \cap Range(r) = {} /\ Range(l) \cup Range(r) = Range(a)
       /\ e - e \div 2 <= Len(r)
  BY <1>1, <1>3, <1>4, <1>5, <1>7, <1>8, <1>9, <1>11, HalvesOfNode
<1>13. r # <<>>
  <2>1. e \in Nat /\ 1 <= e
    BY <1>5, <1>7, <1>11, SampleSize
  <2>2. PICK n : n = Len(r)
    OBVIOUS
  <2>3. r \in Seq(DOMAIN t)
    BY <1>1, <1>5, <1>9, SidesAll, HalfIsVector
  <2>4. n \in Nat
    BY <2>2, <2>3, LenProperties
  <2>5. e - e \div 2 <= n
    BY <1>12, <2>2
  <2>6. n # 0
    BY <2>1, <2>4, <2>5
  <2>7. PICK z : z = <<>> /\ Len(z) = 0
    OBVIOUS
  <2> QED
    BY <2>2, <2>6, <2>7
<1>14. \A i : /\ Reaches(t, Append(p, "l"), i) <=> i \in Range(l)
              /\ Reaches(t, Append(p, "r"), i) <=> i \in Range(r)
              /\ Reaches(t, p, i) <=> i \in Range(a)
  BY <1>2, <1>10, Zenon DEF Reaches
<1> QED
  BY <1>7, <1>10, <1>12, <1>13, <1>14, SidesAll

(* A leaf has the one row that reaches it. *)
LEMMA LeafReached ==
  ASSUME NEW t, IsTraining(t), NEW p, NEW node, NodeGood(t, p, node), node.point # NoPoint
  PROVE  /\ node.num_pts = 1 /\ node.point \in DOMAIN t
         /\ \A i : Reaches(t, p, i) <=> node.point = i
         /\ \A side \in Sides : \A i : ~Reaches(t, Append(p, side), i)
<1>1. p \in Seq(Sides) /\ IsNodeOf(t, p, node)
  BY DEF NodeGood
<1>2. PICK a : a = SequentialPoints(t, p)
  OBVIOUS
<1>3. PICK d : d = Len(p) % num_dimensions
  OBVIOUS
<1>4. a \in Seq(DOMAIN t) /\ Len(a) \in Nat
  BY <1>1, <1>2, SequentialVector, LenProperties
<1>5. Len(a) = 1 /\ node = Node(d, 0, 1, a[1])
  BY <1>1, <1>2, <1>3, Zenon DEF IsNodeOf
<1>6. node.num_pts = 1 /\ node.point = a[1]
  BY <1>5 DEF Node
<1>7. a[1] \in DOMAIN t /\ Range(a) = {a[1]}
  BY <1>4, <1>5 DEF Range
<1>8. ASSUME NEW side \in Sides, NEW i PROVE ~Reaches(t, Append(p, side), i)
  <2>1. PICK h : h = SequentialHalf(t, p, side, a)
    OBVIOUS
  <2>2. SequentialPoints(t, Append(p, side)) = h
    BY <1>1, <1>2, <2>1, SequentialChild
  <2>3. h = <<>>
    <3>1. Len(a) <= 1
      BY <1>5
    <3> QED
      BY <1>1, <1>4, <2>1, <3>1, HalfIsVector
  <2>4. Range(h) = {}
    BY <2>3 DEF Range
  <2> QED
    BY <2>2, <2>4 DEF Reaches
<1> QED
  BY <1>2, <1>6, <1>7, <1>8 DEF Reaches

LEMMA GrowsIntoTree ==
  ASSUME NEW t, IsTraining(t), NEW T, Complete(t, T), NEW p \in DOMAIN T, NEW side \in Sides,
         NEW i, Reaches(t, Append(p, side), i)
  PROVE  T[p].point = NoPoint /\ Append(p, side) \in DOMAIN T
<1>1. NodeGood(t, p, T[p])
  BY DEF Complete
<1>2. T[p].point = NoPoint
  BY <1>1, LeafReached
<1>3. SequentialPoints(t, Append(p, side)) # <<>>
  BY DEF Reaches, Range
<1> QED
  BY <1>2, <1>3 DEF Complete

(* Every row has a leaf: going down to the side it reaches must end. *)
LEMMA LeafExists ==
  ASSUME NEW t, IsTraining(t), NEW T, Complete(t, T), NEW i \in DOMAIN t
  PROVE  \E p \in DOMAIN T : T[p].point = i
<1> SUFFICES ASSUME \A p \in DOMAIN T : T[p].point # i PROVE FALSE
  OBVIOUS
<1> DEFINE P == {n \in Nat : \E p \in DOMAIN T : Len(p) = n /\ Reaches(t, p, i)}
<1>1. 0 \in P
  <2>1. PICK p : p = <<>>
    OBVIOUS
  <2>2. SequentialPoints(t, p) = Rows(t) /\ p \in DOMAIN T /\ Len(p) = 0
    BY <2>1, SequentialRoot DEF Complete
  <2>3. t \in Seq([1 .. num_dimensions -> Nat])
    BY DEF IsTraining
  <2>4. Rows(t)[i] = i /\ i \in DOMAIN Rows(t)
    BY <2>3 DEF Rows
  <2>5. Reaches(t, p, i)
    BY <2>2, <2>4 DEF Reaches, Range
  <2> QED
    BY <2>2, <2>5
<1>2. ASSUME NEW n \in Nat, n \in P PROVE n + 1 \in P
  <2>1. n + 1 \in Nat
    OBVIOUS
  <2>2. PICK p \in DOMAIN T : Len(p) = n /\ Reaches(t, p, i)
    BY <1>2
  <2>3. NodeGood(t, p, T[p]) /\ p \in Seq(Sides)
    BY DEF Complete, NodeGood
  <2>4. T[p].point = NoPoint
    BY <2>2, <2>3, LeafReached
  <2>5. PICK side \in Sides : Reaches(t, Append(p, side), i)
    BY <2>2, <2>3, <2>4, NodeSplits
  <2>6. Append(p, side) \in DOMAIN T
    BY <2>5, GrowsIntoTree
  <2>7. Len(Append(p, side)) = n + 1
    BY <2>2, <2>3, PathAppend
  <2> QED
    BY <2>1, <2>5, <2>6, <2>7
<1>3. Nat \subseteq P
  <2> HIDE DEF P
  <2> QED
    BY <1>1, <1>2, Induction
<1>4. StackDepth + 1 \in Nat
  BY StackAssumption
<1>5. PICK p \in DOMAIN T : Len(p) = StackDepth + 1
  BY <1>3, <1>4
<1>6. Len(p) <= StackDepth
  BY DEF Complete, NodeGood
<1> QED
  BY <1>5, <1>6, StackAssumption

(* It has no other: two leaves part at a node whose halves share no row. *)
LEMMA SamePath ==
  ASSUME NEW t, IsTraining(t), NEW T, Complete(t, T), NEW i,
         NEW p \in Seq(Sides), NEW q \in Seq(Sides), Reaches(t, p, i), Reaches(t, q, i),
         Len(p) <= Len(q)
  PROVE  SubSeq(p, 1, Len(p)) = SubSeq(q, 1, Len(p)) /\ p \in DOMAIN T
<1>1. Len(p) \in Nat /\ Len(q) \in Nat
  BY LenProperties
<1> DEFINE P == {n \in Nat : n <= Len(p) =>
                   SubSeq(p, 1, n) = SubSeq(q, 1, n) /\ SubSeq(p, 1, n) \in DOMAIN T}
<1>2. 0 \in P
  <2>1. SubSeq(p, 1, 0) = <<>> /\ SubSeq(q, 1, 0) = <<>>
    BY SubSeqEmpty
  <2> QED
    BY <2>1 DEF Complete
<1>3. ASSUME NEW n \in Nat, n \in P PROVE n + 1 \in P
  <2>1. n + 1 \in Nat
    OBVIOUS
  <2>2. ASSUME n + 1 <= Len(p)
        PROVE  SubSeq(p, 1, n + 1) = SubSeq(q, 1, n + 1) /\ SubSeq(p, 1, n + 1) \in DOMAIN T
    <3>1. n \in 0 .. Len(p) - 1 /\ n \in 0 .. Len(q) - 1 /\ n <= Len(p)
      BY <1>1, <2>2
    <3>2. PICK c : c = SubSeq(p, 1, n)
      OBVIOUS
    <3>3. c \in DOMAIN T /\ c = SubSeq(q, 1, n)
      BY <1>3, <3>1, <3>2
    <3>4. /\ p[n + 1] \in Sides /\ SubSeq(p, 1, n + 1) = Append(c, p[n + 1])
          /\ q[n + 1] \in Sides /\ SubSeq(q, 1, n + 1) = Append(c, q[n + 1])
      BY <3>1, <3>2, <3>3, PathPrefix
    <3>5. Reaches(t, Append(c, p[n + 1]), i) /\ Reaches(t, Append(c, q[n + 1]), i)
      <4>1. n + 1 \in 0 .. Len(p) /\ n + 1 \in 0 .. Len(q)
        BY <1>1, <3>1
      <4> QED
        BY <3>4, <4>1, ReachesAbove
    <3>6. T[c].point = NoPoint /\ Append(c, p[n + 1]) \in DOMAIN T
      BY <3>3, <3>4, <3>5, GrowsIntoTree
    <3>7. NodeGood(t, c, T[c])
      BY <3>3 DEF Complete
    <3>8. p[n + 1] = q[n + 1]
      <4>1. ~(Reaches(t, Append(c, "l"), i) /\ Reaches(t, Append(c, "r"), i))
        BY <3>6, <3>7, NodeSplits
      <4> QED
        BY <3>4, <3>5, <4>1 DEF Sides
    <3> QED
      BY <3>4, <3>6, <3>8
  <2> QED
    BY <2>1, <2>2
<1>4. Nat \subseteq P
  <2> HIDE DEF P
  <2> QED
    BY <1>2, <1>3, Induction
<1>5. SubSeq(p, 1, Len(p)) = SubSeq(q, 1, Len(p)) /\ SubSeq(p, 1, Len(p)) \in DOMAIN T
  BY <1>1, <1>4
<1> QED
  BY <1>5, SubSeqFull

LEMMA LeafBelow ==
  ASSUME NEW t, IsTraining(t), NEW T, Complete(t, T),
         NEW p \in DOMAIN T, NEW q \in DOMAIN T, T[p].point # NoPoint, T[p].point = T[q].point,
         Len(p) <= Len(q)
  PROVE  p = q
<1>1. PICK i : i = T[p].point
  OBVIOUS
<1>2. /\ NodeGood(t, p, T[p]) /\ NodeGood(t, q, T[q])
      /\ p \in Seq(Sides) /\ q \in Seq(Sides)
  BY DEF Complete, NodeGood
<1>3. Reaches(t, p, i) /\ Reaches(t, q, i)
  BY <1>1, <1>2, LeafReached
<1>4. p = SubSeq(q, 1, Len(p))
  BY <1>2, <1>3, SamePath, SubSeqFull
<1>5. Len(p) \in Nat /\ Len(q) \in Nat
  BY <1>2, LenProperties
<1>6. CASE Len(p) = Len(q)
  BY <1>2, <1>4, <1>6, SubSeqFull
<1>7. CASE Len(p) # Len(q)
  <2>1. PICK n : n = Len(p)
    OBVIOUS
  <2>2. n \in 0 .. Len(q) - 1 /\ n + 1 \in 0 .. Len(q)
    BY <1>5, <1>7, <2>1
  <2>3. q[n + 1] \in Sides /\ SubSeq(q, 1, n + 1) = Append(p, q[n + 1])
    BY <1>2, <1>4, <2>1, <2>2, PathPrefix
  <2>4. Reaches(t, Append(p, q[n + 1]), i)
    BY <1>2, <1>3, <2>2, <2>3, ReachesAbove
  <2> QED
    BY <1>2, <2>3, <2>4, LeafReached
<1> QED
  BY <1>6, <1>7

(* The rows in the leaves under a path are those that reach it. *)
LEMMA UnderReached ==
  ASSUME NEW b, IsTraining(b.train), Complete(b.train, b.tree), NEW p \in Seq(Sides), NEW i
  PROVE  i \in Under(b, p) <=> Reaches(b.train, p, i)
<1>1. PICK t : t = b.train
  OBVIOUS
<1>2. PICK T : T = b.tree
  OBVIOUS
<1>3. IsTraining(t) /\ Complete(t, T)
  BY <1>1, <1>2
<1>4. i \in Under(b, p) <=> i \in DOMAIN t /\ \E q \in DOMAIN T : T[q].point = i /\ IsPrefix(p, q)
  BY <1>1, <1>2 DEF Under
<1>5. \A q \in DOMAIN T : q \in Seq(Sides) /\ Len(q) \in Nat /\ NodeGood(t, q, T[q])
  BY <1>3, LenProperties DEF Complete, NodeGood
<1>6. \A q \in DOMAIN T : T[q].point = i /\ i \in DOMAIN t => T[q].point # NoPoint /\ Reaches(t, q, i)
  <2>1. i \in DOMAIN t => i # NoPoint
    BY <1>3 DEF IsTraining, NoPoint
  <2> QED
    BY <1>3, <1>5, <2>1, LeafReached
<1>7. Len(p) \in Nat
  BY LenProperties
<1>8. ASSUME i \in DOMAIN t, NEW q \in DOMAIN T, T[q].point = i, IsPrefix(p, q)
      PROVE  Reaches(t, p, i)
  <2>1. Len(p) <= Len(q) /\ SubSeq(p, 1, Len(p)) = SubSeq(q, 1, Len(p))
    BY <1>8 DEF IsPrefix
  <2>2. Len(p) \in 0 .. Len(q)
    BY <1>5, <1>7, <2>1
  <2>3. Reaches(t, SubSeq(q, 1, Len(p)), i)
    BY <1>3, <1>5, <1>6, <1>8, <2>2, ReachesAbove
  <2> QED
    BY <2>1, <2>3, SubSeqFull
<1>9. ASSUME Reaches(t, p, i)
      PROVE  i \in DOMAIN t /\ \E q \in DOMAIN T : T[q].point = i /\ IsPrefix(p, q)
  <2>1. i \in DOMAIN t
    <3>1. PICK a : a = SequentialPoints(t, p)
      OBVIOUS
    <3>2. a \in Seq(DOMAIN t)
      BY <1>3, <3>1, SequentialVector
    <3>3. i \in Range(a)
      BY <1>9, <3>1 DEF Reaches
    <3> QED
      BY <3>2, <3>3 DEF Range
  <2>2. PICK q \in DOMAIN T : T[q].point = i
    BY <1>3, <2>1, LeafExists
  <2>3. T[q].point # NoPoint /\ Reaches(t, q, i)
    BY <1>6, <2>1, <2>2
  <2>4. CASE Len(p) <= Len(q)
    <3>1. SubSeq(p, 1, Len(p)) = SubSeq(q, 1, Len(p))
      BY <1>3, <1>5, <1>9, <2>3, <2>4, SamePath
    <3>2. IsPrefix(p, q)
      BY <2>4, <3>1 DEF IsPrefix
    <3> QED
      BY <2>1, <2>2, <3>2
  <2>5. CASE ~(Len(p) <= Len(q))
    <3>1. PICK n : n = Len(q)
      OBVIOUS
    <3>2. n \in 0 .. Len(p) - 1 /\ n + 1 \in 0 .. Len(p) /\ Len(q) <= Len(p)
      BY <1>5, <1>7, <2>5, <3>1
    <3>3. SubSeq(q, 1, Len(q)) = SubSeq(p, 1, Len(q))
      BY <1>3, <1>5, <1>9, <2>3, <3>2, SamePath
    <3>4. q = SubSeq(p, 1, n)
      BY <1>5, <3>1, <3>3, SubSeqFull
    <3>5. p[n + 1] \in Sides /\ SubSeq(p, 1, n + 1) = Append(q, p[n + 1])
      BY <3>2, <3>4, PathPrefix
    <3>6. Reaches(t, Append(q, p[n + 1]), i)
      BY <1>3, <1>9, <3>2, <3>5, ReachesAbove
    <3> QED
      BY <1>3, <1>5, <2>3, <3>5, <3>6, LeafReached
  <2> QED
    BY <2>4, <2>5
<1> QED
  BY <1>1, <1>4, <1>8, <1>9

(* The half of a path's child, as the search names it. *)
LEMMA ChildNames ==
  ASSUME NEW p \in Seq(Sides)
  PROVE  /\ L(p) = Append(p, "l") /\ R(p) = Append(p, "r")
         /\ L(p) \in Seq(Sides) /\ R(p) \in Seq(Sides)
  BY SidesAll, PathAppend DEF L, R

(* Row i is in the subtree of a node if it is in that of one of its children. *)
LEMMA ChildReaches ==
  ASSUME NEW t, IsTraining(t), NEW p \in Seq(Sides), NEW side \in Sides, NEW i,
         Reaches(t, Append(p, side), i)
  PROVE  Reaches(t, p, i)
<1>1. PICK q : q = Append(p, side)
  OBVIOUS
<1>2. q \in Seq(Sides) /\ Len(q) = Len(p) + 1 /\ Len(p) \in Nat
  BY <1>1, PathAppend, LenProperties
<1>3. Len(p) \in 0 .. Len(q)
  BY <1>2
<1>4. SubSeq(q, 1, Len(p)) = p
  BY <1>1, <1>2, PathAppend
<1> QED
  BY <1>1, <1>2, <1>3, <1>4, ReachesAbove

(* A node of a complete tree is a leaf or splits, as its number of points says. *)
LEMMA NodeKinds ==
  ASSUME NEW b, IsTraining(b.train), Complete(b.train, b.tree), NEW p \in DOMAIN b.tree
  PROVE  /\ p \in Seq(Sides) /\ NodeGood(b.train, p, b.tree[p])
         /\ IsLeaf(b, p) <=> b.tree[p].point # NoPoint
<1>1. p \in Seq(Sides) /\ NodeGood(b.train, p, b.tree[p])
  BY DEF Complete, NodeGood
<1>2. PICK node : node = b.tree[p]
  OBVIOUS
<1>3. PICK t : t = b.train
  OBVIOUS
<1>4. node.num_pts = 1 <=> node.point # NoPoint
  BY <1>1, <1>2, <1>3, LeafReached, NodeSplits
<1> QED
  BY <1>1, <1>2, <1>4 DEF IsLeaf

(* The numbers of an inner node. *)
LEMMA SplitNumbers ==
  ASSUME NEW t, IsTraining(t), NEW p, NEW node, NodeGood(t, p, node), node.point = NoPoint
  PROVE  node.dimension \in Dimensions /\ node.median \in Int
<1>1. p \in Seq(Sides) /\ IsNodeOf(t, p, node)
  BY DEF NodeGood
<1>2. PICK a : a = SequentialPoints(t, p)
  OBVIOUS
<1>3. PICK d : d = Len(p) % num_dimensions
  OBVIOUS
<1>4. PICK m : m = SequentialMedian(t, p, a)
  OBVIOUS
<1>5. a \in Seq(DOMAIN t) /\ Len(a) \in Nat
  BY <1>1, <1>2, SequentialVector, LenProperties
<1>6. ~(Len(a) = 1 /\ node = Node(d, 0, 1, a[1]))
  <2>1. ASSUME Len(a) = 1, node = Node(d, 0, 1, a[1]) PROVE FALSE
    <3>1. a[1] # NoPoint
      BY <1>5, <2>1, LeafPoint DEF IsTraining
    <3>2. node.point = a[1]
      BY <2>1 DEF Node
    <3> QED
      BY <3>1, <3>2
  <2> QED
    BY <2>1
<1>7. /\ Len(a) >= 2 /\ 1 <= Sample(p, a) /\ node.dimension = d /\ node.median = m
  BY <1>1, <1>2, <1>3, <1>4, <1>6, Zenon DEF IsNodeOf
<1>8. m \in Nat
  BY <1>1, <1>4, <1>5, <1>7, HalvesOfNode
<1>9. d \in Dimensions
  BY <1>1, <1>3, LevelDimension, LenProperties
<1> QED
  BY <1>7, <1>8, <1>9

LEMMA InnerIsSearchable ==
  ASSUME NEW b, IsTraining(b.train), Complete(b.train, b.tree),
         NEW p \in DOMAIN b.tree, ~IsLeaf(b, p)
  PROVE  /\ Under(b, p) = Under(b, L(p)) \cup Under(b, R(p))
         /\ \A m \in {L(p), R(p)} \ DOMAIN b.tree : Under(b, m) = {}
         /\ b.tree[p].dimension \in Dimensions /\ b.tree[p].median \in Int
         /\ \A i \in Under(b, L(p)) : At(b.train, i, b.tree[p].dimension) < b.tree[p].median
         /\ \A i \in Under(b, R(p)) : At(b.train, i, b.tree[p].dimension) >= b.tree[p].median
         /\ R(p) \in DOMAIN b.tree
<1>1. PICK t : t = b.train
  OBVIOUS
<1>2. PICK T : T = b.tree
  OBVIOUS
<1>3. PICK node : node = T[p]
  OBVIOUS
<1>4. IsTraining(t) /\ Complete(t, T) /\ p \in DOMAIN T
  BY <1>1, <1>2
<1>5. p \in Seq(Sides) /\ NodeGood(t, p, node) /\ node.point = NoPoint
  BY <1>1, <1>2, <1>3, NodeKinds
<1>6. /\ L(p) = Append(p, "l") /\ R(p) = Append(p, "r")
      /\ L(p) \in Seq(Sides) /\ R(p) \in Seq(Sides)
  BY <1>5, ChildNames
<1>7. \A i : /\ i \in Under(b, p) <=> Reaches(t, p, i)
             /\ i \in Under(b, L(p)) <=> Reaches(t, L(p), i)
             /\ i \in Under(b, R(p)) <=> Reaches(t, R(p), i)
  BY <1>1, <1>5, <1>6, UnderReached
<1>8. /\ \A i : Reaches(t, p, i) => \E side \in Sides : Reaches(t, Append(p, side), i)
      /\ \A i : Reaches(t, L(p), i) => At(t, i, node.dimension) < node.median
      /\ \A i : Reaches(t, R(p), i) => At(t, i, node.dimension) >= node.median
      /\ SequentialPoints(t, R(p)) # <<>>
  BY <1>4, <1>5, <1>6, NodeSplits
<1>9. \A i : Reaches(t, p, i) <=> Reaches(t, L(p), i) \/ Reaches(t, R(p), i)
  <2>1. \A i : Reaches(t, L(p), i) => Reaches(t, p, i)
    BY <1>4, <1>5, <1>6, SidesAll, ChildReaches
  <2>2. \A i : Reaches(t, R(p), i) => Reaches(t, p, i)
    BY <1>4, <1>5, <1>6, SidesAll, ChildReaches
  <2>3. ASSUME NEW i, Reaches(t, p, i) PROVE Reaches(t, L(p), i) \/ Reaches(t, R(p), i)
    <3>1. PICK side \in Sides : Reaches(t, Append(p, side), i)
      BY <1>8, <2>3
    <3> QED
      BY <1>6, <3>1 DEF Sides
  <2> QED
    BY <2>1, <2>2, <2>3
<1>10. Under(b, p) = Under(b, L(p)) \cup Under(b, R(p))
  BY <1>7, <1>9
<1>11. ASSUME NEW m \in {L(p), R(p)} \ DOMAIN b.tree PROVE Under(b, m) = {}
  <2>1. PICK side \in Sides : m = Append(p, side)
    BY <1>6, SidesAll
  <2>2. m \notin DOMAIN T
    BY <1>2
  <2>3. \A i : ~Reaches(t, m, i)
    BY <1>4, <2>1, <2>2, GrowsIntoTree
  <2>4. \A i : i \notin Under(b, m)
    BY <1>7, <2>3
  <2> QED
    BY <2>4
<1>12. node.dimension \in Dimensions /\ node.median \in Int
  BY <1>4, <1>5, SplitNumbers
<1>13. R(p) \in DOMAIN T
  <2>1. T[p].point = NoPoint
    BY <1>3, <1>5
  <2>2. Append(p, "r") \in DOMAIN T \/ SequentialPoints(t, Append(p, "r")) = <<>>
    BY <1>4, <2>1, SidesAll DEF Complete
  <2>3. PICK c : c = Append(p, "r")
    OBVIOUS
  <2>4. c \in DOMAIN T \/ SequentialPoints(t, c) = <<>>
    BY <2>2, <2>3
  <2> QED
    BY <1>6, <1>8, <2>3, <2>4
<1> QED
  BY <1>1, <1>2, <1>3, <1>7, <1>8, <1>10, <1>11, <1>12, <1>13

(* What the search relies on, for a complete tree. *)
LEMMA CompleteIsSearchable ==
  ASSUME NEW b, IsTraining(b.train), Complete(b.train, b.tree)
  PROVE  /\ IsSearchTree(b)
         /\ \A p \in DOMAIN b.tree : ~IsLeaf(b, p) => R(p) \in DOMAIN b.tree
<1>1. PICK t : t = b.train
  OBVIOUS
<1>2. PICK T : T = b.tree
  OBVIOUS
<1>3. IsTraining(t) /\ Complete(t, T)
  BY <1>1, <1>2
<1>4. DOMAIN T \subseteq Seq({"l", "r"}) /\ <<>> \in DOMAIN T
  BY <1>3 DEF Complete, NodeGood, Sides
<1>5. PICK n \in Nat : n = Len(t) /\ DOMAIN t = 1 .. n
  BY <1>3, LenProperties DEF IsTraining
<1>6. IsFiniteSet(DOMAIN t)
  BY <1>5, FS_Interval
<1>7. \A i \in DOMAIN t : \A d \in Dimensions : At(t, i, d) \in Int
  BY <1>3, <1>5, DimensionsAssumption DEF IsTraining, Dimensions, At
<1>8. Under(b, <<>>) = DOMAIN t
  <2>1. PICK p : p = <<>>
    OBVIOUS
  <2>2. p \in Seq(Sides) /\ SequentialPoints(t, p) = Rows(t)
    BY <2>1, SequentialRoot
  <2>3. \A i : i \in Under(b, p) <=> Reaches(t, p, i)
    BY <1>1, <1>3, <2>2, UnderReached
  <2>4. Range(Rows(t)) = DOMAIN t
    BY <1>5 DEF Range, Rows
  <2>5. \A i : i \in Under(b, p) <=> i \in DOMAIN t
    BY <2>2, <2>3, <2>4 DEF Reaches
  <2> QED
    BY <2>1, <2>5
<1>9. ASSUME NEW p \in DOMAIN T, IsLeaf(b, p)
      PROVE  T[p].point \in DOMAIN t /\ Under(b, p) = {T[p].point}
  <2>1. p \in Seq(Sides) /\ NodeGood(t, p, T[p]) /\ T[p].point # NoPoint
    BY <1>1, <1>2, <1>9, NodeKinds
  <2>2. T[p].point \in DOMAIN t /\ \A i : Reaches(t, p, i) <=> T[p].point = i
    BY <1>3, <2>1, LeafReached
  <2>3. \A i : i \in Under(b, p) <=> Reaches(t, p, i)
    BY <1>1, <1>3, <2>1, UnderReached
  <2> QED
    BY <2>2, <2>3
<1>10. ASSUME NEW p \in DOMAIN T, NEW q \in DOMAIN T, IsLeaf(b, p), IsLeaf(b, q),
              T[p].point = T[q].point
       PROVE  p = q
  <2>1. T[p].point # NoPoint /\ p \in Seq(Sides) /\ q \in Seq(Sides)
    BY <1>1, <1>2, <1>10, NodeKinds
  <2>2. Len(p) \in Nat /\ Len(q) \in Nat
    BY <2>1, LenProperties
  <2>3. Len(p) <= Len(q) \/ Len(q) <= Len(p)
    BY <2>2
  <2> QED
    BY <1>3, <1>10, <2>1, <2>3, LeafBelow
<1>11. ASSUME NEW p \in DOMAIN b.tree, ~IsLeaf(b, p)
       PROVE  R(p) \in DOMAIN b.tree
  BY <1>11, InnerIsSearchable
<1>12. IsSearchTree(b)
  <2>1. ASSUME NEW p \in DOMAIN b.tree
        PROVE  IF IsLeaf(b, p) THEN b.tree[p].point \in DOMAIN b.train /\ Under(b, p) = {b.tree[p].point}
               ELSE /\ Under(b, p) = Under(b, L(p)) \cup Under(b, R(p))
                    /\ \A m \in {L(p), R(p)} \ DOMAIN b.tree : Under(b, m) = {}
                    /\ b.tree[p].dimension \in Dimensions /\ b.tree[p].median \in Int
                    /\ \A i \in Under(b, L(p)) : At(b.train, i, b.tree[p].dimension) < b.tree[p].median
                    /\ \A i \in Under(b, R(p)) : At(b.train, i, b.tree[p].dimension) >= b.tree[p].median
    BY <1>1, <1>2, <1>9, InnerIsSearchable
  <2> QED
    BY <1>1, <1>2, <1>4, <1>6, <1>7, <1>8, <1>10, <2>1, Zenon DEF IsSearchTree
<1> QED
  BY <1>11, <1>12

(* The finished tree is the one query_nodes relies on, if every thread could be created: it *)
(* is what Search assumes of the tree of a problem.  So it is for any training set, number  *)
(* of cores from one, threshold of the sample and schedule of the threads.                  *)
THEOREM TreeIsSearchableAlways == cores >= 1 /\ Spec => []TreeIsSearchable
<1>1. IInv /\ DInv /\ ChildrenInv => TreeIsSearchable
  <2> SUFFICES ASSUME IInv, DInv, ChildrenInv, status = "built", failed_creates = 0,
                      NEW b, b = [train |-> train, tree |-> tree]
               PROVE  /\ IsSearchTree(b)
                      /\ \A p \in DOMAIN tree : ~IsLeaf(b, p) => R(p) \in DOMAIN tree
    BY Zenon DEF TreeIsSearchable
  <2>1. Complete(train, tree) /\ IsTraining(train)
    BY TreeComplete, TrainingSet
  <2>2. b.train = train /\ b.tree = tree
    OBVIOUS
  <2> QED
    BY <2>1, <2>2, CompleteIsSearchable
<1> QED
  BY <1>1, ChildrenInvAlways, PTL

-----------------------------------------------------------------------------
(* A call that has forked a child keeps it until it returns itself. *)

ForksInv ==
  \A p \in DOMAIN calls : \A side \in Sides :
    CallLeads(calls[p].pc, side) => Append(p, side) \in DOMAIN calls

LEMMA ForksKept ==
  ASSUME ForksInv, DOMAIN calls \subseteq DOMAIN calls',
         \A q \in DOMAIN calls' : \A side \in Sides : CallLeads(calls'[q].pc, side) =>
           \/ Append(q, side) \in DOMAIN calls'
           \/ q \in DOMAIN calls /\ CallLeads(calls[q].pc, side)
  PROVE  ForksInv'
<1>1. ASSUME NEW q \in DOMAIN calls', NEW side \in Sides, CallLeads(calls'[q].pc, side)
      PROVE  Append(q, side) \in DOMAIN calls'
  BY <1>1 DEF ForksInv
<1> QED
  BY <1>1 DEF ForksInv

LEMMA MovedForks ==
  ASSUME ForksInv, NEW p \in DOMAIN calls, NEW pc, Changed(calls', p, pc),
         pc \in {"sort", "left", "returned"}
  PROVE  ForksInv'
<1>1. \A side \in Sides : ~CallLeads(pc, side)
  BY DEF CallLeads
<1> QED
  BY <1>1, ForksKept DEF Changed

LEMMA PopulateForks ==
  ASSUME IInv, ForksInv, PopulateNodes
  PROVE  ForksInv'
<1>1. PICK p \in DOMAIN calls :
        \/ PopulateEmpty(p) \/ PopulateLeaf(p) \/ PopulateSort(p) \/ PopulateSplit(p)
        \/ PopulateLeft(p) \/ PopulateRight(p) \/ JoinUninitialised(p) \/ PopulateReturn(p)
  BY DEF PopulateNodes
<1>2. ASSUME NEW q, NEW pc \in {"sort", "left", "returned"}, Moves(calls', q, pc)
      PROVE  ForksInv'
  <2>1. CASE q \in DOMAIN calls
    <3>1. Changed(calls', q, pc)
      BY <1>2, <2>1, CallMoved DEF IInv, CallPcs
    <3> QED
      BY <1>2, <2>1, <3>1, MovedForks
  <2>2. CASE q \notin DOMAIN calls
    <3>1. calls' = calls
      BY <1>2, <2>2 DEF Moves, IInv, CallsShape
    <3> QED
      BY <3>1 DEF ForksInv
  <2> QED
    BY <2>1, <2>2
<1>3. CASE UNCHANGED calls
  BY <1>3 DEF ForksInv
<1>4. CASE PopulateEmpty(p) \/ PopulateLeaf(p) \/ PopulateSort(p) \/ PopulateSplit(p)
             \/ JoinUninitialised(p)
  <2>1. UNCHANGED calls \/ \E q : \E pc \in {"sort", "left", "returned"} : Moves(calls', q, pc)
    BY <1>4
    DEF PopulateEmpty, PopulateLeaf, PopulateSort, PopulateSplit, JoinUninitialised, Moves
  <2> QED
    BY <1>2, <1>3, <2>1
<1>5. ASSUME NEW side \in Sides, NEW pc \in {"right", "join"}, PopulateFork(p, side, pc),
             (calls[p].pc = "left" /\ side = "l" /\ pc = "right")
               \/ (calls[p].pc = "right" /\ side = "r" /\ pc = "join")
      PROVE  ForksInv'
  <2>1. PICK f, c : /\ Changed(f, p, pc) /\ calls' = Put(f, Append(p, side), c)
                    /\ c.pc \in {"call", "not created"}
    BY <1>5, ForkAdded
  <2>2. PICK x : x = Append(p, side)
    OBVIOUS
  <2>3. /\ DOMAIN calls' = DOMAIN calls \cup {x} /\ calls'[x] = c
        /\ p # x => calls'[p].pc = pc
        /\ \A q \in DOMAIN calls : q # p /\ q # x => calls'[q] = calls[q]
    BY <2>1, <2>2 DEF Put, Changed
  <2>4. \A s \in Sides : ~CallLeads(c.pc, s)
    BY <2>1 DEF CallLeads
  <2>5. \A s \in Sides : CallLeads(pc, s) => s = side \/ CallLeads(calls[p].pc, s)
    BY <1>5 DEF CallLeads, Sides
  <2>6. ASSUME NEW q \in DOMAIN calls', NEW s \in Sides, CallLeads(calls'[q].pc, s)
        PROVE  \/ Append(q, s) \in DOMAIN calls'
               \/ q \in DOMAIN calls /\ CallLeads(calls[q].pc, s)
    <3>1. q # x
      BY <2>3, <2>4, <2>6
    <3>2. CASE q = p
      BY <2>2, <2>3, <2>5, <2>6, <3>1, <3>2
    <3>3. CASE q # p
      BY <2>3, <2>6, <3>1, <3>3
    <3> QED
      BY <3>2, <3>3
  <2> QED
    BY <2>3, <2>6, ForksKept
<1>6. CASE PopulateLeft(p)
  BY <1>5, <1>6 DEF PopulateLeft, Active, Sides
<1>7. CASE PopulateRight(p)
  BY <1>5, <1>7 DEF PopulateRight, Active, Sides
<1>8. CASE PopulateReturn(p)
  <2>1. PICK S : S = {Append(p, "l"), Append(p, "r")}
    OBVIOUS
  <2>2. PICK f : Moves(f, p, "returned") /\ calls' = Drop(f, S)
    BY <1>8, <2>1 DEF PopulateReturn, Moves
  <2>3. Changed(f, p, "returned")
    BY <2>2, CallMoved DEF IInv, CallPcs
  <2>4. /\ DOMAIN calls' = DOMAIN calls \ S
        /\ p \in DOMAIN calls' => calls'[p].pc = "returned"
        /\ \A q \in DOMAIN calls' : q # p => calls'[q] = calls[q]
    BY <2>2, <2>3 DEF Drop, Changed
  <2>5. ASSUME NEW q \in DOMAIN calls', NEW s \in Sides, CallLeads(calls'[q].pc, s)
        PROVE  Append(q, s) \in DOMAIN calls'
    <3>1. q # p
      BY <2>4, <2>5 DEF CallLeads
    <3>2. Append(q, s) \in DOMAIN calls
      BY <2>4, <2>5, <3>1 DEF ForksInv
    <3>3. Owner(Append(q, s)) = q
      <4>1. q \in Seq(Sides) /\ Len(q) >= 1
        BY <2>4, Named DEF IInv
      <4> QED
        BY <4>1, ChildName
    <3>4. \A x \in S : Owner(x) = p
      <4>1. p \in Seq(Sides) /\ Len(p) >= 1
        BY Named DEF IInv
      <4> QED
        BY <2>1, <4>1, SidesAll, ChildName
    <3> QED
      BY <2>4, <3>1, <3>2, <3>3, <3>4
  <2> QED
    BY <2>5 DEF ForksInv
<1> QED
  BY <1>1, <1>4, <1>6, <1>7, <1>8

LEMMA RootForks ==
  ASSUME ForksInv, NEW x, NEW c, calls' = Put(calls, x, c), c.pc = "call"
  PROVE  ForksInv'
<1>1. /\ DOMAIN calls' = DOMAIN calls \cup {x} /\ calls'[x] = c
      /\ \A q \in DOMAIN calls : q # x => calls'[q] = calls[q]
  BY DEF Put
<1>2. \A s \in Sides : ~CallLeads(c.pc, s)
  BY DEF CallLeads
<1>3. \A q \in DOMAIN calls' : \A side \in Sides : CallLeads(calls'[q].pc, side) =>
        q \in DOMAIN calls /\ CallLeads(calls[q].pc, side)
  BY <1>1, <1>2
<1> QED
  BY <1>1, <1>3, ForksKept

LEMMA MakeTreeForks ==
  ASSUME IInv, ForksInv, MakeTree
  PROVE  ForksInv'
<1>1. CASE UNCHANGED calls
  BY <1>1 DEF ForksInv
<1>2. ASSUME NEW side \in Sides, NEW thread \in BOOLEAN,
             calls' = Put(calls, <<side>>, RootChild(side, thread))
      PROVE  ForksInv'
  <2>1. PICK c : c = RootChild(side, thread)
    OBVIOUS
  <2>2. c.pc = "call"
    BY <2>1, RootChildCall
  <2>3. PICK x : x = <<side>>
    OBVIOUS
  <2> QED
    BY <1>2, <2>1, <2>2, <2>3, RootForks
<1>3. CASE MakeTreeReturn
  <2>1. PICK S : S = {<<"l">>, <<"r">>}
    OBVIOUS
  <2>2. DOMAIN calls' = DOMAIN calls \ S /\ \A q \in DOMAIN calls' : calls'[q] = calls[q]
    BY <1>3, <2>1 DEF MakeTreeReturn, Drop
  <2>3. ASSUME NEW q \in DOMAIN calls', NEW s \in Sides, CallLeads(calls'[q].pc, s)
        PROVE  Append(q, s) \in DOMAIN calls'
    <3>1. Append(q, s) \in DOMAIN calls
      BY <2>2, <2>3 DEF ForksInv
    <3>2. Len(Append(q, s)) > 1
      <4>1. q \in Seq(Sides) /\ Len(q) >= 1
        BY <2>2, Named DEF IInv
      <4> QED
        BY <4>1, ChildName
    <3>3. Append(q, s) \notin S
      BY <2>1, <3>2, RootName
    <3> QED
      BY <2>2, <3>1, <3>3
  <2> QED
    BY <2>3 DEF ForksInv
<1>4. CASE \/ MakeTreeCreate("l", main.l, "create left", "create right")
           \/ MakeTreeCreate("r", main.r, "create right", "left")
  <2>1. \/ UNCHANGED calls
        \/ \E side \in Sides : calls' = Put(calls, <<side>>, RootChild(side, TRUE))
    BY <1>4, SidesAll DEF MakeTreeCreate
  <2> QED
    BY <1>1, <1>2, <2>1
<1>5. CASE MakeTreeRunLeft \/ MakeTreeRunRight
  <2>1. \/ UNCHANGED calls
        \/ \E side \in Sides : calls' = Put(calls, <<side>>, RootChild(side, FALSE))
    BY <1>5, SidesAll DEF MakeTreeRunLeft, MakeTreeRunRight, MakeTreeRun
  <2> QED
    BY <1>1, <1>2, <2>1
<1>6. CASE MakeTreeEmpty \/ MakeTreeLeaf \/ MakeTreeSort \/ MakeTreeAskLeft \/ MakeTreeAskRight
  BY <1>1, <1>6 DEF MakeTreeEmpty, MakeTreeLeaf, MakeTreeSort, MakeTreeAskLeft, MakeTreeAskRight
<1> QED
  BY <1>3, <1>4, <1>5, <1>6 DEF MakeTree

LEMMA ForksInvStep == IInv /\ ForksInv /\ [Next]_vars => ForksInv'
<1> SUFFICES ASSUME IInv, ForksInv, [Next]_vars PROVE ForksInv'
  OBVIOUS
<1>1. CASE UNCHANGED vars \/ Sorting \/ Over
  <2>1. UNCHANGED calls
    BY <1>1 DEF vars, Sorting, Over
  <2> QED
    BY <2>1 DEF ForksInv
<1> QED
  BY <1>1, MakeTreeForks, PopulateForks DEF Next, Step

-----------------------------------------------------------------------------
(* How many points of a spread training set reach a node: at most what MostAtStackDepth *)
(* counts, as every split below the root leaves half of its sample on either side.     *)

IsMostLoop(f, n, m) ==
  /\ f[1] = n
  /\ \A k \in 2 .. m : f[k] = MostHandedDown(f[k - 1])

LEMMA MostExists ==
  ASSUME NEW n, NEW m \in Nat
  PROVE  \E f : IsMostLoop(f, n, m)
<1> DEFINE P == {k \in Nat : \E f : IsMostLoop(f, n, k)}
<1>1. 0 \in P
  <2> DEFINE f == [k \in {1} |-> n]
  <2>1. IsMostLoop(f, n, 0)
    BY DEF IsMostLoop
  <2> QED
    BY <2>1
<1>2. ASSUME NEW k \in Nat, k \in P PROVE k + 1 \in P
  <2>1. PICK f : IsMostLoop(f, n, k)
    BY <1>2
  <2>2. PICK x : x = MostHandedDown(f[k])
    OBVIOUS
  <2> DEFINE g == [i \in 1 .. k + 1 |-> IF i = 1 THEN n ELSE IF i = k + 1 THEN x ELSE f[i]]
  <2>3. g[1] = n /\ (k >= 1 => g[k + 1] = x) /\ \A i \in 1 .. k : g[i] = f[i]
    BY <1>2, <2>1 DEF IsMostLoop
  <2> HIDE DEF g
  <2>4. ASSUME NEW i \in 2 .. k + 1 PROVE g[i] = MostHandedDown(g[i - 1])
    <3>1. CASE i = k + 1
      <4>1. i - 1 = k /\ k >= 1 /\ g[k] = f[k]
        BY <1>2, <2>3, <2>4, <3>1
      <4> QED
        BY <2>2, <2>3, <3>1, <4>1
    <3>2. CASE i # k + 1
      <4>1. i \in 2 .. k /\ g[i] = f[i] /\ g[i - 1] = f[i - 1]
        BY <1>2, <2>3, <2>4, <3>2
      <4> QED
        BY <2>1, <4>1 DEF IsMostLoop
    <3> QED
      BY <3>1, <3>2
  <2>5. IsMostLoop(g, n, k + 1)
    BY <2>3, <2>4 DEF IsMostLoop
  <2>6. k + 1 \in Nat
    OBVIOUS
  <2> QED
    BY <2>5, <2>6
<1>3. Nat \subseteq P
  <2> HIDE DEF P
  <2> QED
    BY <1>1, <1>2, Induction
<1> QED
  BY <1>3

LEMMA MostUnfolded ==
  ASSUME NEW t
  PROVE  \E f : MostAtStackDepth(t) = f[StackDepth] /\ IsMostLoop(f, Len(t), StackDepth)
<1> DEFINE IsIt(f) ==
      f = [level \in 1 .. StackDepth |->
             IF level = 1 THEN Len(t) ELSE MostHandedDown(f[level - 1])]
<1>1. MostAtStackDepth(t) = (CHOOSE f : IsIt(f))[StackDepth]
  BY DEF MostAtStackDepth
<1>2. PICK h : IsMostLoop(h, Len(t), StackDepth)
  BY StackAssumption, MostExists
<1> DEFINE g == [n \in 1 .. StackDepth |-> h[n]]
<1>3. IsIt(g)
  <2>1. \A n \in 1 .. StackDepth :
          g[n] = IF n = 1 THEN Len(t) ELSE MostHandedDown(g[n - 1])
    BY <1>2, StackAssumption DEF IsMostLoop
  <2> QED
    BY <2>1
<1>4. PICK f : f = (CHOOSE x : IsIt(x)) /\ IsIt(f)
  <2> HIDE DEF IsIt
  <2> QED
    BY <1>3
<1>5. IsMostLoop(f, Len(t), StackDepth)
  <2>1. \A n \in 1 .. StackDepth :
          f[n] = IF n = 1 THEN Len(t) ELSE MostHandedDown(f[n - 1])
    BY <1>4
  <2>2. 1 \in 1 .. StackDepth
    BY StackAssumption
  <2>3. f[1] = Len(t)
    BY <2>1, <2>2
  <2>4. \A n \in 2 .. StackDepth : n \in 1 .. StackDepth /\ n # 1
    BY StackAssumption
  <2> QED
    BY <2>1, <2>3, <2>4 DEF IsMostLoop
<1> QED
  BY <1>1, <1>4, <1>5

(* More points never leave fewer to hand down. *)
LEMMA HandedDownGrows ==
  ASSUME NEW k \in Nat, NEW n \in Nat, k <= n
  PROVE  /\ MostHandedDown(k) \in Nat /\ MostHandedDown(n) \in Nat
         /\ MostHandedDown(k) <= MostHandedDown(n)
  BY ThresholdAssumption DEF MostHandedDown

LEMMA SpreadEverywhere ==
  ASSUME NEW t, Spread(t), NEW d \in Dimensions
  PROVE  SpreadIn(t, d)
  BY DEF Spread, SpreadIn

LEMMA HalfShrinks ==
  ASSUME NEW t, IsTraining(t), Spread(t), NEW p \in Seq(Sides), p # <<>>,
         NEW side \in Sides, NEW a \in Seq(DOMAIN t), Distinct(a),
         NEW h, h = SequentialHalf(t, p, side, a)
  PROVE  Len(h) \in Nat /\ Len(h) <= MostHandedDown(Len(a))
<1>1. Len(a) \in Nat
  BY LenProperties
<1>2. h \in Seq(DOMAIN t) /\ (Len(a) <= 1 => h = <<>>)
  BY HalfIsVector
<1>3. Len(h) \in Nat
  BY <1>2, LenProperties
<1>4. PICK n \in Nat : n = Len(a)
  BY <1>1
<1>5. MostHandedDown(n) \in Nat
  BY HandedDownGrows
<1>6. CASE n <= 1
  <2>1. Len(h) = 0
    BY <1>2, <1>4, <1>6
  <2> QED
    BY <1>3, <1>4, <1>5, <2>1
<1>7. CASE n >= 2
  <2>1. PICK e : e = Sample(p, a)
    OBVIOUS
  <2>2. e = (IF n < SampleThreshold THEN n ELSE n \div 4)
    BY <1>4, <2>1 DEF Sample, LocalEnd
  <2>3. e \in Nat /\ e >= 2 /\ e <= n /\ MostHandedDown(n) = n - e \div 2
    BY <1>7, <2>2, ThresholdAssumption DEF MostHandedDown
  <2>4. PICK d : d = Len(p) % num_dimensions
    OBVIOUS
  <2>5. d \in Dimensions
    BY <2>4, LevelDimension, LenProperties
  <2>6. SpreadIn(t, d)
    BY <2>5, SpreadEverywhere
  <2>7. PICK l : l = SequentialHalf(t, p, "l", a)
    OBVIOUS
  <2>8. PICK r : r = SequentialHalf(t, p, "r", a)
    OBVIOUS
  <2>9. Len(a) >= 2 /\ 1 <= Sample(p, a)
    BY <1>4, <1>7, <2>1, <2>3
  <2>10. /\ Len(l) + Len(r) = Len(a)
         /\ Sample(p, a) - Sample(p, a) \div 2 <= Len(r)
         /\ SpreadIn(t, d) /\ Distinct(a) => Sample(p, a) \div 2 <= Len(l)
    BY <2>4, <2>7, <2>8, <2>9, HalvesOfNode
  <2>11. Len(l) + Len(r) = n /\ e - e \div 2 <= Len(r) /\ e \div 2 <= Len(l)
    BY <1>4, <2>1, <2>6, <2>10
  <2>12. l \in Seq(DOMAIN t) /\ r \in Seq(DOMAIN t)
    BY <2>7, <2>8, SidesAll, HalfIsVector
  <2>13. Len(l) \in Nat /\ Len(r) \in Nat
    BY <2>12, LenProperties
  <2>14. Len(l) <= n - e \div 2 /\ Len(r) <= n - e \div 2
    BY <2>3, <2>11, <2>13
  <2>15. h = l \/ h = r
    BY <2>7, <2>8 DEF Sides
  <2> QED
    BY <1>3, <1>4, <2>3, <2>14, <2>15
<1> QED
  BY <1>4, <1>6, <1>7

(* A vector without repetitions has no more elements than there are rows. *)
LEMMA DistinctShort ==
  ASSUME NEW n \in Nat, NEW a \in Seq(1 .. n), Distinct(a)
  PROVE  Len(a) <= n
<1>1. Len(a) \in Nat /\ DOMAIN a = 1 .. Len(a) /\ a \in [1 .. Len(a) -> 1 .. n]
  BY LenProperties
<1>2. PICK k \in Nat : k = Len(a)
  BY <1>1
<1>3. a \in Injection(1 .. k, 1 .. n)
  BY <1>1, <1>2 DEF Distinct, Injection, IsInjective
<1>4. IsFiniteSet(1 .. n)
  BY FS_Interval
<1>5. Cardinality(1 .. n) = n
  BY FS_Interval
<1>6. Cardinality(1 .. k) = k
  BY FS_Interval
<1>7. Cardinality(1 .. k) <= Cardinality(1 .. n)
  BY <1>3, <1>4, FS_Injection
<1> QED
  BY <1>2, <1>5, <1>6, <1>7

(* The vector at the start of a path and at one step more. *)
LEMMA StepShrinks ==
  ASSUME NEW t, IsTraining(t), Spread(t), NEW p \in Seq(Sides), NEW n \in 1 .. Len(p) - 1,
         NEW most \in Nat, Len(SequentialPoints(t, SubSeq(p, 1, n))) <= most
  PROVE  /\ Len(SequentialPoints(t, SubSeq(p, 1, n + 1))) <= MostHandedDown(most)
         /\ MostHandedDown(most) \in Nat
<1>1. Len(p) \in Nat
  BY LenProperties
<1>2. n \in 0 .. Len(p) - 1 /\ n \in 0 .. Len(p) /\ n + 1 \in 1 .. Len(p)
  BY <1>1
<1>3. SubSeq(p, 1, n) \in Seq(Sides) /\ Len(SubSeq(p, 1, n)) = n /\ p[n + 1] \in Sides
  BY <1>2, PathPrefix
<1>4. PICK c \in Seq(Sides) : c = SubSeq(p, 1, n)
  BY <1>3
<1>5. PICK side \in Sides : side = p[n + 1]
  BY <1>3
<1>6. PICK a : a = SequentialPoints(t, c)
  OBVIOUS
<1>7. PICK h : h = SequentialHalf(t, c, side, a)
  OBVIOUS
<1>8. h = SequentialPoints(t, SubSeq(p, 1, n + 1))
  BY <1>2, <1>4, <1>5, <1>6, <1>7, SequentialNext
<1>9. a \in Seq(DOMAIN t) /\ Distinct(a)
  BY <1>6, SequentialVector
<1>10. Len(c) = n
  BY <1>3, <1>4
<1>11. c # <<>>
  BY <1>2, <1>10
<1>12. Len(h) \in Nat /\ Len(h) <= MostHandedDown(Len(a))
  BY <1>7, <1>9, <1>11, HalfShrinks
<1>13. PICK k \in Nat : k = Len(a)
  BY <1>9, LenProperties
<1>14. k <= most
  BY <1>4, <1>6, <1>13
<1>15. /\ MostHandedDown(k) \in Nat /\ MostHandedDown(most) \in Nat
       /\ MostHandedDown(k) <= MostHandedDown(most)
  BY <1>14, HandedDownGrows
<1> QED
  BY <1>8, <1>12, <1>13, <1>15

LEMMA FewAtStackDepth ==
  ASSUME NEW t, IsTraining(t), Spread(t), NEW p \in Seq(Sides), Len(p) = StackDepth
  PROVE  Len(SequentialPoints(t, p)) <= MostAtStackDepth(t) /\ MostAtStackDepth(t) \in Nat
<1>1. PICK f : MostAtStackDepth(t) = f[StackDepth] /\ IsMostLoop(f, Len(t), StackDepth)
  BY MostUnfolded
<1> DEFINE Few(n) == f[n] \in Nat /\ Len(SequentialPoints(t, SubSeq(p, 1, n))) <= f[n]
           P == {n \in 0 .. StackDepth - 1 : Few(n + 1)}
<1>2. StackDepth \in Nat /\ StackDepth >= 1
  BY StackAssumption
<1>3. 0 \in P
  <2>1. PICK c : c = SubSeq(p, 1, 1)
    OBVIOUS
  <2>2. c \in Seq(Sides)
    BY <1>2, <2>1, PathPrefix
  <2>3. PICK a : a = SequentialPoints(t, c)
    OBVIOUS
  <2>4. PICK m : m = Len(t)
    OBVIOUS
  <2>5. m \in Nat /\ DOMAIN t = 1 .. m
    BY <2>4, LenProperties DEF IsTraining
  <2>6. a \in Seq(1 .. m) /\ Distinct(a)
    BY <2>2, <2>3, <2>5, SequentialVector
  <2>7. Len(a) <= m
    BY <2>5, <2>6, DistinctShort
  <2>8. f[1] = m
    BY <1>1, <2>4 DEF IsMostLoop
  <2>9. Few(1)
    BY <2>1, <2>3, <2>5, <2>7, <2>8
  <2>10. 0 \in 0 .. StackDepth - 1 /\ 0 + 1 = 1
    BY <1>2
  <2> HIDE DEF Few
  <2> QED
    BY <2>9, <2>10
<1>4. ASSUME NEW n \in 0 .. StackDepth - 1 - 1, n \in P PROVE n + 1 \in P
  <2>1. PICK k : k = n + 1
    OBVIOUS
  <2>2. k \in 1 .. Len(p) - 1 /\ k \in 0 .. StackDepth - 1 /\ k + 1 \in 2 .. StackDepth /\ (k + 1) - 1 = k
    BY <1>2, <1>4, <2>1
  <2>3. Few(k)
    BY <1>4, <2>1
  <2>4. PICK most \in Nat : most = f[k]
    BY <2>3
  <2>5. f[k + 1] = MostHandedDown(most)
    BY <1>1, <2>2, <2>4 DEF IsMostLoop
  <2>6. /\ Len(SequentialPoints(t, SubSeq(p, 1, k + 1))) <= MostHandedDown(most)
        /\ MostHandedDown(most) \in Nat
    BY <2>2, <2>3, <2>4, StepShrinks
  <2>7. Few(k + 1)
    BY <2>5, <2>6
  <2> HIDE DEF Few
  <2> QED
    BY <2>1, <2>2, <2>7
<1>5. \A n \in 0 .. StackDepth - 1 : n \in P
  <2>1. PICK m \in Nat : m = StackDepth - 1
    BY <1>2
  <2>2. \A n \in 0 .. m - 1 : n \in P => n + 1 \in P
    BY <1>4, <2>1
  <2>3. \A n \in 0 .. m : n \in P
    <3> HIDE DEF P
    <3> QED
      BY <1>3, <2>2, InductionTo
  <2> QED
    BY <2>1, <2>3
<1>6. PICK m \in 0 .. StackDepth - 1 : m + 1 = StackDepth
  BY <1>2
<1>7. Few(StackDepth)
  BY <1>5, <1>6
<1>8. SubSeq(p, 1, StackDepth) = p
  BY <1>2, SubSeqFull
<1> QED
  BY <1>1, <1>7, <1>8

-----------------------------------------------------------------------------
(* Spread points exhaust the stack only if more than one can be left at its depth. *)

FewPoints == Spread(train) /\ failed_creates = 0 /\ MostAtStackDepth(train) <= 1

LEMMA FewPointsBefore ==
  ASSUME IInv, Next, FewPoints'
  PROVE  FewPoints
<1>1. train' = train
  <2>1. CASE MakeTree
    BY <2>1
    DEF MakeTree, MakeTreeEmpty, MakeTreeLeaf, MakeTreeSort, MakeTreeAskLeft, MakeTreeAskRight,
        MakeTreeCreate, MakeTreeRunLeft, MakeTreeRunRight, MakeTreeRun, MakeTreeReturn
  <2>2. CASE PopulateNodes
    BY <2>2
    DEF PopulateNodes, PopulateEmpty, PopulateLeaf, PopulateSort, PopulateSplit, PopulateLeft,
        PopulateRight, PopulateFork, JoinUninitialised, PopulateReturn
  <2>3. CASE Sorting
    BY <2>3
    DEF Sorting, SortStep, SortBase, SortAssert, SortSerial, SortLeft, SortRight, SortFork, SortMerge
  <2>4. CASE Over
    BY <2>4 DEF Over, vars, sortVars
  <2> QED
    BY <2>1, <2>2, <2>3, <2>4 DEF Next, Step
<1>2. failed_creates = 0
  BY FailuresGrow DEF FewPoints
<1>3. PICK t : t = train
  OBVIOUS
<1>4. Spread(t) /\ MostAtStackDepth(t) <= 1
  BY <1>1, <1>3 DEF FewPoints
<1> QED
  BY <1>2, <1>3, <1>4 DEF FewPoints

(* A call at the depth of the stack has a point at most. *)
LEMMA StackHasRoom ==
  ASSUME IInv, DInv, FewPoints, NEW p \in DOMAIN calls, Len(Points(p)) >= 2
  PROVE  ~(Len(p) >= StackDepth)
<1>1. /\ p \in Seq(Sides) /\ Len(p) \in Nat /\ Len(p) <= StackDepth
      /\ Points(p) = SequentialPoints(train, p)
  BY CallFacts
<1>2. SUFFICES ASSUME Len(p) >= StackDepth PROVE FALSE
  OBVIOUS
<1>3. StackDepth \in Nat
  BY StackAssumption
<1>4. Len(p) = StackDepth
  BY <1>1, <1>2, <1>3
<1>5. PICK t : t = train
  OBVIOUS
<1>6. IsTraining(t) /\ Spread(t) /\ MostAtStackDepth(t) <= 1
  BY <1>5, TrainingSet DEF FewPoints
<1>7. Len(SequentialPoints(t, p)) <= MostAtStackDepth(t) /\ MostAtStackDepth(t) \in Nat
  BY <1>1, <1>4, <1>6, FewAtStackDepth
<1>8. SequentialPoints(t, p) \in Seq(DOMAIN t)
  BY <1>1, <1>6, SequentialVector
<1>9. Len(SequentialPoints(t, p)) \in Nat
  BY <1>8, LenProperties
<1> QED
  BY <1>1, <1>5, <1>6, <1>7, <1>9

(* Of the calls of populate_nodes only one with a full stack, or one that joins a thread that *)
(* was never created, can end the process so.                                                 *)
LEMMA PopulateFits ==
  ASSUME IInv, DInv, ChildrenHold, ForksInv, FewPoints, PopulateNodes, status # "segfault"
  PROVE  status' # "segfault"
<1>1. PICK p \in DOMAIN calls :
        \/ PopulateEmpty(p) \/ PopulateLeaf(p) \/ PopulateSort(p) \/ PopulateSplit(p)
        \/ PopulateLeft(p) \/ PopulateRight(p) \/ JoinUninitialised(p) \/ PopulateReturn(p)
  BY DEF PopulateNodes
<1>2. CASE PopulateSort(p)
  <2>1. ~(Len(p) >= StackDepth)
    BY <1>2, StackHasRoom DEF PopulateSort
  <2> QED
    BY <1>2, <2>1 DEF PopulateSort
<1>3. CASE JoinUninitialised(p)
  <2>1. PICK side \in Sides : calls[p].pc = "join" /\ calls[Append(p, side)].pc = "not created"
    BY <1>3 DEF JoinUninitialised, Active, Sides
  <2>2. Append(p, side) \in DOMAIN calls
    BY <2>1 DEF ForksInv, CallLeads
  <2> QED
    BY <2>1, <2>2 DEF ChildrenHold
<1>4. CASE \/ PopulateEmpty(p) \/ PopulateLeaf(p) \/ PopulateSplit(p)
           \/ PopulateLeft(p) \/ PopulateRight(p) \/ PopulateReturn(p)
  BY <1>4
  DEF PopulateEmpty, PopulateLeaf, PopulateSplit, PopulateLeft, PopulateRight, PopulateFork,
      PopulateReturn
<1> QED
  BY <1>1, <1>2, <1>3, <1>4

LEMMA FitsStep ==
  IInv /\ DInv /\ ChildrenInv /\ ForksInv /\ SpreadPointsFit /\ [Next]_vars => SpreadPointsFit'
<1> SUFFICES ASSUME IInv, DInv, ChildrenInv, ForksInv, SpreadPointsFit, [Next]_vars
             PROVE  SpreadPointsFit'
  OBVIOUS
<1>1. CASE UNCHANGED vars
  <2>1. train' = train /\ status' = status /\ failed_creates' = failed_creates
    BY <1>1 DEF vars, sortVars
  <2>2. PICK t : t = train
    OBVIOUS
  <2>3. t = train' /\ (Spread(t) /\ failed_creates = 0 /\ MostAtStackDepth(t) <= 1 => status # "segfault")
    BY <2>1, <2>2 DEF SpreadPointsFit
  <2> QED
    BY <2>1, <2>3 DEF SpreadPointsFit
<1>2. CASE Next
  <2> SUFFICES ASSUME FewPoints' PROVE status' # "segfault"
    BY DEF SpreadPointsFit, FewPoints
  <2>1. FewPoints
    BY <1>2, FewPointsBefore
  <2>2. status # "segfault"
    BY <2>1 DEF SpreadPointsFit, FewPoints
  <2>3. ChildrenHold
    BY <2>1 DEF ChildrenInv, FewPoints
  <2>4. CASE MakeTree
    BY <2>2, <2>4
    DEF MakeTree, MakeTreeEmpty, MakeTreeLeaf, MakeTreeSort, MakeTreeAskLeft, MakeTreeAskRight,
        MakeTreeCreate, MakeTreeRunLeft, MakeTreeRunRight, MakeTreeRun, MakeTreeReturn
  <2>5. CASE PopulateNodes
    BY <2>1, <2>2, <2>3, <2>5, PopulateFits
  <2>6. CASE Sorting
    BY <2>2, <2>6
    DEF Sorting, SortStep, SortBase, SortAssert, SortSerial, SortLeft, SortRight, SortFork, SortMerge
  <2>7. CASE Over
    BY <2>2, <2>7 DEF Over, vars, sortVars
  <2> QED
    BY <1>2, <2>4, <2>5, <2>6, <2>7 DEF Next, Step
<1> QED
  BY <1>1, <1>2

(* On at least one core, whatever is sorted, created or not: points that are spread out    *)
(* exhaust the stack of populate_nodes only if there are more of them than MostAtStackDepth *)
(* says it has room for.                                                                    *)
THEOREM SpreadPointsFitAlways == cores >= 1 /\ Spec => []SpreadPointsFit
<1>1. Init => ForksInv /\ SpreadPointsFit
  BY DEF Init, ForksInv, SpreadPointsFit
<1>2. IInv /\ ForksInv /\ [Next]_vars => ForksInv'
  BY ForksInvStep
<1>3. IInv /\ DInv /\ ChildrenInv /\ ForksInv /\ SpreadPointsFit /\ [Next]_vars => SpreadPointsFit'
  BY FitsStep
<1> QED
  BY <1>1, <1>2, <1>3, ChildrenInvAlways, PTL DEF Spec
=============================================================================

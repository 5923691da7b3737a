---------------------------- MODULE Search_proofs ----------------------------
(***************************************************************************)
(* Theorems of Search for every set of problems that is Searchable: any    *)
(* number of points and dimensions, any tree of the shape make_tree builds,*)
(* any query point and any k.  Pruning never loses a nearest neighbour.    *)
(***************************************************************************)
EXTENDS Search, KnnOps_proofs

(* Where a node has not been called its subtree has not been entered. *)
Unentered ==
  \A n \in DOMAIN tree :
    /\ seen[n] \in {"unseen", "called"} /\ ~IsLeaf(problem, n) =>
         \A m \in {L(n), R(n)} \cap DOMAIN tree : seen[m] = "unseen"
    /\ seen[n] = "first" /\ Second(problem, n) \in DOMAIN tree =>
         seen[Second(problem, n)] = "unseen"

(* Only inner nodes wait for a child. *)
WaitingIsInner ==
  \A n \in DOMAIN tree : seen[n] \in {"first", "second"} => ~IsLeaf(problem, n)

(* A point held is one whose leaf has been looked at. *)
HeldIsSeen ==
  \A n \in DOMAIN tree :
    IsLeaf(problem, n) /\ tree[n].point \in queue => seen[n] = "returned"

(* At the second child the points of the first one are settled. *)
FirstIsSettled ==
  \A n \in DOMAIN tree :
    seen[n] = "second" => \A i \in Under(problem, First(problem, n)) : Settled(i)

(* Every set of points held has a farthest one.  It is a fact of all finite sets; as part *)
(* of the invariant it is proved along the execution instead of by induction over sets.   *)
HasFarthest == \A Q \in SUBSET queue : Q # {} => Farthest(problem, Q) # {}

IInv ==
  /\ TypeOK
  /\ IsFiniteSet(queue) /\ CountIsSize
  /\ Unentered /\ WaitingIsInner /\ HeldIsSeen
  /\ ReturnedIsSettled /\ FirstIsSettled
  /\ HasFarthest

-----------------------------------------------------------------------------
(* Paths. *)
LEMMA ChildPaths ==
  ASSUME NEW n \in Seq({"l", "r"}), NEW m \in Seq({"l", "r"})
  PROVE  /\ L(n) # n /\ R(n) # n /\ L(n) # R(m)
         /\ L(n) = L(m) => n = m
         /\ R(n) = R(m) => n = m
  BY AppendProperties, AppendInjective DEF L, R

LEMMA ChildNotRoot ==
  ASSUME NEW n \in Seq({"l", "r"})
  PROVE  L(n) # <<>> /\ R(n) # <<>>
  BY AppendProperties, EmptySeq DEF L, R

(* Squares of numbers of either sign grow with their distance from zero. *)
LEMMA SquareMonotone ==
  ASSUME NEW x \in Int, NEW y \in Int,
         (0 <= x /\ x <= y) \/ (y <= x /\ x <= 0)
  PROVE  square(x) <= square(y)
<1>1. ASSUME NEW a \in Nat, NEW c \in Nat, a <= c
      PROVE  a * a <= c * c
  <2>1. a * a <= a * c
    BY <1>1, SMT
  <2>2. a * c <= c * c
    BY <1>1, SMT
  <2>3. a * a \in Int /\ a * c \in Int /\ c * c \in Int
    BY SMT
  <2> QED
    BY <2>1, <2>2, <2>3
<1>2. CASE 0 <= x /\ x <= y
  BY <1>1, <1>2 DEF square
<1>3. CASE y <= x /\ x <= 0
  <2>1. (-x) * (-x) <= (-y) * (-y)
    BY <1>1, <1>3
  <2>2. (-x) * (-x) = x * x /\ (-y) * (-y) = y * y
    BY SMT
  <2> QED
    BY <2>1, <2>2 DEF square
<1> QED
  BY <1>2, <1>3

(* A leaf holds its own point and no other. *)
LEMMA LeafUnder ==
  ASSUME NEW b, Searchable(b), NEW n \in DOMAIN b.tree, IsLeaf(b, n)
  PROVE  b.tree[n].point \in DOMAIN b.train /\ Under(b, n) = {b.tree[n].point}
  BY DEF Searchable, IsSearchTree

(* An inner node has the points of its two children, the null one having none. *)
LEMMA InnerUnder ==
  ASSUME NEW b, Searchable(b), NEW n \in DOMAIN b.tree, ~IsLeaf(b, n)
  PROVE  /\ Under(b, n) = Under(b, First(b, n)) \cup Under(b, Second(b, n))
         /\ \A m \in {First(b, n), Second(b, n)} \ DOMAIN b.tree : Under(b, m) = {}
  BY DEF Searchable, IsSearchTree, First, Second

(* Distances are natural numbers, and none is less than the difference in a coordinate. *)
LEMMA Distances ==
  ASSUME NEW b, Searchable(b), NEW i \in DOMAIN b.train
  PROVE  /\ dist(b, i) \in Nat
         /\ \A d \in Dimensions :
              /\ At(b.train, i, d) \in Int
              /\ square(b.query[d + 1] - At(b.train, i, d)) <= dist(b, i)
<1>1. PICK query : query = b.query
  OBVIOUS
<1>2. PICK point : point = b.train[i]
  OBVIOUS
<1>3. \A d \in Dimensions : query[d + 1] \in Int /\ point[d + 1] \in Int
  BY <1>1, <1>2 DEF Searchable, IsSearchTree, At
<1>4. /\ distance(query, point) \in Nat
      /\ \A d \in Dimensions : square(query[d + 1] - point[d + 1]) <= distance(query, point)
  BY <1>3, DistanceCovers
<1> QED
  BY <1>1, <1>2, <1>3, <1>4 DEF dist, At

(* No point behind the partition is nearer to the query than the partition. *)
LEMMA GapBound ==
  ASSUME NEW b, Searchable(b), NEW n \in DOMAIN b.tree, ~IsLeaf(b, n),
         NEW i \in Under(b, Second(b, n))
  PROVE  gap(b, n) \in Int /\ gap(b, n) <= dist(b, i)
<1> DEFINE d == b.tree[n].dimension
           q == b.query[d + 1]
           a == At(b.train, i, d)
           med == b.tree[n].median
<1>1. d \in Dimensions /\ med \in Int /\ q \in Int
  BY DEF Searchable, IsSearchTree
<1>2. i \in DOMAIN b.train
  BY DEF Under
<1>3. a \in Int /\ dist(b, i) \in Nat /\ square(q - a) <= dist(b, i)
  BY <1>1, <1>2, Distances
<1>4. IF q < med THEN a >= med ELSE a < med
  BY DEF Searchable, IsSearchTree, Second, QueryIsLeft
<1> HIDE DEF d, q, a, med
<1>5. /\ q - med \in Int /\ q - a \in Int
      /\ (0 <= q - med /\ q - med <= q - a) \/ (q - a <= q - med /\ q - med <= 0)
  BY <1>1, <1>3, <1>4
<1>6. square(q - med) <= square(q - a)
  BY <1>5, SquareMonotone
<1>7. square(q - med) \in Int /\ square(q - a) \in Int
  BY <1>5 DEF square
<1>8. gap(b, n) = square(q - med)
  BY DEF gap, q, d, med
<1> QED
  BY <1>3, <1>6, <1>7, <1>8

(* What the invariant needs to know of the problem, which never changes. *)
LEMMA ProblemFacts ==
  ASSUME problem \in Problems
  PROVE  /\ Searchable(problem)
         /\ DOMAIN tree \subseteq Seq({"l", "r"}) /\ <<>> \in DOMAIN tree
         /\ k \in Nat \ {0}
         /\ IsFiniteSet(Points)
         /\ Under(problem, <<>>) = Points
  BY ProblemsAssumption DEF Searchable, IsSearchTree, tree, k, Points

-----------------------------------------------------------------------------
LEMMA UnderPoints == ASSUME NEW n PROVE Under(problem, n) \subseteq Points
  BY DEF Under, Points

LEMMA InitInv == Init => IInv
<1> SUFFICES ASSUME Init PROVE IInv
  OBVIOUS
<1>1. problem \in Problems
  BY DEF Init
<1>2. /\ DOMAIN tree \subseteq Seq({"l", "r"}) /\ <<>> \in DOMAIN tree
      /\ k \in Nat \ {0}
  BY <1>1, ProblemFacts
<1>3. TypeOK
  BY <1>1, <1>2 DEF Init, TypeOK
<1>4. IsFiniteSet(queue) /\ CountIsSize
  BY FS_EmptySet DEF Init, CountIsSize
<1>5. \A n \in DOMAIN tree : L(n) # <<>> /\ R(n) # <<>>
  BY <1>2, AppendProperties DEF L, R
<1>6. Unentered /\ WaitingIsInner /\ HeldIsSeen /\ ReturnedIsSettled /\ FirstIsSettled
  BY <1>2, <1>5 DEF Init, Unentered, WaitingIsInner, HeldIsSeen, ReturnedIsSettled, FirstIsSettled
<1>7. HasFarthest
  BY DEF Init, HasFarthest
<1> QED
  BY <1>3, <1>4, <1>6, <1>7 DEF IInv

(* A call into a child that was not entered before. *)
LEMMA CallStep ==
  ASSUME IInv, NEW n \in DOMAIN tree, NEW m \in {L(n), R(n)}, NEW mode \in {"first", "second"},
         ~IsLeaf(problem, n), seen[n] # "unseen",
         m \in DOMAIN tree => seen[m] = "unseen",
         mode = "first" => Second(problem, n) # m /\
           (Second(problem, n) \in DOMAIN tree => seen[Second(problem, n)] = "unseen"),
         mode = "second" => \A i \in Under(problem, First(problem, n)) : Settled(i),
         CallChild(n, m, mode), UNCHANGED <<problem, queue, num_found>>
  PROVE  IInv'
<1>1. /\ problem' = problem /\ tree' = tree /\ k' = k
      /\ queue' = queue /\ num_found' = num_found
  BY DEF tree, k
<1>2. \A i : Settled(i)' <=> Settled(i)
  BY <1>1 DEF Settled
<1>3. /\ DOMAIN tree \subseteq Seq({"l", "r"})
      /\ problem \in Problems
      /\ seen \in [DOMAIN tree -> {"unseen", "called", "first", "second", "returned"}]
  BY ProblemFacts DEF IInv, TypeOK
<1>4. /\ seen' \in [DOMAIN tree -> {"unseen", "called", "first", "second", "returned"}]
      /\ seen'[n] = mode
      /\ m # n /\ (m \in DOMAIN tree => seen'[m] = "called")
      /\ \A x \in DOMAIN tree \ {n, m} : seen'[x] = seen[x]
  BY <1>3, ChildPaths DEF CallChild
<1>5. TypeOK'
  BY <1>1, <1>4 DEF IInv, TypeOK, Points
<1>6. IsFiniteSet(queue)' /\ CountIsSize' /\ HasFarthest'
  BY <1>1 DEF IInv, CountIsSize, HasFarthest, Farthest
<1>7. WaitingIsInner' /\ HeldIsSeen' /\ ReturnedIsSettled' /\ FirstIsSettled'
  BY <1>1, <1>2, <1>4
  DEF IInv, WaitingIsInner, HeldIsSeen, ReturnedIsSettled, FirstIsSettled
<1>8. Unentered'
  <2> SUFFICES ASSUME NEW p \in DOMAIN tree
               PROVE  /\ seen'[p] \in {"unseen", "called"} /\ ~IsLeaf(problem, p) =>
                           \A c \in {L(p), R(p)} \cap DOMAIN tree : seen'[c] = "unseen"
                      /\ seen'[p] = "first" /\ Second(problem, p) \in DOMAIN tree =>
                           seen'[Second(problem, p)] = "unseen"
    BY <1>1 DEF Unentered
  <2>1. Second(problem, p) \in {L(p), R(p)}
    BY DEF Second
  <2>2. L(p) # p /\ R(p) # p
    BY <1>3, ChildPaths
  <2>3. p # n => m \notin {L(p), R(p)}
    BY <1>3, ChildPaths
  <2>4. CASE p = n
    BY <2>4, <2>1, <2>2, <1>4
  <2>5. CASE p = m
    <3>1. ~IsLeaf(problem, m) => \A c \in {L(m), R(m)} \cap DOMAIN tree : seen[c] = "unseen"
      BY <2>5 DEF IInv, Unentered
    <3> QED
      BY <3>1, <2>5, <2>1, <2>2, <1>4
  <2>6. CASE p \notin {n, m}
    BY <2>6, <2>1, <2>3, <1>4 DEF IInv, Unentered
  <2> QED
    BY <2>4, <2>5, <2>6
<1> QED
  BY <1>5, <1>6, <1>7, <1>8 DEF IInv

(* The return of a call whose points are settled; what was settled stays so. *)
LEMMA ReturnStep ==
  ASSUME IInv, NEW n \in DOMAIN tree, seen[n] # "unseen",
         seen' = [seen EXCEPT ![n] = "returned"], UNCHANGED problem,
         \A i \in Points : Settled(i) => Settled(i)',
         \A i \in Under(problem, n) : Settled(i)'
  PROVE  /\ seen' \in [DOMAIN tree -> {"unseen", "called", "first", "second", "returned"}]
         /\ Unentered' /\ WaitingIsInner' /\ ReturnedIsSettled' /\ FirstIsSettled'
<1>1. problem' = problem /\ tree' = tree /\ k' = k
  BY DEF tree, k
<1>2. seen \in [DOMAIN tree -> {"unseen", "called", "first", "second", "returned"}]
  BY DEF IInv, TypeOK
<1>3. Unentered'
  BY <1>1, <1>2 DEF IInv, Unentered
<1>4. WaitingIsInner'
  BY <1>1, <1>2 DEF IInv, WaitingIsInner
<1>5. ReturnedIsSettled'
  BY <1>1, <1>2, UnderPoints DEF IInv, ReturnedIsSettled
<1>6. FirstIsSettled'
  BY <1>1, <1>2, UnderPoints DEF IInv, FirstIsSettled
<1> QED
  BY <1>2, <1>3, <1>4, <1>5, <1>6

(* The sets of points held keep a farthest member when a point joins them. *)
LEMMA FarthestOfMore ==
  ASSUME Searchable(problem), HasFarthest, queue \subseteq Points, NEW p \in Points,
         NEW Q \in SUBSET (queue \cup {p}), Q # {}
  PROVE  Farthest(problem, Q) # {}
<1>1. \A i \in Q : i \in Points /\ dist(problem, i) \in Nat
  BY Distances DEF Points
<1>2. CASE Q \subseteq {p}
  BY <1>1, <1>2 DEF Farthest
<1>3. CASE ~(Q \subseteq {p})
  <2>1. PICK top \in Farthest(problem, Q \ {p}) : TRUE
    BY <1>3 DEF HasFarthest
  <2>2. top \in Q /\ \A j \in Q \ {p} : dist(problem, j) <= dist(problem, top)
    BY <2>1 DEF Farthest
  <2>3. CASE p \notin Q \/ dist(problem, p) <= dist(problem, top)
    BY <2>2, <2>3 DEF Farthest
  <2>4. CASE p \in Q /\ ~(dist(problem, p) <= dist(problem, top))
    <3>1. \A j \in Q : dist(problem, j) <= dist(problem, p)
      BY <1>1, <2>2, <2>4
    <3> QED
      BY <3>1, <2>4 DEF Farthest
  <2> QED
    BY <2>3, <2>4
<1> QED
  BY <1>2, <1>3

(* A leaf looked at: its point is new, and every point settled stays settled. *)
LEMMA LeafStep ==
  ASSUME IInv, NEW n \in DOMAIN tree, LeafTaken(n) \/ LeafCompared(n)
  PROVE  IInv'
<1>0. PICK p : p = tree[n].point
  OBVIOUS
<1>1. /\ problem \in Problems /\ Searchable(problem) /\ k \in Nat \ {0}
      /\ queue \subseteq Points /\ num_found \in 0 .. k /\ IsFiniteSet(queue)
      /\ num_found = Cardinality(queue)
      /\ seen \in [DOMAIN tree -> {"unseen", "called", "first", "second", "returned"}]
  BY ProblemFacts DEF IInv, TypeOK, CountIsSize
<1>2. /\ seen[n] = "called" /\ IsLeaf(problem, n)
      /\ seen' = [seen EXCEPT ![n] = "returned"]
      /\ problem' = problem /\ tree' = tree /\ k' = k /\ Points' = Points
  BY DEF LeafTaken, LeafCompared, tree, k, Points
<1>3. p \in Points /\ Under(problem, n) = {p}
  BY <1>0, <1>1, <1>2, LeafUnder DEF tree, Points
<1>4. p \notin queue
  BY <1>0, <1>2 DEF IInv, HeldIsSeen
<1>5. \A i \in Points : dist(problem, i) \in Nat
  BY <1>1, Distances DEF Points
<1>6. /\ queue' \subseteq queue \cup {p}
      /\ num_found' \in 0 .. k /\ IsFiniteSet(queue') /\ num_found' = Cardinality(queue')
      /\ \A i \in Points : Settled(i) => Settled(i)'
      /\ Settled(p)'
  <2>1. CASE LeafTaken(n)
    <3>1. num_found < k /\ queue' = queue \cup {p} /\ num_found' = num_found + 1
      BY <1>0, <2>1 DEF LeafTaken
    <3>2. IsFiniteSet(queue') /\ Cardinality(queue') = Cardinality(queue) + 1
      BY <1>1, <1>4, <3>1, FS_AddElement
    <3>3. \A i \in Points : Settled(i) => i \in queue
      BY <1>1, <3>1 DEF Settled
    <3>4. \A i \in queue' : Settled(i)'
      BY DEF Settled
    <3> QED
      BY <1>1, <3>1, <3>2, <3>3, <3>4
  <2>2. CASE LeafCompared(n)
    <3>1. num_found = k /\ num_found' = num_found
      BY <1>1, <2>2 DEF LeafCompared
    <3>2. PICK top \in Farthest(problem, queue) :
            queue' = IF dist(problem, p) < dist(problem, top)
                       THEN (queue \ {top}) \cup {p} ELSE queue
      BY <1>0, <2>2 DEF LeafCompared
    <3>3. top \in queue /\ \A j \in queue : dist(problem, j) <= dist(problem, top)
      BY <3>2 DEF Farthest
    <3>4. CASE dist(problem, p) < dist(problem, top)
      <4>1. queue' = (queue \ {top}) \cup {p}
        BY <3>2, <3>4
      <4>2. /\ IsFiniteSet(queue \ {top}) /\ Cardinality(queue \ {top}) = Cardinality(queue) - 1
        BY <1>1, <3>3, FS_RemoveElement
      <4>3. IsFiniteSet(queue') /\ Cardinality(queue') = Cardinality(queue) - 1 + 1
        BY <1>4, <4>1, <4>2, FS_AddElement
      <4>4. \A j \in queue' : dist(problem, j) <= dist(problem, top)
        BY <1>1, <1>3, <1>5, <3>3, <3>4, <4>1
      <4>5. \A i \in Points : Settled(i) => Settled(i)'
        <5> SUFFICES ASSUME NEW i \in Points, Settled(i), i \notin queue'
                     PROVE  \A j \in queue' : dist(problem, j) <= dist(problem, i)
          BY <1>2, <3>1 DEF Settled
        <5>1. dist(problem, top) <= dist(problem, i)
          BY <1>1, <1>5, <3>3, <4>1 DEF Settled
        <5>2. \A j \in queue' : j \in Points
          BY <1>1, <1>3, <4>1
        <5> QED
          BY <1>1, <1>5, <3>3, <4>4, <5>1, <5>2
      <4>6. Settled(p)'
        BY <4>1 DEF Settled
      <4> QED
        BY <1>1, <3>1, <4>1, <4>3, <4>5, <4>6
    <3>5. CASE ~(dist(problem, p) < dist(problem, top))
      <4>1. queue' = queue
        BY <3>2, <3>5
      <4>2. \A i : Settled(i) => Settled(i)'
        BY <1>2, <3>1, <4>1 DEF Settled
      <4>3. \A j \in queue : dist(problem, j) <= dist(problem, p)
        BY <1>1, <1>3, <1>5, <3>3, <3>5
      <4>4. Settled(p)'
        BY <1>2, <3>1, <4>1, <4>3 DEF Settled
      <4> QED
        BY <1>1, <3>1, <4>1, <4>2, <4>4
    <3> QED
      BY <3>4, <3>5
  <2> QED
    BY <2>1, <2>2
<1>7. /\ seen' \in [DOMAIN tree -> {"unseen", "called", "first", "second", "returned"}]
      /\ Unentered' /\ WaitingIsInner' /\ ReturnedIsSettled' /\ FirstIsSettled'
  BY <1>2, <1>3, <1>6, ReturnStep
<1>8. TypeOK' /\ IsFiniteSet(queue)' /\ CountIsSize'
  BY <1>1, <1>2, <1>3, <1>6, <1>7 DEF TypeOK, CountIsSize
<1>9. HeldIsSeen'
  <2> SUFFICES ASSUME NEW m \in DOMAIN tree, IsLeaf(problem, m), tree[m].point \in queue'
               PROVE  seen'[m] = "returned"
    BY <1>2 DEF HeldIsSeen
  <2>1. CASE tree[m].point \in queue
    BY <1>1, <1>2, <2>1 DEF IInv, HeldIsSeen
  <2>2. CASE tree[m].point = p
    <3>1. m = n
      BY <1>0, <1>1, <1>2, <2>2 DEF Searchable, IsSearchTree, tree
    <3> QED
      BY <1>1, <1>2, <3>1
  <2> QED
    BY <1>6, <2>1, <2>2
<1>10. HasFarthest'
  <2> SUFFICES ASSUME NEW Q \in SUBSET queue', Q # {}
               PROVE  Farthest(problem, Q) # {}
    BY <1>2 DEF HasFarthest, Farthest
  <2> QED
    BY <1>1, <1>3, <1>6, FarthestOfMore DEF IInv
<1> QED
  BY <1>7, <1>8, <1>9, <1>10 DEF IInv

(* The points under a child are settled when its call has returned, or there is none. *)
LEMMA DoneIsSettled ==
  ASSUME IInv, NEW n \in DOMAIN tree, ~IsLeaf(problem, n),
         NEW m \in {First(problem, n), Second(problem, n)}, Done(m)
  PROVE  \A i \in Under(problem, m) : Settled(i)
<1>1. Searchable(problem)
  BY ProblemFacts DEF IInv, TypeOK
<1>2. CASE m \in DOMAIN tree
  BY <1>2 DEF IInv, ReturnedIsSettled, Done
<1>3. CASE m \notin DOMAIN tree
  BY <1>1, <1>3, InnerUnder DEF tree
<1> QED
  BY <1>2, <1>3

LEMMA GoFirstStep ==
  ASSUME IInv, NEW n \in DOMAIN tree, GoFirst(n)
  PROVE  IInv'
<1>1. DOMAIN tree \subseteq Seq({"l", "r"})
  BY ProblemFacts DEF IInv, TypeOK
<1>2. /\ First(problem, n) \in {L(n), R(n)} /\ Second(problem, n) \in {L(n), R(n)}
      /\ Second(problem, n) # First(problem, n)
  BY <1>1, ChildPaths DEF First, Second
<1>3. \A m \in {L(n), R(n)} \cap DOMAIN tree : seen[m] = "unseen"
  BY DEF IInv, Unentered, GoFirst
<1> QED
  BY <1>2, <1>3, CallStep DEF GoFirst

LEMMA GoSecondStep ==
  ASSUME IInv, NEW n \in DOMAIN tree, GoSecond(n)
  PROVE  IInv'
<1>1. seen[n] = "first" /\ ~IsLeaf(problem, n)
  BY DEF IInv, WaitingIsInner, GoSecond
<1>2. \A i \in Under(problem, First(problem, n)) : Settled(i)
  BY <1>1, DoneIsSettled DEF GoSecond
<1>3. Second(problem, n) \in DOMAIN tree => seen[Second(problem, n)] = "unseen"
  BY <1>1 DEF IInv, Unentered
<1>4. Second(problem, n) \in {L(n), R(n)}
  BY DEF Second
<1> QED
  BY <1>1, <1>2, <1>3, <1>4, CallStep DEF GoSecond

(* Behind a partition no nearer than the farthest of k points all points are settled. *)
LEMMA PrunedIsSettled ==
  ASSUME IInv, NEW n \in DOMAIN tree, ~IsLeaf(problem, n), num_found >= k,
         ~PartitionIsNear(n)
  PROVE  \A i \in Under(problem, Second(problem, n)) : Settled(i)
<1>1. /\ Searchable(problem) /\ k \in Nat \ {0} /\ num_found = k
      /\ queue \subseteq Points /\ IsFiniteSet(queue) /\ num_found = Cardinality(queue)
  BY ProblemFacts DEF IInv, TypeOK, CountIsSize
<1>2. queue # {}
  BY <1>1, FS_EmptySet
<1>3. PICK top \in Farthest(problem, queue) : TRUE
  BY <1>2 DEF IInv, HasFarthest
<1>4. top \in queue /\ \A j \in queue : dist(problem, j) <= dist(problem, top)
  BY <1>3 DEF Farthest
<1>5. ~(gap(problem, n) < dist(problem, top))
  BY <1>3 DEF PartitionIsNear
<1>6. \A i \in Points : dist(problem, i) \in Nat
  BY <1>1, Distances DEF Points
<1> SUFFICES ASSUME NEW i \in Under(problem, Second(problem, n)), NEW j \in queue
             PROVE  dist(problem, j) <= dist(problem, i)
  BY <1>1 DEF Settled
<1>7. i \in Points /\ j \in Points /\ top \in Points
  BY <1>1, <1>4, UnderPoints
<1>8. gap(problem, n) \in Int /\ gap(problem, n) <= dist(problem, i)
  BY <1>1, GapBound DEF tree
<1> QED
  BY <1>4, <1>5, <1>6, <1>7, <1>8

LEMMA GoUpStep ==
  ASSUME IInv, NEW n \in DOMAIN tree, GoUp(n)
  PROVE  IInv'
<1>1. /\ seen[n] \in {"first", "second"} /\ ~IsLeaf(problem, n)
      /\ seen' = [seen EXCEPT ![n] = "returned"]
      /\ problem' = problem /\ tree' = tree /\ k' = k
      /\ queue' = queue /\ num_found' = num_found
  BY DEF GoUp, IInv, WaitingIsInner, tree, k
<1>2. Searchable(problem) /\ problem \in Problems
  BY ProblemFacts DEF IInv, TypeOK
<1>3. /\ \A i \in Under(problem, First(problem, n)) : Settled(i)
      /\ \A i \in Under(problem, Second(problem, n)) : Settled(i)
  <2>1. CASE seen[n] = "first"
    BY <1>1, <2>1, DoneIsSettled, PrunedIsSettled DEF GoUp
  <2>2. CASE seen[n] = "second"
    BY <1>1, <2>2, DoneIsSettled DEF GoUp, IInv, FirstIsSettled
  <2> QED
    BY <1>1, <2>1, <2>2
<1>4. \A i : Settled(i) <=> Settled(i)'
  BY <1>1 DEF Settled
<1>5. \A i \in Under(problem, n) : Settled(i)'
  BY <1>1, <1>2, <1>3, <1>4, InnerUnder DEF tree
<1>6. /\ seen' \in [DOMAIN tree -> {"unseen", "called", "first", "second", "returned"}]
      /\ Unentered' /\ WaitingIsInner' /\ ReturnedIsSettled' /\ FirstIsSettled'
  BY <1>1, <1>4, <1>5, ReturnStep
<1>7. TypeOK' /\ IsFiniteSet(queue)' /\ CountIsSize' /\ HasFarthest'
  BY <1>1, <1>6 DEF IInv, TypeOK, CountIsSize, HasFarthest, Farthest, Points
<1>8. HeldIsSeen'
  BY <1>1, <1>6 DEF IInv, TypeOK, HeldIsSeen
<1> QED
  BY <1>6, <1>7, <1>8 DEF IInv

LEMMA NextInv == IInv /\ [Next]_vars => IInv'
<1> SUFFICES ASSUME IInv, [Next]_vars PROVE IInv'
  OBVIOUS
<1>1. CASE Step
  BY <1>1, LeafStep, GoFirstStep, GoSecondStep, GoUpStep DEF Step, query_nodes
<1>2. CASE UNCHANGED vars
  <2>1. /\ problem' = problem /\ tree' = tree /\ k' = k /\ Points' = Points
        /\ seen' = seen /\ queue' = queue /\ num_found' = num_found
    BY <1>2 DEF vars, tree, k, Points
  <2>2. \A i : Settled(i)' <=> Settled(i)
    BY <2>1 DEF Settled
  <2> QED
    BY <2>1, <2>2 DEF IInv, TypeOK, CountIsSize, Unentered, WaitingIsInner, HeldIsSeen,
                      ReturnedIsSettled, FirstIsSettled, HasFarthest
<1> QED
  BY <1>1, <1>2 DEF Next, Over

LEMMA SpecInv == Spec => []IInv
  BY InitInv, NextInv, PTL DEF Spec

-----------------------------------------------------------------------------
(* The state of the search is always of its type: never more than k points are found. *)
THEOREM TypeCorrect == Spec => []TypeOK
  BY SpecInv, PTL DEF IInv

(* The counter shared along the recursion and the size of the queue never part. *)
THEOREM CountIsSizeAlways == Spec => []CountIsSize
  BY SpecInv, PTL DEF IInv

(* A subtree that was visited or pruned need not be looked at again. *)
THEOREM ReturnedIsSettledAlways == Spec => []ReturnedIsSettled
  BY SpecInv, PTL DEF IInv

(* A finished search holds the k nearest points, whatever the tree was pruned by. *)
THEOREM HoldsNearestAlways == Spec => []HoldsNearest
<1>1. ASSUME IInv, Finished
      PROVE  /\ \A i \in Points \ queue : \A j \in queue : dist(problem, j) <= dist(problem, i)
             /\ Cardinality(queue) = IF k <= Cardinality(Points) THEN k ELSE Cardinality(Points)
  <2>1. /\ <<>> \in DOMAIN tree /\ Under(problem, <<>>) = Points /\ IsFiniteSet(Points)
        /\ k \in Nat \ {0} /\ queue \subseteq Points /\ num_found \in 0 .. k
        /\ num_found = Cardinality(queue)
    BY <1>1, ProblemFacts DEF IInv, TypeOK, CountIsSize
  <2>2. \A i \in Points : Settled(i)
    BY <1>1, <2>1 DEF IInv, ReturnedIsSettled, Finished
  <2>3. \A i \in Points \ queue :
          num_found = k /\ \A j \in queue : dist(problem, j) <= dist(problem, i)
    BY <2>2 DEF Settled
  <2>4. Cardinality(Points) \in Nat /\ Cardinality(queue) <= Cardinality(Points)
    BY <2>1, FS_Subset, FS_CardinalityType
  <2>5. CASE queue = Points
    BY <2>1, <2>4, <2>5
  <2>6. CASE queue # Points
    BY <2>1, <2>3, <2>4, <2>6
  <2> QED
    BY <2>3, <2>5, <2>6
<1>2. IInv => HoldsNearest
  BY <1>1 DEF HoldsNearest
<1> QED
  BY <1>2, SpecInv, PTL

(* Once k points are held the farthest of them only comes nearer. *)
THEOREM FarthestShrinksAlways == Spec => FarthestShrinks
<1>1. ASSUME IInv, [Next]_vars, num_found = k, NEW j \in queue'
      PROVE  \E i \in queue : dist(problem, j) <= dist(problem, i)
  <2>1. \A i \in queue : dist(problem, i) <= dist(problem, i)
    BY <1>1, ProblemFacts, Distances DEF IInv, TypeOK, Points
  <2>2. num_found \in Int /\ k \in Int
    BY <1>1, ProblemFacts DEF IInv, TypeOK
  <2>3. CASE queue' = queue
    BY <1>1, <2>1, <2>3
  <2>4. CASE \E n \in DOMAIN tree : LeafTaken(n)
    BY <1>1, <2>2, <2>4 DEF LeafTaken
  <2>5. CASE \E n \in DOMAIN tree : LeafCompared(n)
    <3>1. PICK n \in DOMAIN tree : LeafCompared(n)
      BY <2>5
    <3>2. PICK top \in queue :
            queue' = IF dist(problem, tree[n].point) < dist(problem, top)
                       THEN (queue \ {top}) \cup {tree[n].point} ELSE queue
      BY <3>1 DEF LeafCompared, Farthest
    <3>3. /\ dist(problem, top) \in Nat
          /\ problem \in Problems /\ IsLeaf(problem, n)
      BY <1>1, <3>1, ProblemFacts, Distances DEF IInv, TypeOK, Points, LeafCompared
    <3>4. dist(problem, tree[n].point) \in Nat
      BY <3>3, ProblemFacts, LeafUnder, Distances DEF tree
    <3> QED
      BY <1>1, <2>1, <3>2, <3>3, <3>4
  <2>6. [\E n \in DOMAIN tree : LeafTaken(n) \/ LeafCompared(n)]_queue
    BY <1>1 DEF Next, Step, query_nodes, GoFirst, GoSecond, GoUp, Over, vars
  <2> QED
    BY <2>3, <2>4, <2>5, <2>6
<1>2. IInv /\ [Next]_vars =>
        [num_found = k =>
           \A j \in queue' : \E i \in queue : dist(problem, j) <= dist(problem, i)]_vars
  BY <1>1
<1> QED
  BY <1>2, SpecInv, PTL DEF Spec, FarthestShrinks

(* A leaf whose point is settled adds nothing any more. *)
LEMMA SettledLeaf ==
  ASSUME IInv, NEW n \in DOMAIN tree, IsLeaf(problem, n), Settled(tree[n].point)
  PROVE  /\ ~LeafTaken(n)
         /\ LeafCompared(n) => queue' = queue
<1> DEFINE p == tree[n].point
<1>1. /\ problem \in Problems /\ Searchable(problem) /\ queue \subseteq Points
      /\ num_found \in 0 .. k /\ k \in Nat \ {0}
  BY ProblemFacts DEF IInv, TypeOK
<1>2. CASE p \in queue
  <2>1. seen[n] = "returned"
    BY <1>2 DEF IInv, HeldIsSeen
  <2> QED
    BY <2>1 DEF LeafTaken, LeafCompared
<1>3. CASE num_found = k /\ \A j \in queue : dist(problem, j) <= dist(problem, p)
  <2>1. ~LeafTaken(n)
    BY <1>1, <1>3 DEF LeafTaken
  <2>2. p \in Points
    BY <1>1, LeafUnder DEF tree, Points
  <2>3. ASSUME NEW top \in queue PROVE ~(dist(problem, p) < dist(problem, top))
    <3>1. dist(problem, p) \in Nat /\ dist(problem, top) \in Nat
      BY <1>1, <2>2, Distances DEF Points
    <3> QED
      BY <1>3, <3>1
  <2>4. LeafCompared(n) => queue' = queue
    BY <2>3 DEF LeafCompared, Farthest
  <2> QED
    BY <2>1, <2>4
<1> QED
  BY <1>2, <1>3 DEF Settled

(* The way through the tree is a way to answer the query: the step in which the call for *)
(* the root returns is the answer, every other step leaves it alone.                     *)
THEOREM ImplementsQuery == Spec => AnswersQuery
<1>1. Init => Query!Init
  <2>1. Init => ~Finished
    BY ProblemFacts DEF Init, Finished
  <2> QED
    BY <2>1 DEF Init, Query!Init
<1>2. ASSUME IInv, IInv', HoldsNearest', [Next]_vars
      PROVE  [Query!Answer]_(Query!vars)
  <2>1. problem' = problem
    BY <1>2 DEF Next, Step, query_nodes, LeafTaken, LeafCompared, GoFirst, GoSecond, GoUp,
                Over, vars
  <2>2. problem \in Problems /\ Searchable(problem)
    BY <1>2, ProblemFacts DEF IInv, TypeOK
  <2>3. CASE ~Finished /\ ~Finished'
    <3>1. (IF Finished THEN queue ELSE {}) = {} /\ (IF Finished' THEN queue' ELSE {}) = {}
      BY <2>3
    <3>2. Finished' = Finished
      BY <2>3, Zenon DEF Finished
    <3>3. UNCHANGED Query!vars
      BY <2>1, <3>1, <3>2 DEF Query!vars
    <3> QED
      BY <3>3
  <2>4. CASE ~Finished /\ Finished'
    <3>1. queue' \subseteq DOMAIN problem.train
      BY <1>2, <2>1 DEF IInv, TypeOK, Points
    <3>2. /\ \A i \in DOMAIN problem.train \ queue' :
               \A j \in queue' : dist(problem, j) <= dist(problem, i)
          /\ Cardinality(queue') = IF problem.k <= Cardinality(DOMAIN problem.train)
                                     THEN problem.k ELSE Cardinality(DOMAIN problem.train)
      BY <1>2, <2>1, <2>4 DEF HoldsNearest, Points, k
    <3>3. IsNearest(problem, queue')
      BY <3>2 DEF IsNearest, dist
    <3> QED
      BY <2>1, <2>4, <3>1, <3>3 DEF Query!Answer
  <2>5. CASE Finished
    <3>1. /\ <<>> \in DOMAIN tree /\ Under(problem, <<>>) = Points
          /\ seen \in [DOMAIN tree -> {"unseen", "called", "first", "second", "returned"}]
      BY <1>2, <2>2, ProblemFacts DEF IInv, TypeOK
    <3>2. \A i \in Points : Settled(i)
      BY <1>2, <2>5, <3>1 DEF IInv, ReturnedIsSettled, Finished
    <3>3. ASSUME NEW n \in DOMAIN tree, LeafTaken(n) \/ LeafCompared(n)
          PROVE  queue' = queue
      <4>1. IsLeaf(problem, n)
        BY <3>3 DEF LeafTaken, LeafCompared
      <4>2. Settled(tree[n].point)
        BY <2>2, <3>2, <4>1, LeafUnder DEF tree, Points
      <4> QED
        BY <1>2, <3>3, <4>1, <4>2, SettledLeaf
    <3>4. queue' = queue
      BY <1>2, <3>3 DEF Next, Step, query_nodes, GoFirst, GoSecond, GoUp, Over, vars
    <3>5. Finished'
      <4>1. [\E n \in DOMAIN tree : query_nodes(n)]_vars
        BY <1>2 DEF Next, Step, Over
      <4>2. CASE UNCHANGED vars
        BY <2>5, <4>2 DEF vars, Finished
      <4>3. ASSUME NEW n \in DOMAIN tree, query_nodes(n) PROVE seen'[<<>>] = "returned"
        <5>1. LeafTaken(n) \/ LeafCompared(n) \/ GoUp(n) =>
                seen' = [seen EXCEPT ![n] = "returned"]
          BY DEF LeafTaken, LeafCompared, GoUp
        <5>2. CASE LeafTaken(n) \/ LeafCompared(n) \/ GoUp(n)
          BY <2>5, <3>1, <5>1, <5>2 DEF Finished
        <5>3. CASE GoFirst(n) \/ GoSecond(n)
          <6>1. n # <<>>
            BY <2>5, <5>3 DEF GoFirst, GoSecond, Finished
          <6>2. PICK m \in {L(n), R(n)}, mode \in {"first", "second"} : CallChild(n, m, mode)
            BY <5>3 DEF GoFirst, GoSecond, First, Second
          <6>3. m # <<>>
            BY <2>2, <4>3, <6>2, ChildNotRoot DEF Searchable, IsSearchTree, tree
          <6> QED
            BY <2>5, <3>1, <6>1, <6>2, <6>3 DEF CallChild, Finished
        <5> QED
          BY <4>3, <5>2, <5>3 DEF query_nodes
      <4> QED
        BY <4>1, <4>2, <4>3 DEF Finished
    <3> QED
      BY <2>1, <2>5, <3>4, <3>5 DEF Query!vars
  <2> QED
    BY <2>3, <2>4, <2>5
<1> QED
  BY <1>1, <1>2, SpecInv, HoldsNearestAlways, PTL DEF Spec, AnswersQuery, Query!Spec
=============================================================================

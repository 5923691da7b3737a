------------------------------- MODULE KnnOps -------------------------------
(***************************************************************************)
(* The pure functions of class KNN (knnClass.cpp): ranges, median,         *)
(* partition, merge of two sorted runs, squared Euclidean distance.        *)
(*                                                                         *)
(* A point is named by its row number in the training file, the model of   *)
(* the float* the code passes around; pts[i][d+1] is coordinate d of row   *)
(* i.  Coordinates are integers that count units in the last place of one  *)
(* binade of float: two coordinates that differ by 1 are adjacent floats.  *)
(* Sums of squares are taken exactly.                                      *)
(***************************************************************************)
EXTENDS Integers, Sequences, FiniteSets, Functions

CONSTANT
  num_dimensions,   \* KNN::num_dimensions
  SampleThreshold   \* populate_nodes sorts a whole vector shorter than this
                    \* (100 in the source) and only a quarter of a longer one

ASSUME DimensionsAssumption == num_dimensions \in Nat \ {0}
ASSUME ThresholdAssumption == SampleThreshold \in Nat /\ SampleThreshold >= 8

Dimensions == 0 .. num_dimensions - 1

At(pts, i, d) == pts[i][d + 1]

cycle_dimensions(dim) == IF dim < num_dimensions - 1 THEN dim + 1 ELSE 0

(***************************************************************************)
(* (a + b) / 2.0f for two floats of one binade: the sum falls in the next  *)
(* binade, where it is rounded to an even number of units when it is odd;  *)
(* the division is exact.                                                  *)
(***************************************************************************)
FloatMidpoint(a, b) ==
  LET half == (a + b) \div 2
  IN  IF (a + b) % 2 = 1 /\ half % 2 = 1 THEN half + 1 ELSE half

(* Slip: the two middle elements are the same one. *)
MedianOfLower(pts, a, dimension) == At(pts, a[(Len(a) + 1) \div 2], dimension)

(* get_median_and_split: a is sorted in `dimension`; indexes are shifted by one. *)
get_median_and_split(pts, a, dimension) ==
  LET idx == Len(a) \div 2
  IN  IF Len(a) % 2 = 1
        THEN At(pts, a[idx + 1], dimension)
        ELSE FloatMidpoint(At(pts, a[idx + 1], dimension), At(pts, a[idx], dimension))

(* The elements of a that are in S, in their order in a: a loop with a push_back. *)
Filter(a, S) ==
  LET pushed[n \in 0 .. Len(a)] ==
        IF n = 0 THEN <<>>
        ELSE IF a[n] \in S THEN Append(pushed[n - 1], a[n]) ELSE pushed[n - 1]
  IN  pushed[Len(a)]

(* The loop that fills `left` and `right` from the unsorted vector a. *)
SplitLeft(pts, a, dimension, median) ==
  Filter(a, {i \in DOMAIN pts : At(pts, i, dimension) < median})

(* Slip: points on the median go to neither side. *)
SplitRightStrict(pts, a, dimension, median) ==
  Filter(a, {i \in DOMAIN pts : At(pts, i, dimension) > median})

SplitRight(pts, a, dimension, median) ==
  Filter(a, {i \in DOMAIN pts : At(pts, i, dimension) >= median})

(* How much of the vector make_tree and populate_nodes hand to merge_sort. *)
RootSample(a) == Len(a) \div 4

LocalEnd(a) == IF Len(a) < SampleThreshold THEN Len(a) ELSE Len(a) \div 4

(* Slip: equal coordinates are taken from the right run first. *)
LeftNextUnstable(pts, l, r, dimension, l_it, r_it) ==
  \/ r_it = Len(r)
  \/ /\ l_it < Len(l)
     /\ At(pts, l[l_it + 1], dimension) < At(pts, r[r_it + 1], dimension)

(* Which run the next element comes from: the left one on ties. *)
LeftNext(pts, l, r, dimension, l_it, r_it) ==
  \/ r_it = Len(r)
  \/ /\ l_it < Len(l)
     /\ At(pts, l[l_it + 1], dimension) <= At(pts, r[r_it + 1], dimension)

(* The loop of merge_sort that interleaves two sorted runs: what it pushes from the moment *)
(* the iterators, counted from 0, are at a position in each.                               *)
MergeRuns(pts, l, r, dimension) ==
  LET merge[its \in (0 .. Len(l)) \X (0 .. Len(r))] ==
        LET l_it == its[1]
            r_it == its[2]
        IN  IF l_it = Len(l) /\ r_it = Len(r) THEN <<>>
            ELSE IF LeftNext(pts, l, r, dimension, l_it, r_it)
              THEN <<l[l_it + 1]>> \o merge[<<l_it + 1, r_it>>]
              ELSE <<r[r_it + 1]>> \o merge[<<l_it, r_it + 1>>]
  IN  merge[<<0, 0>>]

(* merge_sort where it does not fork: the two halves of Range{begin, end}, then the merge. *)
SerialSort(pts, a, begin, end, dimension) ==
  LET sort[range \in (begin .. end) \X (begin .. end)] ==
        LET b == range[1]
            e == range[2]
            mid == b + (e - b) \div 2
        IN  IF e - b = 1 THEN <<a[b + 1]>>
            ELSE MergeRuns(pts, sort[<<b, mid>>], sort[<<mid, e>>], dimension)
  IN  sort[<<begin, end>>]

square(a) == a * a

(* KNN::distance: the squared distance of two points. *)
distance(query, point) ==
  SumFunction([d \in 1 .. num_dimensions |-> square(query[d] - point[d])])

-----------------------------------------------------------------------------
(* f with x mapped to v, and f without the arguments in S. *)
Put(f, x, v) == [y \in DOMAIN f \cup {x} |-> IF y = x THEN v ELSE f[y]]
Drop(f, S) == [y \in DOMAIN f \ S |-> f[y]]

NoPoint == 0        \* Node::point is null: rows are numbered from 1

Node(dimension, median, num_pts, point) ==
  [dimension |-> dimension, median |-> median, num_pts |-> num_pts, point |-> point]

Rows(t) == [i \in 1 .. Len(t) |-> i]

(***************************************************************************)
(* The tree the recursion of make_tree and populate_nodes defines when it  *)
(* is run sequentially.  A node is named by its path, a sequence over      *)
(* {"l", "r"}; Sample is the part of the vector a that the call for p      *)
(* sorts, SequentialPoints the vector that reaches it, empty for no node.  *)
(***************************************************************************)
Sample(p, a) == IF p = <<>> THEN RootSample(a) ELSE LocalEnd(a)

SequentialMedian(t, p, a) ==
  LET dimension == Len(p) % num_dimensions
  IN  get_median_and_split(t, SerialSort(t, a, 0, Sample(p, a), dimension), dimension)

(* What the node p hands to its child on a side. *)
SequentialHalf(t, p, side, a) ==
  LET median == SequentialMedian(t, p, a)
      dimension == Len(p) % num_dimensions
  IN  IF Len(a) <= 1 THEN <<>>
      ELSE IF side = "l" THEN SplitLeft(t, a, dimension, median)
                         ELSE SplitRight(t, a, dimension, median)

SequentialPoints(t, p) ==
  LET at[i \in 0 .. Len(p)] ==
        IF i = 0 THEN Rows(t) ELSE SequentialHalf(t, SubSeq(p, 1, i - 1), p[i], at[i - 1])
  IN  at[Len(p)]

IsSequentialNode(t, p) == SequentialPoints(t, p) # <<>>

SequentialNode(t, p) ==
  LET a == SequentialPoints(t, p)
      dimension == Len(p) % num_dimensions
  IN  IF Len(a) = 1 THEN Node(dimension, 0, 1, a[1])
      ELSE Node(dimension, SequentialMedian(t, p, a),
                IF p = <<>> THEN Len(a) ELSE Sample(p, a), NoPoint)

(* Its nodes down to a depth. *)
SequentialTree(t, depth) ==
  LET paths == UNION {[1 .. n -> {"l", "r"}] : n \in 0 .. depth}
  IN  [p \in {q \in paths : IsSequentialNode(t, q)} |-> SequentialNode(t, p)]

-----------------------------------------------------------------------------
(* a sorted by coordinate `dimension`, equal coordinates in their order in a: what *)
(* merge_sort is to return for any schedule of its threads.                        *)
IsStableSortOf(pts, out, a, dimension) ==
  LET before(i, j) ==
        \/ At(pts, a[i], dimension) < At(pts, a[j], dimension)
        \/ At(pts, a[i], dimension) = At(pts, a[j], dimension) /\ i < j
      rank(i) == 1 + Cardinality({j \in DOMAIN a : before(j, i)})
  IN  /\ Len(out) = Len(a)
      /\ \A i \in DOMAIN a : out[rank(i)] = a[i]

(***************************************************************************)
(* Which sets of rows are an answer to [train, query, k]: k rows, or all   *)
(* if they are fewer, and no row left out is nearer than one of them.      *)
(* Which of several rows at one distance are among them is left open.      *)
(***************************************************************************)
IsNearest(b, S) ==
  /\ \A i \in DOMAIN b.train \ S : \A j \in S :
       distance(b.query, b.train[j]) <= distance(b.query, b.train[i])
  /\ Cardinality(S) = IF b.k <= Cardinality(DOMAIN b.train) THEN b.k
                                                            ELSE Cardinality(DOMAIN b.train)
=============================================================================

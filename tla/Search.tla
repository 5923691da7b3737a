------------------------------- MODULE Search -------------------------------
(***************************************************************************)
(* KNN::query_nodes: the recursive search of the tree for the k points     *)
(* nearest to a query point, kept in a priority queue whose top is the     *)
(* farthest of them.  One behaviour is the search for one query.           *)
(*                                                                         *)
(* problem is what query_args points to and nothing writes: the training   *)
(* points, the tree, the query point and k.  The recursion visits a node   *)
(* once at most, so the stack is told by what became of each node:         *)
(*   "unseen"   query_nodes has not been called for it                     *)
(*   "called"   query_nodes is about to look at it                         *)
(*   "first"    the call for the child on the query's side is under way    *)
(*   "second"   so is the call for the other child                         *)
(*   "returned" its call has returned                                      *)
(*                                                                         *)
(* closest_dim_pt and closest_dim_pt_dist are written by the code and      *)
(* decide nothing; they are left out.                                      *)
(***************************************************************************)
EXTENDS SearchableTree

CONSTANT Problems     \* a set of [train, tree, query, k]

VARIABLES
  problem,
  seen,               \* what became of each node of the tree
  queue,              \* the rows held by the priority queue
  num_found

vars == <<problem, seen, queue, num_found>>

tree == problem.tree
k == problem.k
Points == DOMAIN problem.train

gap(b, n) == square(b.query[b.tree[n].dimension + 1] - b.tree[n].median)

QueryIsLeft(b, n) == b.query[b.tree[n].dimension + 1] < b.tree[n].median

First(b, n)  == IF QueryIsLeft(b, n) THEN L(n) ELSE R(n)
Second(b, n) == IF QueryIsLeft(b, n) THEN R(n) ELSE L(n)

(* The tree was built by make_tree: TreeIsSearchable of TreeBuild. *)
ASSUME ProblemsAssumption == \A b \in Problems : Searchable(b)

(* Slip: the comparison of priority_compare is the other way round. *)
Closest(b, q) == {i \in q : \A j \in q : dist(b, j) >= dist(b, i)}

(* The rows at the top of the queue: one of those is what top() and pop() mean. *)
Farthest(b, q) == {i \in q : \A j \in q : dist(b, j) <= dist(b, i)}

-----------------------------------------------------------------------------
Done(n) == n \in DOMAIN tree => seen[n] = "returned"

(* The call for n goes on to mode, and its child m is called unless it is null. *)
CallChild(n, m, mode) ==
  seen' = [x \in DOMAIN tree |-> CASE x = n -> mode
                                   [] x = m -> "called"
                                   [] OTHER -> seen[x]]

Init ==
  /\ problem \in Problems
  /\ seen = [n \in DOMAIN tree |-> IF n = <<>> THEN "called" ELSE "unseen"]
  /\ queue = {}
  /\ num_found = 0

(* Slip: one point more than k. *)
LeafTakenLate(n) ==
  /\ seen[n] = "called" /\ IsLeaf(problem, n) /\ num_found <= k
  /\ queue' = queue \cup {tree[n].point}
  /\ num_found' = num_found + 1
  /\ seen' = [seen EXCEPT ![n] = "returned"]
  /\ UNCHANGED problem

(* A leaf when fewer than k points are held. *)
LeafTaken(n) ==
  /\ seen[n] = "called" /\ IsLeaf(problem, n) /\ num_found < k
  /\ queue' = queue \cup {tree[n].point}
  /\ num_found' = num_found + 1
  /\ seen' = [seen EXCEPT ![n] = "returned"]
  /\ UNCHANGED problem

(* Slip: the nearer point is pushed and none is popped. *)
LeafPushed(n) ==
  /\ seen[n] = "called" /\ IsLeaf(problem, n) /\ num_found >= k
  /\ \E top \in Farthest(problem, queue) :
       queue' = IF dist(problem, tree[n].point) < dist(problem, top)
                  THEN queue \cup {tree[n].point} ELSE queue
  /\ seen' = [seen EXCEPT ![n] = "returned"]
  /\ UNCHANGED <<problem, num_found>>

(* Slip: the top is replaced without a look at the distances. *)
LeafReplaced(n) ==
  /\ seen[n] = "called" /\ IsLeaf(problem, n) /\ num_found >= k
  /\ \E top \in Farthest(problem, queue) : queue' = (queue \ {top}) \cup {tree[n].point}
  /\ seen' = [seen EXCEPT ![n] = "returned"]
  /\ UNCHANGED <<problem, num_found>>

(* A leaf when k are held: it replaces a farthest one if it is nearer. *)
LeafCompared(n) ==
  /\ seen[n] = "called" /\ IsLeaf(problem, n) /\ num_found >= k
  /\ \E top \in Farthest(problem, queue) :
       queue' = IF dist(problem, tree[n].point) < dist(problem, top)
                  THEN (queue \ {top}) \cup {tree[n].point} ELSE queue
  /\ seen' = [seen EXCEPT ![n] = "returned"]
  /\ UNCHANGED <<problem, num_found>>

(* An inner node: the child on the query's side of the median first. *)
GoFirst(n) ==
  /\ seen[n] = "called" /\ ~IsLeaf(problem, n)
  /\ CallChild(n, First(problem, n), "first")
  /\ UNCHANGED <<problem, queue, num_found>>

(* Slip: the partition is compared with the nearest point held. *)
PartitionIsNearest(n) ==
  \E top \in Closest(problem, queue) : gap(problem, n) < dist(problem, top)

(* The partition is nearer than the farthest point held. *)
PartitionIsNear(n) ==
  \E top \in Farthest(problem, queue) : gap(problem, n) < dist(problem, top)

(* Back from the first child: the other one if it may hold a nearer point. *)
GoSecond(n) ==
  /\ seen[n] = "first" /\ Done(First(problem, n))
  /\ num_found < k \/ PartitionIsNear(n)
  /\ CallChild(n, Second(problem, n), "second")
  /\ UNCHANGED <<problem, queue, num_found>>

(* Slip: the other child is skipped unseen. *)
GoUpUnchecked(n) ==
  /\ \/ seen[n] = "first" /\ Done(First(problem, n))
     \/ seen[n] = "second" /\ Done(Second(problem, n))
  /\ seen' = [seen EXCEPT ![n] = "returned"]
  /\ UNCHANGED <<problem, queue, num_found>>

(* Slip: the way back is not taken with exactly k points. *)
GoUpAbove(n) ==
  /\ \/ /\ seen[n] = "first" /\ Done(First(problem, n))
        /\ num_found > k /\ ~PartitionIsNear(n)
     \/ seen[n] = "second" /\ Done(Second(problem, n))
  /\ seen' = [seen EXCEPT ![n] = "returned"]
  /\ UNCHANGED <<problem, queue, num_found>>

GoUp(n) ==
  /\ \/ /\ seen[n] = "first" /\ Done(First(problem, n))
        /\ num_found >= k /\ ~PartitionIsNear(n)
     \/ seen[n] = "second" /\ Done(Second(problem, n))
  /\ seen' = [seen EXCEPT ![n] = "returned"]
  /\ UNCHANGED <<problem, queue, num_found>>

Finished == seen[<<>>] = "returned"

Over == Finished /\ UNCHANGED vars

query_nodes(n) ==
  LeafTaken(n) \/ LeafCompared(n) \/ GoFirst(n) \/ GoSecond(n) \/ GoUp(n)

Step == \E n \in DOMAIN tree : query_nodes(n)

Next == Step \/ Over

Spec == Init /\ [][Next]_vars /\ WF_vars(Step)

-----------------------------------------------------------------------------
(* Type invariant. *)
TypeOK ==
  /\ problem \in Problems
  /\ seen \in [DOMAIN tree -> {"unseen", "called", "first", "second", "returned"}]
  /\ queue \subseteq Points
  /\ num_found \in 0 .. k

(* num_found, a counter shared by reference along the recursion, is the size of the queue, *)
(* so top() is never asked of an empty queue.                                              *)
CountIsSize == num_found = Cardinality(queue)

(* A point the search need not look at again: it is held, or k points no farther are. *)
Settled(i) ==
  \/ i \in queue
  \/ num_found = k /\ \A j \in queue : dist(problem, j) <= dist(problem, i)

(* When the call for a node has returned, by visiting it or by pruning below it, all the *)
(* points under it are settled, for good.                                                *)
ReturnedIsSettled ==
  \A n \in DOMAIN tree : seen[n] = "returned" => \A i \in Under(problem, n) : Settled(i)

(* A finished search holds the k nearest points: no point left out is nearer than one held, *)
(* and k points are held, or all of them if there are fewer.                               *)
HoldsNearest ==
  Finished =>
    /\ \A i \in Points \ queue : \A j \in queue : dist(problem, j) <= dist(problem, i)
    /\ Cardinality(queue) = IF k <= Cardinality(Points) THEN k ELSE Cardinality(Points)

(* The farthest point held never moves away again once k are held: a subtree that was *)
(* pruned stays prunable.                                                             *)
FarthestShrinks ==
  [][num_found = k => \A j \in queue' : \E i \in queue : dist(problem, j) <= dist(problem, i)]_vars

(* The answer, once the call for the root has returned. *)
Query == INSTANCE KNearest WITH
  IsAnswer <- IsNearest, answered <- Finished, answer <- IF Finished THEN queue ELSE {}

(* The search is one query: whatever way it takes through the tree, its answer comes once, *)
(* is right, and stands.                                                                   *)
AnswersQuery == Query!Spec

(* The search ends. *)
SearchEnds == <>Finished
=============================================================================

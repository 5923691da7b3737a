--------------------------- MODULE SearchableTree ---------------------------
(***************************************************************************)
(* What make_tree and query_nodes agree on: the tree the one leaves behind *)
(* and the other relies on.  TreeBuild promises it, Search assumes it.     *)
(*                                                                         *)
(* b is a record of what query_args points to, with fields train and tree, *)
(* and query and k for a query.  A node is named by its path from the      *)
(* root, a sequence over {"l", "r"}; its child pointer is null while the   *)
(* path of the child is not in the domain of the tree.                     *)
(***************************************************************************)
EXTENDS KnnOps, SequencesExt

dist(b, i) == distance(b.query, b.train[i])

L(n) == Append(n, "l")
R(n) == Append(n, "r")

IsLeaf(b, n) == b.tree[n].num_pts = 1

(* The rows in the leaves of the subtree at n: none for a null child. *)
Under(b, n) ==
  {i \in DOMAIN b.train : \E m \in DOMAIN b.tree : b.tree[m].point = i /\ IsPrefix(n, m)}

(***************************************************************************)
(* Every training point is in exactly one leaf, a leaf is what num_pts = 1 *)
(* says it is, an inner node has its points below the median on the left   *)
(* and the others on the right, and a null child lacks no point.           *)
(***************************************************************************)
IsSearchTree(b) ==
  /\ DOMAIN b.tree \subseteq Seq({"l", "r"}) /\ <<>> \in DOMAIN b.tree
  /\ IsFiniteSet(DOMAIN b.train)
  /\ \A i \in DOMAIN b.train : \A d \in Dimensions : At(b.train, i, d) \in Int
  /\ Under(b, <<>>) = DOMAIN b.train
  /\ \A n \in DOMAIN b.tree :
       IF IsLeaf(b, n) THEN b.tree[n].point \in DOMAIN b.train /\ Under(b, n) = {b.tree[n].point}
       ELSE /\ Under(b, n) = Under(b, L(n)) \cup Under(b, R(n))
            /\ \A m \in {L(n), R(n)} \ DOMAIN b.tree : Under(b, m) = {}
            /\ b.tree[n].dimension \in Dimensions /\ b.tree[n].median \in Int
            /\ \A i \in Under(b, L(n)) : At(b.train, i, b.tree[n].dimension) < b.tree[n].median
            /\ \A i \in Under(b, R(n)) : At(b.train, i, b.tree[n].dimension) >= b.tree[n].median
  /\ \A m, n \in DOMAIN b.tree :
       IsLeaf(b, m) /\ IsLeaf(b, n) /\ b.tree[m].point = b.tree[n].point => m = n

(* A query that can be answered with it. *)
Searchable(b) ==
  /\ IsSearchTree(b)
  /\ b.k \in Nat \ {0}
  /\ \A d \in Dimensions : b.query[d + 1] \in Int
=============================================================================

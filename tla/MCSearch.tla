------------------------------ MODULE MCSearch ------------------------------
(* Instances of Search: trees that make_tree builds, with queries inside and outside of *)
(* the points, some as far from two points or more.                                     *)
EXTENDS Search

(* Points on a line: the splits by the other coordinate leave a child null. *)
Line(s) == [i \in DOMAIN s |-> <<s[i], 0>>]

ProblemsOf(trains, queries, ks) ==
  UNION {LET built == SequentialTree(t, 8)
         IN  {[train |-> t, tree |-> built, query |-> q, k |-> n] : q \in queries, n \in ks} :
         t \in trains}

LineProblems ==
  ProblemsOf({Line(<<4>>), Line(<<4, 0, 2, 6>>), Line(<<0, 3, 6, 9, 12>>)},
             {<<x, 0>> : x \in {0, 1, 5, 7, 20}}, {1, 2, 5})

PlaneProblems ==
  ProblemsOf({<< <<0, 8>>, <<2, 6>>, <<4, 4>>, <<6, 2>>, <<8, 0>> >>,
              << <<0, 6>>, <<2, 0>>, <<4, 2>>, <<6, 4>>, <<8, 8>>, <<10, 10>> >>,
              << <<4, 4>>, <<0, 4>>, <<2, 0>>, <<6, 8>>, <<8, 2>>, <<2, 8>>, <<6, 0>> >>},
             {<<x, y>> : x \in {0, 3, 8}, y \in {1, 4, 9}}, {1, 2, 4})

AllProblems == LineProblems \cup PlaneProblems
=============================================================================

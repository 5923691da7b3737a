----------------------------- MODULE MCPrograms -----------------------------
(* The sorts and the stand-alone programs of the repository, each behaviour one of them:  *)
(* merge_sort of KNN as make_tree calls it, merge.cpp, bst.cpp and parallel_gen.cpp.       *)
EXTENDS StandaloneSort, SearchTree, ParallelGen

VARIABLE program

allVars == <<program, sortVars, treeVars, genVars>>

(* A training set of n points with the coordinates of s first: merge_sort reads only those. *)
Filled(s, n) == [i \in 1 .. n |-> IF i <= Len(s) THEN <<s[i]>> ELSE <<0>>]

FourKeys == {Filled(s, 16) : s \in [1 .. 4 -> 0 .. 1]}

FiveKeys == {Filled(s, 20) : s \in {<<4, 3, 2, 1, 0>>, <<1, 0, 1, 0, 1>>, <<0, 2, 1, 2, 0>>}}

NineKeys == {Filled(<<1, 0, 1, 0, 2, 2, 0, 1, 0>>, 36)}

(* Arrays for merge.cpp: one element, fewer than it has threads for, and more. *)
Ints == {Filled(s, Len(s)) : s \in {<<7>>, <<1, 0>>, <<2, 2, 1>>, <<1, 0, 1, 0, 2, 2, 0, 1, 0>>}}

Keys == FourKeys \cup FiveKeys \cup NineKeys \cup Ints

(* All files of up to four values of three numbers and NaN. *)
SmallArrays == UNION {[1 .. n -> {1, 2, 3, NaN}] : n \in 0 .. 4}

Idle(p) == program # p

Init ==
  /\ program \in {"merge_sort", "merge", "bst", "parallel_gen"}
  /\ \/ program = "merge_sort" /\ SortInit /\ train \notin Ints
     \/ program = "merge" /\ StandaloneInit /\ train \in Ints
     \/ /\ program \in {"bst", "parallel_gen"}
        /\ StandaloneInit /\ train = Filled(<<7>>, 1)
  /\ IF program = "bst" THEN TreeInit
     ELSE array = <<>> /\ nodes = <<>> /\ inserting = 1 /\ place = <<>>
  /\ GenInit

Step ==
  \/ program = "merge_sort" /\ (SortStep \/ SortTaken) /\ UNCHANGED <<program, treeVars, genVars>>
  \/ program = "merge" /\ (StandaloneStep \/ SortTaken) /\ UNCHANGED <<program, treeVars, genVars>>
  \/ program = "bst" /\ TreeStep /\ UNCHANGED <<program, sortVars, genVars>>
  \/ program = "parallel_gen" /\ GenStep /\ UNCHANGED <<program, sortVars, treeVars>>

ProgramEnded ==
  CASE program \in {"merge_sort", "merge"} -> status # "running"
    [] program = "bst" -> Inserted
    [] program = "parallel_gen" -> GenEnded

Over == ProgramEnded /\ UNCHANGED allVars

Next == Step \/ Over

Spec == Init /\ [][Next]_allVars /\ WF_allVars(Step)

(* Nothing but the depth bounds the threads of merge.cpp: there are never more than a tree *)
(* of depth ForkDepth has nodes below its root, 510 with the 8 of the source.              *)
ThreadsBounded ==
  program = "merge" => Cardinality(StandaloneThreads) <= 2 ^ (ForkDepth + 1) - 2

(* Every program ends: no thread of merge_sort, of merge or of parallel_gen waits for ever, *)
(* whatever call of pthread_create fails, and the recursion of insert reaches a null child. *)
ProgramsEnd == <>ProgramEnded
=============================================================================

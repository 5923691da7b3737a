----------------------------- MODULE TreeBuild -----------------------------
(***************************************************************************)
(* KNN::make_tree and KNN::populate_nodes: the k-d tree is built by a      *)
(* recursion whose calls fork threads out of the budget that merge_sort    *)
(* draws on too.                                                           *)
(*                                                                         *)
(* A tree node is named by its path from the root, a sequence over         *)
(* {"l", "r"}.  tree maps the nodes allocated so far to their fields: the  *)
(* C++ child pointer of a node is the path one longer, null while that     *)
(* path is not in the domain.  calls maps a node to the call of            *)
(* populate_nodes that builds it; a call that has returned stays until its *)
(* caller returns.                                                         *)
(*                                                                         *)
(* In a call, points is node_info::a; is_thread is the field of node_info  *)
(* and thread whether a thread was created for the call: the two differ    *)
(* for the calls make_tree runs itself.                                    *)
(***************************************************************************)
EXTENDS MergeSort, SearchableTree

CONSTANT
  StackDepth        \* the depth of recursion at which the stack is exhausted

ASSUME StackAssumption == StackDepth \in Nat \ {0}

VARIABLES
  main,             \* make_tree: where it is, and made_left and made_right
  calls,            \* the calls of populate_nodes
  tree              \* the nodes

vars == <<sortVars, main, calls, tree>>

node_info(points, depth, dimension, is_thread, thread) ==
  [points |-> points, depth |-> depth, dimension |-> dimension,
   is_thread |-> is_thread, thread |-> thread, pc |-> "call"]

Points(p) == IF p = <<>> THEN Rows(train) ELSE calls[p].points

(* The vectors left and right that a call fills from its points. *)
ChildPoints(p, side) ==
  IF side = "l" THEN SplitLeft(train, Points(p), tree[p].dimension, tree[p].median)
                ELSE SplitRight(train, Points(p), tree[p].dimension, tree[p].median)

(* The sort whose result the call for p waits for. *)
SortOf(p) == <<p, <<>>>>

(* The inner node made from the sample that merge_sort returned. *)
SplitNode(p, dimension, num_pts) ==
  Node(dimension, get_median_and_split(train, sorts[SortOf(p)].out, dimension), num_pts, NoPoint)

Returned(p) == p \in DOMAIN calls /\ calls[p].pc = "returned"

Proceeds(p) == p \in DOMAIN calls /\ (calls[p].thread \/ Returned(p))

-----------------------------------------------------------------------------
(* make_tree *)
MainAt(pc) == status = "running" /\ main.pc = pc

MakeTreeEmpty ==
  /\ MainAt("main") /\ Len(train) = 0
  /\ status' = "exit"
  /\ UNCHANGED <<train, sorts, failed_creates, budgetVars, main, calls, tree>>

MakeTreeLeaf ==
  /\ MainAt("main") /\ Len(train) = 1
  /\ tree' = Put(tree, <<>>, Node(0, 0, 1, 1))
  /\ status' = "built"
  /\ UNCHANGED <<train, sorts, failed_creates, budgetVars, main, calls>>

MakeTreeSort ==
  /\ MainAt("main") /\ Len(train) >= 2
  /\ sorts' = Put(sorts, SortOf(<<>>),
                  SortCall(Rows(train), 0, RootSample(train), 0, 0, FALSE))
  /\ main' = [main EXCEPT !.pc = "sort"]
  /\ UNCHANGED <<train, status, failed_creates, budgetVars, calls, tree>>

(* The split, then the first of the two calls of make_thread. *)
MakeTreeAskLeft ==
  /\ MainAt("sort") /\ SortReturned(SortOf(<<>>))
  /\ tree' = Put(tree, <<>>, SplitNode(<<>>, 0, Len(train)))
  /\ sorts' = Drop(sorts, {SortOf(<<>>)})
  /\ \E made_left \in BOOLEAN :
       make_thread(made_left) /\ main' = [main EXCEPT !.pc = "ask right", !.l = made_left]
  /\ UNCHANGED <<train, status, failed_creates, calls>>

MakeTreeAskRight ==
  /\ MainAt("ask right")
  /\ \E made_right \in BOOLEAN :
       make_thread(made_right) /\ main' = [main EXCEPT !.pc = "create left", !.r = made_right]
  /\ UNCHANGED <<train, sorts, status, failed_creates, calls, tree>>

(* Slip: the depth is not counted. *)
RootChildShallow(side, thread) ==
  node_info(ChildPoints(<<>>, side), 0, cycle_dimensions(0), TRUE, thread)

(* A child of the root: is_thread is set whether a thread runs it or not. *)
RootChild(side, thread) ==
  node_info(ChildPoints(<<>>, side), 1, cycle_dimensions(0), TRUE, thread)

(* pthread_create for a side the budget granted; a failure is caught by an assertion. *)
MakeTreeCreate(side, made, here, next) ==
  /\ MainAt(here)
  /\ main' = [main EXCEPT !.pc = next]
  /\ \/ /\ ~made
        /\ UNCHANGED <<calls, status, failed_creates>>
     \/ /\ made
        /\ calls' = Put(calls, <<side>>, RootChild(side, TRUE))
        /\ UNCHANGED <<status, failed_creates>>
     \/ /\ made /\ CreateMayFail
        /\ failed_creates' = failed_creates + 1
        /\ status' = "abort"
        /\ UNCHANGED calls
  /\ UNCHANGED <<train, sorts, budgetVars, tree>>

(* A side the budget refused is built by make_tree itself, after both were created. *)
MakeTreeRun(side, made, next) ==
  /\ main' = [main EXCEPT !.pc = next]
  /\ calls' = IF made THEN calls ELSE Put(calls, <<side>>, RootChild(side, FALSE))
  /\ UNCHANGED <<train, sorts, status, failed_creates, budgetVars, tree>>

MakeTreeRunLeft == MainAt("left") /\ MakeTreeRun("l", main.l, "right")

MakeTreeRunRight ==
  MainAt("right") /\ Returned(<<"l">>) /\ MakeTreeRun("r", main.r, "return")

MakeTreeReturn ==
  /\ MainAt("return") /\ Returned(<<"l">>) /\ Returned(<<"r">>)
  /\ status' = "built"
  /\ calls' = Drop(calls, {<<"l">>, <<"r">>})
  /\ UNCHANGED <<train, sorts, failed_creates, budgetVars, main, tree>>

MakeTree ==
  \/ MakeTreeEmpty \/ MakeTreeLeaf \/ MakeTreeSort
  \/ MakeTreeAskLeft \/ MakeTreeAskRight
  \/ MakeTreeCreate("l", main.l, "create left", "create right")
  \/ MakeTreeCreate("r", main.r, "create right", "left")
  \/ MakeTreeRunLeft \/ MakeTreeRunRight \/ MakeTreeReturn

-----------------------------------------------------------------------------
(* populate_nodes *)
Active(p, pc) == status = "running" /\ calls[p].pc = pc

(* An empty half: no node, but the slot of a thread is released. *)
PopulateEmpty(p) ==
  /\ Active(p, "call") /\ Len(Points(p)) = 0
  /\ calls' = [calls EXCEPT ![p].pc = "returned"]
  /\ return_thread(calls[p].is_thread)
  /\ UNCHANGED <<train, sorts, status, failed_creates, main, tree>>

(* A leaf: returned at once, before the decrement at the end of populate_nodes. *)
PopulateLeaf(p) ==
  /\ Active(p, "call") /\ Len(Points(p)) = 1
  /\ tree' = Put(tree, p, Node(calls[p].dimension, 0, 1, Points(p)[1]))
  /\ calls' = [calls EXCEPT ![p].pc = "returned"]
  /\ UNCHANGED <<train, sorts, status, failed_creates, budgetVars, main>>

(* More points than one: sort a sample of them, if the stack has room for the call. *)
PopulateSort(p) ==
  /\ Active(p, "call") /\ Len(Points(p)) >= 2
  /\ IF Len(p) >= StackDepth
       THEN status' = "segfault" /\ UNCHANGED <<sorts, calls>>
       ELSE /\ sorts' = Put(sorts, SortOf(p),
                            SortCall(Points(p), 0, LocalEnd(Points(p)), calls[p].depth,
                                     calls[p].dimension, FALSE))
            /\ calls' = [calls EXCEPT ![p].pc = "sort"]
            /\ UNCHANGED status
  /\ UNCHANGED <<train, failed_creates, budgetVars, main, tree>>

PopulateSplit(p) ==
  /\ Active(p, "sort") /\ SortReturned(SortOf(p))
  /\ tree' = Put(tree, p, SplitNode(p, calls[p].dimension, Len(sorts[SortOf(p)].out)))
  /\ sorts' = Drop(sorts, {SortOf(p)})
  /\ calls' = [calls EXCEPT ![p].pc = "left"]
  /\ UNCHANGED <<train, status, failed_creates, budgetVars, main>>

(* Slip: a child splits on the dimension of its parent. *)
PopulateForkSameDimension(p, side, next) ==
  LET c == calls[p]
      child(thread) ==
        node_info(ChildPoints(p, side), c.depth + 1, c.dimension, thread, thread)
  IN  /\ \E granted \in BOOLEAN :
           /\ IF c.depth < static_depth THEN make_thread(granted)
                                        ELSE ~granted /\ UNCHANGED budgetVars
           /\ calls' = Put([calls EXCEPT ![p].pc = next], Append(p, side), child(granted))
      /\ UNCHANGED <<train, sorts, status, failed_creates, main, tree>>

(***************************************************************************)
(* One child: a thread if depth < static_depth and the budget grants one,  *)
(* a plain call if not.  Nothing looks at the result of pthread_create: a  *)
(* thread that could not be created is a call that nobody runs.            *)
(***************************************************************************)
PopulateFork(p, side, next) ==
  LET c == calls[p]
      child(thread, pc) ==
        [node_info(ChildPoints(p, side), c.depth + 1, cycle_dimensions(c.dimension),
                   thread, thread) EXCEPT !.pc = pc]
  IN  /\ \E granted \in BOOLEAN :
           /\ IF c.depth < static_depth THEN make_thread(granted)
                                        ELSE ~granted /\ UNCHANGED budgetVars
           /\ \/ /\ calls' = Put([calls EXCEPT ![p].pc = next], Append(p, side),
                                 child(granted, "call"))
                 /\ UNCHANGED failed_creates
              \/ /\ granted /\ CreateMayFail
                 /\ calls' = Put([calls EXCEPT ![p].pc = next], Append(p, side),
                                 child(granted, "not created"))
                 /\ failed_creates' = failed_creates + 1
      /\ UNCHANGED <<train, sorts, status, main, tree>>

PopulateLeft(p) == Active(p, "left") /\ PopulateFork(p, "l", "right")

PopulateRight(p) ==
  Active(p, "right") /\ Proceeds(Append(p, "l")) /\ PopulateFork(p, "r", "join")

(***************************************************************************)
(* pthread_join of a pthread_t that pthread_create never wrote: the        *)
(* assertion on its result fails, the process crashes, or the stale value  *)
(* names a thread and the join succeeds.                                   *)
(***************************************************************************)
JoinUninitialised(p) ==
  /\ Active(p, "join")
  /\ \E side \in {"l", "r"} :
       /\ calls[Append(p, side)].pc = "not created"
       /\ side = "r" => Returned(Append(p, "l"))
       /\ \/ status' \in {"abort", "segfault"} /\ UNCHANGED calls
          \/ /\ calls' = [calls EXCEPT ![Append(p, side)].pc = "returned"]
             /\ UNCHANGED status
  /\ UNCHANGED <<train, sorts, failed_creates, budgetVars, main, tree>>

(* Slip: the right child is not joined. *)
PopulateReturnEarly(p) ==
  LET children == {Append(p, "l"), Append(p, "r")}
  IN  /\ Active(p, "join") /\ Returned(Append(p, "l"))
      /\ calls' = Drop([calls EXCEPT ![p].pc = "returned"], children)
      /\ return_thread(calls[p].is_thread)
      /\ UNCHANGED <<train, sorts, status, failed_creates, main, tree>>

PopulateReturn(p) ==
  LET children == {Append(p, "l"), Append(p, "r")}
  IN  /\ Active(p, "join") /\ \A q \in children : Returned(q)
      /\ calls' = Drop([calls EXCEPT ![p].pc = "returned"], children)
      /\ return_thread(calls[p].is_thread)
      /\ UNCHANGED <<train, sorts, status, failed_creates, main, tree>>

PopulateNodes ==
  \E p \in DOMAIN calls :
    \/ PopulateEmpty(p) \/ PopulateLeaf(p) \/ PopulateSort(p) \/ PopulateSplit(p)
    \/ PopulateLeft(p) \/ PopulateRight(p) \/ JoinUninitialised(p) \/ PopulateReturn(p)

-----------------------------------------------------------------------------
Init ==
  /\ train \in Datasets
  /\ sorts = <<>>
  /\ status = "running"
  /\ failed_creates = 0
  /\ BudgetInit
  /\ main = [pc |-> "main", l |-> FALSE, r |-> FALSE]
  /\ calls = <<>>
  /\ tree = <<>>

Sorting == SortStep /\ UNCHANGED <<main, calls, tree>>

Over == status # "running" /\ UNCHANGED vars

Step == MakeTree \/ PopulateNodes \/ Sorting

Next == Step \/ Over

Spec == Init /\ [][Next]_vars /\ WF_vars(Step)

-----------------------------------------------------------------------------
(* Type invariant. *)
TypeOK ==
  /\ train \in Datasets
  /\ status \in {"running", "built", "exit", "abort", "segfault"}
  /\ BudgetTypeOK
  /\ failed_creates \in 0 .. CreateFailures
  /\ \A p \in DOMAIN calls :
       /\ calls[p].pc \in {"call", "sort", "left", "right", "join", "returned", "not created"}
       /\ calls[p].depth = Len(p)
       /\ calls[p].thread => calls[p].is_thread

(* The threads that hold a slot they are still to release or to leak, and the slots *)
(* make_tree has taken for threads it has not created yet.                          *)
LiveThreads == {p \in DOMAIN calls : calls[p].thread /\ calls[p].pc # "returned"}

Reserved ==
  {side \in {"l", "r"} : /\ main.pc \in {"ask right", "create left", "create right"}
                         /\ main[side] /\ <<side>> \notin DOMAIN calls}

(***************************************************************************)
(* The budget covers the threads of merge_sort and populate_nodes          *)
(* together, though leaves never release their slot and make_tree has      *)
(* populate_nodes release slots that were never taken: the counter does    *)
(* not fall below the threads at work, does not wrap and keeps the limit.  *)
(***************************************************************************)
BudgetCoversThreads ==
  /\ Cardinality(LiveThreads) + Cardinality(SortThreads) + Cardinality(Reserved)
       <= tmp_thread_count
  /\ tmp_thread_count <= max_threads /\ max_threads <= thread_limit

(***************************************************************************)
(* The vectors left and right are locals of the caller, passed by          *)
(* reference, and so is the vector a sort reads: while a call or a sort is *)
(* at work, the call that owns its vector has not returned.                *)
(***************************************************************************)
VectorsOutliveReaders ==
  /\ \A p \in DOMAIN calls :
       calls[p].pc # "returned" /\ Len(p) > 1 =>
         LET owner == SubSeq(p, 1, Len(p) - 1)
         IN  owner \in DOMAIN calls /\ calls[owner].pc \in {"right", "join"}
  /\ \A id \in DOMAIN sorts :
       IF id[1] = <<>> THEN main.pc = "sort"
       ELSE id[1] \in DOMAIN calls /\ calls[id[1]].pc = "sort"

(* The finished tree is the one query_nodes relies on, and each inner node has a right child. *)
TreeIsSearchable ==
  status = "built" /\ failed_creates = 0 =>
    LET b == [train |-> train, tree |-> tree]
    IN  IsSearchTree(b) /\ \A p \in DOMAIN tree : ~IsLeaf(b, p) => R(p) \in DOMAIN tree

(* Whatever threads ran and however they interleaved, every node built is the node the *)
(* sequential algorithm puts there, up to its count of points: the tree does not depend *)
(* on the schedule.                                                                    *)
TreeIsSequential ==
  \A p \in DOMAIN tree :
    /\ IsSequentialNode(train, p)
    /\ LET reference == SequentialNode(train, p)
       IN  /\ tree[p].dimension = reference.dimension
           /\ tree[p].median = reference.median
           /\ tree[p].point = reference.point

(* Points that differ by more than one unit in the last place in every coordinate. *)
Spread(t) ==
  \A i, j \in DOMAIN t : i # j =>
    \A d \in Dimensions : At(t, i, d) - At(t, j, d) \notin -1 .. 1

(* The most of n points that a node below the root hands to one child if its split leaves *)
(* half of the sample on either side.                                                     *)
MostHandedDown(n) == n - (IF n < SampleThreshold THEN n ELSE n \div 4) \div 2

(* The most points that then reach a node as deep as the stack allows: the root, whose     *)
(* sample may be a single point, can hand all of them to one child.                        *)
MostAtStackDepth(t) ==
  LET most[level \in 1 .. StackDepth] ==
        IF level = 1 THEN Len(t) ELSE MostHandedDown(most[level - 1])
  IN  most[StackDepth]

(* Such points exhaust the stack only if there are too many of them, and the number the    *)
(* stack has room for grows geometrically with its depth: every split below the root       *)
(* leaves half of its sample on either side.                                               *)
SpreadPointsFit ==
  Spread(train) /\ failed_creates = 0 /\ MostAtStackDepth(train) <= 1 => status # "segfault"

(* No thread waits for ever: make_tree returns, or the process ends, even if some calls *)
(* of pthread_create fail.                                                              *)
BuildEnds == <>(status # "running")

-----------------------------------------------------------------------------
(* Statements of the repository that the code does not meet. *)

(* auto.sh:15-28 runs k-nn on a training file of every size from 1 point on; merge_sort's *)
(* assertions would have to hold on its sample.                                           *)
SampleIsSortable == status # "abort"

(* auto.sh:28 runs k-nn for a result on every generated training file: k-nn is to build a *)
(* tree of distinct points without exhausting the stack.                                  *)
DistinctPointsFit ==
  (\A i, j \in DOMAIN train : i # j => train[i] # train[j]) => status # "segfault"

(* knnClass.cpp:116 calls the test of made_left one that is not needed: the budget grants *)
(* make_tree its first thread.                                                            *)
FirstThreadGranted == main.pc \in {"create left", "create right"} => main.l
=============================================================================

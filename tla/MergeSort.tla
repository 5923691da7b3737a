----------------------------- MODULE MergeSort -----------------------------
(***************************************************************************)
(* KNN::merge_sort and its pthread entry KNN::wrapper: a recursive merge   *)
(* sort whose calls fork while depth < static_depth and the budget of      *)
(* ThreadBudget grants a thread.                                           *)
(*                                                                         *)
(* sorts holds one record per call in progress or returned and not yet     *)
(* taken by its caller.  A call is named <<job, path>>: job is the tree    *)
(* node whose make_tree or populate_nodes asked for the sort, path the     *)
(* "l"/"r" halves that lead to it.  is_thread is both the parameter and    *)
(* the fact that the call runs in a thread of its own: in merge_sort the   *)
(* two always agree.                                                       *)
(*                                                                         *)
(* A call at static_depth or below touches nothing shared until it returns *)
(* and is one step (SortSerial).                                           *)
(***************************************************************************)
EXTENDS KnnOps, ThreadBudget

CONSTANTS
  Datasets,         \* the training sets to choose from, each a sequence of points
  CreateFailures    \* how many calls of pthread_create may fail in a behaviour

ASSUME DatasetsAssumption ==
  \A t \in Datasets : t \in Seq([1 .. num_dimensions -> Nat])
ASSUME FailuresAssumption == CreateFailures \in Nat

VARIABLES
  train,            \* the training points, chosen in Init and never changed
  sorts,            \* the calls of merge_sort
  status,           \* "running", "returned", or how the process ended
  failed_creates    \* calls of pthread_create that failed

sortVars == <<train, sorts, status, failed_creates, tmp_thread_count, max_threads>>

SortCall(a, begin, end, depth, dimension, is_thread) ==
  [a |-> a, begin |-> begin, end |-> end, depth |-> depth, dimension |-> dimension,
   is_thread |-> is_thread, pc |-> "call", out |-> <<>>]

Half(id, side) == <<id[1], Append(id[2], side)>>

Size(s) == s.end - s.begin

SortReturned(id) == id \in DOMAIN sorts /\ sorts[id].pc = "returned"

(* A caller passes its fork of a child when that runs in a thread, or has returned. *)
SortProceeds(id) == id \in DOMAIN sorts /\ (sorts[id].is_thread \/ SortReturned(id))

(* Slip: a call that had no thread releases a slot too. *)
return_always(is_thread) == IF is_thread \in BOOLEAN THEN decrement_tmp_threads ELSE FALSE

return_thread(is_thread) ==
  IF is_thread THEN decrement_tmp_threads ELSE UNCHANGED budgetVars

CreateMayFail == failed_creates < CreateFailures

(* One element: returned at once, before the decrement at the end of merge_sort. *)
SortBase(id) ==
  /\ status = "running" /\ sorts[id].pc = "call" /\ Size(sorts[id]) = 1
  /\ sorts' = [sorts EXCEPT ![id].pc = "returned",
                            ![id].out = <<sorts[id].a[sorts[id].begin + 1]>>]
  /\ UNCHANGED <<train, status, failed_creates, budgetVars>>

(* An empty range: neither half holds an element, the assertions abort the process. *)
SortAssert(id) ==
  /\ status = "running" /\ sorts[id].pc = "call" /\ Size(sorts[id]) = 0
  /\ status' = "abort"
  /\ UNCHANGED <<train, sorts, failed_creates, budgetVars>>

SortSerial(id) ==
  LET s == sorts[id]
  IN  /\ status = "running" /\ s.pc = "call" /\ Size(s) >= 2 /\ s.depth >= static_depth
      /\ sorts' = [sorts EXCEPT ![id].pc = "returned",
                     ![id].out = SerialSort(train, s.a, s.begin, s.end, s.dimension)]
      /\ return_thread(s.is_thread)
      /\ UNCHANGED <<train, status, failed_creates>>

(* Slip: the result of pthread_create is not looked at. *)
SortForkUnchecked(id, side, begin, end, pc) ==
  LET s == sorts[id]
  IN  \E granted \in BOOLEAN :
        /\ make_thread(granted)
        /\ \/ /\ sorts' = Put([sorts EXCEPT ![id].pc = pc], Half(id, side),
                              SortCall(s.a, begin, end, s.depth + 1, s.dimension, granted))
              /\ UNCHANGED failed_creates
           \/ /\ granted /\ CreateMayFail
              /\ failed_creates' = failed_creates + 1
              /\ sorts' = [sorts EXCEPT ![id].pc = pc]
        /\ UNCHANGED <<train, status>>

(* One half of a forking call: a thread if the budget grants one, a plain call if not. *)
SortFork(id, side, begin, end, pc) ==
  LET s == sorts[id]
  IN  \E granted \in BOOLEAN :
        /\ make_thread(granted)
        /\ \/ /\ sorts' = Put([sorts EXCEPT ![id].pc = pc], Half(id, side),
                              SortCall(s.a, begin, end, s.depth + 1, s.dimension, granted))
              /\ UNCHANGED <<status, failed_creates>>
           \/ /\ granted /\ CreateMayFail
              /\ failed_creates' = failed_creates + 1
              /\ status' = "abort"
              /\ UNCHANGED sorts
        /\ UNCHANGED train

SortLeft(id) ==
  LET s == sorts[id]
  IN  /\ status = "running" /\ s.pc = "call" /\ Size(s) >= 2 /\ s.depth < static_depth
      /\ SortFork(id, "l", s.begin, s.begin + Size(s) \div 2, "left")

(* Slip: the left half is sorted twice. *)
SortRightCopied(id) ==
  LET s == sorts[id]
  IN  /\ status = "running" /\ s.pc = "left" /\ SortProceeds(Half(id, "l"))
      /\ SortFork(id, "r", s.begin, s.begin + Size(s) \div 2, "right")

SortRight(id) ==
  LET s == sorts[id]
  IN  /\ status = "running" /\ s.pc = "left" /\ SortProceeds(Half(id, "l"))
      /\ SortFork(id, "r", s.begin + Size(s) \div 2, s.end, "right")

(* Both joins, the merge, the release of the halves and the decrement. *)
SortMerge(id) ==
  LET s == sorts[id]
      l == Half(id, "l")
      r == Half(id, "r")
  IN  /\ status = "running" /\ s.pc = "right" /\ SortReturned(l) /\ SortReturned(r)
      /\ sorts' = Drop([sorts EXCEPT ![id].pc = "returned",
                          ![id].out = MergeRuns(train, sorts[l].out, sorts[r].out, s.dimension)],
                       {l, r})
      /\ return_thread(s.is_thread)
      /\ UNCHANGED <<train, status, failed_creates>>

SortStep ==
  \E id \in DOMAIN sorts :
    \/ SortBase(id) \/ SortAssert(id) \/ SortSerial(id)
    \/ SortLeft(id) \/ SortRight(id) \/ SortMerge(id)

-----------------------------------------------------------------------------
(* The sort alone, as make_tree calls it: the first quarter of the points, depth 0. *)
Root == <<<<>>, <<>>>>

SortInit ==
  /\ train \in Datasets
  /\ sorts = Put(<<>>, Root, SortCall(Rows(train), 0, RootSample(train), 0, 0, FALSE))
  /\ status = "running"
  /\ failed_creates = 0
  /\ BudgetInit

SortTaken ==
  /\ status = "running" /\ SortReturned(Root)
  /\ status' = "returned"
  /\ UNCHANGED <<train, sorts, failed_creates, budgetVars>>

SortOver == status # "running" /\ UNCHANGED sortVars

SortNext == SortStep \/ SortTaken \/ SortOver

SortSpec == SortInit /\ [][SortNext]_sortVars /\ WF_sortVars(SortStep \/ SortTaken)

-----------------------------------------------------------------------------
(* Every call that has returned holds its range of the shared vector in stable order, *)
(* whatever threads the budget gave it and in whatever order they ran.                *)
SortedRuns ==
  \A id \in DOMAIN sorts : SortReturned(id) =>
    LET s == sorts[id]
    IN  IsStableSortOf(train, s.out, SubSeq(s.a, s.begin + 1, s.end), s.dimension)

(* The threads of merge_sort that have not released their slot. *)
SortThreads == {id \in DOMAIN sorts : sorts[id].is_thread /\ ~SortReturned(id)}

(* The counter of the budget never falls below the threads at work and never passes *)
(* the limit, though a sort of one element in a thread keeps its slot for ever.     *)
SortBudget ==
  /\ BudgetTypeOK
  /\ Cardinality(SortThreads) <= tmp_thread_count
  /\ tmp_thread_count <= max_threads /\ max_threads <= thread_limit
=============================================================================

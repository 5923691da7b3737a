--------------------------- MODULE StandaloneSort ---------------------------
(***************************************************************************)
(* merge.cpp: the program merge_sort of KNN was made from.  It sorts ints, *)
(* here points of which the only coordinate counts.  A call above          *)
(* ForkDepth makes a thread for each half, both before it joins one, and   *)
(* asks no budget; below it does both halves itself.                       *)
(*                                                                         *)
(* The records of MergeSort serve for its calls; is_thread is FALSE, as no *)
(* call has a slot of a budget to give back.                               *)
(***************************************************************************)
EXTENDS MergeSort

CONSTANT ForkDepth      \* 8 in the source

ASSUME ForkDepthAssumption == ForkDepth \in Nat

(* main: all of the array, depth 0. *)
StandaloneInit ==
  /\ train \in Datasets
  /\ sorts = Put(<<>>, Root, SortCall(Rows(train), 0, Len(train), 0, 0, FALSE))
  /\ status = "running"
  /\ failed_creates = 0
  /\ BudgetInit

StandaloneBase(id) ==
  /\ status = "running" /\ sorts[id].pc = "call" /\ Size(sorts[id]) = 1
  /\ sorts' = [sorts EXCEPT ![id].pc = "returned",
                            ![id].out = <<sorts[id].a[sorts[id].begin + 1]>>]
  /\ UNCHANGED <<train, status, failed_creates, budgetVars>>

(* Both halves in the call itself. *)
StandaloneSerial(id) ==
  LET s == sorts[id]
  IN  /\ status = "running" /\ s.pc = "call" /\ Size(s) >= 2 /\ s.depth >= ForkDepth
      /\ sorts' = [sorts EXCEPT ![id].pc = "returned",
                     ![id].out = SerialSort(train, s.a, s.begin, s.end, s.dimension)]
      /\ UNCHANGED <<train, status, failed_creates, budgetVars>>

(* Slip: both halves get the depth of the whole. *)
StandaloneForkSameDepth(id, side, begin, end, pc) ==
  LET s == sorts[id]
  IN  /\ sorts' = Put([sorts EXCEPT ![id].pc = pc], Half(id, side),
                      SortCall(s.a, begin, end, s.depth, s.dimension, FALSE))
      /\ UNCHANGED <<train, status, failed_creates, budgetVars>>

(* pthread_create for one half; the assertion on its result ends the process. *)
StandaloneFork(id, side, begin, end, pc) ==
  LET s == sorts[id]
  IN  /\ \/ /\ sorts' = Put([sorts EXCEPT ![id].pc = pc], Half(id, side),
                            SortCall(s.a, begin, end, s.depth + 1, s.dimension, FALSE))
            /\ UNCHANGED <<status, failed_creates>>
         \/ /\ CreateMayFail
            /\ failed_creates' = failed_creates + 1
            /\ status' = "abort"
            /\ UNCHANGED sorts
      /\ UNCHANGED <<train, budgetVars>>

StandaloneLeft(id) ==
  LET s == sorts[id]
  IN  /\ status = "running" /\ s.pc = "call" /\ Size(s) >= 2 /\ s.depth < ForkDepth
      /\ StandaloneFork(id, "l", s.begin, s.begin + Size(s) \div 2, "left")

StandaloneRight(id) ==
  LET s == sorts[id]
  IN  /\ status = "running" /\ s.pc = "left"
      /\ StandaloneFork(id, "r", s.begin + Size(s) \div 2, s.end, "right")

(* Slip: the halves are merged when the first of them is there. *)
StandaloneMergeEarly(id) ==
  LET s == sorts[id]
      l == Half(id, "l")
      r == Half(id, "r")
  IN  /\ status = "running" /\ s.pc = "right" /\ SortReturned(l)
      /\ sorts' = Drop([sorts EXCEPT ![id].pc = "returned",
                          ![id].out = MergeRuns(train, sorts[l].out, sorts[r].out, s.dimension)],
                       {l, r})
      /\ UNCHANGED <<train, status, failed_creates, budgetVars>>

(* Both joins and the merge. *)
StandaloneMerge(id) ==
  LET s == sorts[id]
      l == Half(id, "l")
      r == Half(id, "r")
  IN  /\ status = "running" /\ s.pc = "right" /\ SortReturned(l) /\ SortReturned(r)
      /\ sorts' = Drop([sorts EXCEPT ![id].pc = "returned",
                          ![id].out = MergeRuns(train, sorts[l].out, sorts[r].out, s.dimension)],
                       {l, r})
      /\ UNCHANGED <<train, status, failed_creates, budgetVars>>

StandaloneStep ==
  \E id \in DOMAIN sorts :
    \/ StandaloneBase(id) \/ StandaloneSerial(id)
    \/ StandaloneLeft(id) \/ StandaloneRight(id) \/ StandaloneMerge(id)

(* The threads that are there: every call but main's runs in one while its parent forks. *)
StandaloneThreads == {id \in DOMAIN sorts : id # Root /\ ~SortReturned(id)}
=============================================================================

------------------------------- MODULE KnnRun -------------------------------
(***************************************************************************)
(* One run of k-nn from its input files to its result file: the dispatch   *)
(* of DoQueries with the priority queues it leaves out, the input files    *)
(* read as in Formats, and the writer of ResultFile inside WriteAndFree.   *)
(*                                                                         *)
(* A search is one step here: it puts a right answer into the queue of its *)
(* query, which is what Search shows of query_nodes (AnswersQuery), on a   *)
(* tree as TreeBuild builds it.  Which of several points at one distance   *)
(* that is, and in which order they come out, is left open, as it is by    *)
(* the tree and by the priority queue.                                     *)
(***************************************************************************)
EXTENDS DoQueries, ResultFile, SequencesExt

CONSTANTS
  TrainingSets, QuerySets,      \* the points the input files may hold
  train_id, query_id

ASSUME InputsAssumption ==
  /\ TrainingSets \subseteq [1 .. num_training_pts -> [1 .. num_dimensions -> Nat]]
  /\ QuerySets \subseteq [1 .. num_queries -> [1 .. num_dimensions -> Nat]]
  /\ {train_id, query_id} \subseteq 0 .. WordRange * WordRange - 1

VARIABLES
  data_in, query_in,  \* the mapped input files
  t_info, q_info,     \* what main has read from them
  queues              \* the rows in the priority queue of each query

inputVars == <<data_in, query_in, t_info, q_info>>

runVars == <<vars, resultVars, inputVars, queues>>

Problem(q) == [train |-> t_info.points, query |-> q_info.points[q], k |-> k]

DistanceTo(q, row) == distance(q_info.points[q], t_info.points[row])

(* main up to do_queries: both files are read and found to fit. *)
RunInit ==
  /\ \E t \in TrainingSets : data_in = training_data(train_id, t, num_dimensions)
  /\ \E t \in QuerySets : query_in = query_file(query_id, t, num_dimensions, k)
  /\ t_info = train_info(data_in) /\ q_info = query_info(query_in)
  /\ check_info(t_info, q_info)
  /\ queues = [q \in Queries |-> {}]
  /\ Init /\ ResultInit(t_info.id, q_info.id)

(* query_nodes for the query of worker w. *)
Answer(w) ==
  /\ RunJob(w)
  /\ \E S \in SUBSET (1 .. num_training_pts) :
       IsNearest(Problem(job[w]), S) /\ queues' = [queues EXCEPT ![job[w]] = @ \cup S]
  /\ UNCHANGED <<resultVars, inputVars>>

(* The orders in which k points may come out of the queue of q. *)
PopOrders(q) ==
  {r \in [1 .. k -> queues[q]] :
     /\ \A m, n \in 1 .. k : m < n => r[m] # r[n] /\ DistanceTo(q, r[m]) >= DistanceTo(q, r[n])
     /\ \A x \in queues[q] : x \in {r[n] : n \in 1 .. k} \/ DistanceTo(q, x) <= DistanceTo(q, r[k])}

(* Slip: the top is read k times and popped once. *)
CollectTops ==
  /\ Collect
  /\ \E r \in PopOrders(i) :
       /\ results' = [results EXCEPT ![i] = [n \in 1 .. k |-> t_info.points[r[1]]]]
       /\ queues' = [queues EXCEPT ![i] = @ \ {r[1]}]
  /\ UNCHANGED <<ids, file, writer, inputVars>>

(* k times top() and pop(). *)
CollectPoints ==
  /\ Collect
  /\ \E r \in PopOrders(i) :
       /\ results' = [results EXCEPT ![i] = [n \in 1 .. k |-> t_info.points[r[n]]]]
       /\ queues' = [queues EXCEPT ![i] = @ \ {r[n] : n \in 1 .. k}]
  /\ UNCHANGED <<ids, file, writer, inputVars>>

Write ==
  /\ main = "collect" /\ i > num_queries
  /\ results_to_file
  /\ UNCHANGED <<vars, inputVars, queues>>

Exit == WriteFails /\ results_to_file_exits /\ UNCHANGED <<inputVars, queues>>

Return == WriteAndFree /\ writer.pc = "closed" /\ UNCHANGED <<resultVars, inputVars, queues>>

Dispatch ==
  /\ \/ CreateWorker \/ CreatedAll \/ JoinWorker \/ JoinUninitialised \/ JoinedAll
     \/ CollectEmpty
  /\ UNCHANGED <<resultVars, inputVars, queues>>

MainStep == Dispatch \/ CollectPoints \/ Write \/ Exit \/ Return

Take(w) ==
  /\ Lock(w) \/ ReadSize(w) \/ Leave(w) \/ TakeJob(w) \/ PopBack(w) \/ Unlock(w)
  /\ UNCHANGED <<resultVars, inputVars, queues>>

WorkerStep(w) == Take(w) \/ Answer(w)

RunOver == Ended /\ UNCHANGED runVars

RunNext == MainStep \/ (\E w \in Workers : WorkerStep(w)) \/ RunOver

RunSpec ==
  /\ RunInit /\ [][RunNext]_runVars
  /\ WF_runVars(MainStep) /\ \A w \in Workers : WF_runVars(WorkerStep(w))

-----------------------------------------------------------------------------
(* The points in neighbors are nearest to a query point among those given, nearest first. *)
ListsNearest(points, query, neighbors) ==
  \E r \in [DOMAIN neighbors -> DOMAIN points] :
    /\ \A n \in DOMAIN r : neighbors[n] = points[r[n]]
    /\ \A m, n \in DOMAIN r : m < n =>
         r[m] # r[n] /\ distance(query, points[r[m]]) <= distance(query, points[r[n]])
    /\ IsNearest([train |-> points, query |-> query, k |-> Len(neighbors)],
                 {r[n] : n \in DOMAIN r})

(* What a user sees: dumps of the three files of a run that ended well agree in their ids and *)
(* sizes, and the result lists, for every query, the k training points nearest to it, the     *)
(* nearest first, whichever workers there were and whatever they took.                        *)
ResultIsNearest ==
  main = "done" =>
    LET data == dump(data_in)
        query == dump(query_in)
        result == dump(file)
    IN  /\ result.training_id = data.id /\ result.query_id = query.id
        /\ result.n_queries = query.n_queries /\ result.n_neighbors = query.n_neighbors
        /\ result.n_dims = data.n_dims
        /\ \A q \in 1 .. query.n_queries :
             ListsNearest(data.points, query.points[q], result.neighbors[q])

-----------------------------------------------------------------------------
(* Statements of the repository that the code does not meet. *)

(* KNN::num_found: nothing writes it after the constructor, query_nodes counts in a field *)
(* of query_args with that name.                                                          *)
num_found == 0

(* Whether the assertions of _test hold of results r: the first num_found points of each *)
(* query are those of all training points sorted by distance.                            *)
_test(r) ==
  \A q \in Queries :
    \E arr \in [1 .. num_training_pts -> 1 .. num_training_pts] :
      /\ \A m, n \in DOMAIN arr : m < n =>
           arr[m] # arr[n] /\ DistanceTo(q, arr[m]) <= DistanceTo(q, arr[n])
      /\ \A n \in 1 .. num_found : t_info.points[arr[n]] = r[q][num_found - n + 1]

(* knnClass.cpp:1326 announces "test()...cmp to brute force", to be called "only [...] after *)
(* do_queries" (driver.cpp:72): then it tells results that are not nearest from those of the *)
(* search, here with another point in the place of one.                                      *)
TestComparesResults ==
  main = "done" =>
    \A q \in Queries, row \in 1 .. num_training_pts :
      LET r == [results EXCEPT ![q][1] = t_info.points[row]]
      IN  _test(r) => ListsNearest(t_info.points, q_info.points[q], Reverse(r[q]))
=============================================================================

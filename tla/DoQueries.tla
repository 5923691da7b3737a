----------------------------- MODULE DoQueries -----------------------------
(***************************************************************************)
(* KNN::do_queries and KNN::adhoc_worker: the main thread puts one job per *)
(* query in the vector `work` and creates 2 * cores workers; each takes    *)
(* jobs off the back of the vector under the spin lock thread_lock and     *)
(* answers them with query_nodes; the main thread joins the workers, takes *)
(* k points from the queue of every query and frees what they worked on.   *)
(*                                                                         *)
(* The jobs are pushed in the order of the queries and only ever popped    *)
(* from the back, so the vector is told by its size: element i - 1 is the  *)
(* job of query i.  What query_nodes does to the queue of its own query is *)
(* the module Search; here it leaves k points there, or all of the         *)
(* training points if they are fewer.                                      *)
(***************************************************************************)
EXTENDS Integers, FiniteSets, BatchSizes

CONSTANTS
  cores,              \* KNN::cores
  CreateFailures      \* how many calls of pthread_create may fail in a behaviour

ASSUME CoresAssumption == cores \in Nat
ASSUME FailuresAssumption == CreateFailures \in Nat

job_cores == cores * 2

Workers == 1 .. job_cores
Queries == 1 .. num_queries
NoWorker == 0

VARIABLES
  main,               \* where do_queries is: "create", "join", "collect", "done", ...
  i,                  \* its loop counter, from 1
  pc,                 \* where each worker is
  lock,               \* the holder of thread_lock
  work,               \* the size of the vector of jobs
  idx, job,           \* adhoc_worker's locals
  answered,           \* the queries query_nodes has returned for
  failed_creates

vars == <<main, i, pc, lock, work, idx, job, answered, failed_creates>>

workerVars == <<pc, lock, work, idx, job, answered>>

(* The points in the queue of a query. *)
QueueSize(q) ==
  IF q \notin answered THEN 0
  ELSE IF k <= num_training_pts THEN k ELSE num_training_pts

Init ==
  /\ main = "create" /\ i = 1
  /\ pc = [w \in Workers |-> "none"]
  /\ lock = NoWorker
  /\ work = num_queries
  /\ idx = [w \in Workers |-> 0]
  /\ job = [w \in Workers |-> 0]
  /\ answered = {}
  /\ failed_creates = 0

-----------------------------------------------------------------------------
(* do_queries *)

(* One pthread_create; a failure is printed and the handle stays unwritten. *)
CreateWorker ==
  /\ main = "create" /\ i <= job_cores
  /\ i' = i + 1
  /\ \/ pc' = [pc EXCEPT ![i] = "lock"] /\ UNCHANGED failed_creates
     \/ /\ failed_creates < CreateFailures
        /\ failed_creates' = failed_creates + 1
        /\ UNCHANGED pc
  /\ UNCHANGED <<main, lock, work, idx, job, answered>>

CreatedAll ==
  /\ main = "create" /\ i > job_cores
  /\ main' = "join" /\ i' = 1
  /\ UNCHANGED <<workerVars, failed_creates>>

(* Slip: the join does not wait. *)
JoinWorkerUnwaited ==
  /\ main = "join" /\ i <= job_cores /\ pc[i] # "none"
  /\ i' = i + 1
  /\ UNCHANGED <<main, workerVars, failed_creates>>

JoinWorker ==
  /\ main = "join" /\ i <= job_cores /\ pc[i] = "exited"
  /\ i' = i + 1
  /\ UNCHANGED <<main, workerVars, failed_creates>>

(* The join of a handle that was never written: it fails, and nobody looks, or the *)
(* process crashes.                                                                *)
JoinUninitialised ==
  /\ main = "join" /\ i <= job_cores /\ pc[i] = "none"
  /\ \/ i' = i + 1 /\ UNCHANGED main
     \/ main' = "segfault" /\ UNCHANGED i
  /\ UNCHANGED <<workerVars, failed_creates>>

(* Slip: as many workers are joined as there are cores. *)
JoinedHalf ==
  /\ main = "join" /\ i > cores
  /\ main' = "collect" /\ i' = 1
  /\ UNCHANGED <<workerVars, failed_creates>>

JoinedAll ==
  /\ main = "join" /\ i > job_cores
  /\ main' = "collect" /\ i' = 1
  /\ UNCHANGED <<workerVars, failed_creates>>

(* k times top() and pop() on the queue of query i. *)
Collect ==
  /\ main = "collect" /\ i <= num_queries /\ k <= QueueSize(i)
  /\ i' = i + 1
  /\ UNCHANGED <<main, workerVars, failed_creates>>

(* top() of an empty queue: undefined, and here the end. *)
CollectEmpty ==
  /\ main = "collect" /\ i <= num_queries /\ k > QueueSize(i)
  /\ main' = "undefined"
  /\ UNCHANGED <<i, workerVars, failed_creates>>

(* results_to_file, then the queues, the query_args, the work and the handles are freed. *)
WriteAndFree ==
  /\ main = "collect" /\ i > num_queries
  /\ main' = "done"
  /\ UNCHANGED <<i, workerVars, failed_creates>>

(* A system call of results_to_file fails, and the process ends there: exit or abort. *)
WriteFails ==
  /\ main = "collect" /\ i > num_queries
  /\ main' = "exit"
  /\ UNCHANGED <<i, workerVars, failed_creates>>

do_queries ==
  \/ CreateWorker \/ CreatedAll
  \/ JoinWorker \/ JoinUninitialised \/ JoinedAll
  \/ Collect \/ CollectEmpty \/ WriteAndFree \/ WriteFails

-----------------------------------------------------------------------------
(* adhoc_worker; an end of the process ends it too. *)
Running == main \notin {"segfault", "undefined", "exit"}

WorkerAt(w, here) == Running /\ pc[w] = here

WorkerGoes(w, next) == pc' = [pc EXCEPT ![w] = next]

(* Slip: the lock is not taken. *)
LockIgnored(w) ==
  /\ WorkerAt(w, "lock")
  /\ lock' = w
  /\ WorkerGoes(w, "size")
  /\ UNCHANGED <<main, i, work, idx, job, answered, failed_creates>>

Lock(w) ==
  /\ WorkerAt(w, "lock") /\ lock = NoWorker
  /\ lock' = w
  /\ WorkerGoes(w, "size")
  /\ UNCHANGED <<main, i, work, idx, job, answered, failed_creates>>

(* Slip: the vector is not tested for being empty. *)
ReadSizeOnly(w) ==
  /\ WorkerAt(w, "size")
  /\ idx' = [idx EXCEPT ![w] = work]
  /\ WorkerGoes(w, "take")
  /\ UNCHANGED <<main, i, lock, work, job, answered, failed_creates>>

(* idx = work.size(); unlock and return if it is zero. *)
ReadSize(w) ==
  /\ WorkerAt(w, "size")
  /\ idx' = [idx EXCEPT ![w] = work]
  /\ WorkerGoes(w, IF work = 0 THEN "leave" ELSE "take")
  /\ UNCHANGED <<main, i, lock, work, job, answered, failed_creates>>

(* Slip: the return without the unlock. *)
LeaveLocked(w) ==
  /\ WorkerAt(w, "leave")
  /\ WorkerGoes(w, "exited")
  /\ UNCHANGED <<main, i, lock, work, idx, job, answered, failed_creates>>

Leave(w) ==
  /\ WorkerAt(w, "leave")
  /\ lock' = NoWorker
  /\ WorkerGoes(w, "exited")
  /\ UNCHANGED <<main, i, work, idx, job, answered, failed_creates>>

(* Slip: the lock is given back before the pop. *)
TakeJobUnlocked(w) ==
  /\ WorkerAt(w, "take")
  /\ job' = [job EXCEPT ![w] = idx[w]]
  /\ lock' = NoWorker
  /\ WorkerGoes(w, "pop")
  /\ UNCHANGED <<main, i, work, idx, answered, failed_creates>>

(* job = work[idx - 1] *)
TakeJob(w) ==
  /\ WorkerAt(w, "take")
  /\ job' = [job EXCEPT ![w] = idx[w]]
  /\ WorkerGoes(w, "pop")
  /\ UNCHANGED <<main, i, lock, work, idx, answered, failed_creates>>

PopBack(w) ==
  /\ WorkerAt(w, "pop")
  /\ work' = work - 1
  /\ WorkerGoes(w, "unlock")
  /\ UNCHANGED <<main, i, lock, idx, job, answered, failed_creates>>

Unlock(w) ==
  /\ WorkerAt(w, "unlock")
  /\ lock' = NoWorker
  /\ WorkerGoes(w, "run")
  /\ UNCHANGED <<main, i, work, idx, job, answered, failed_creates>>

(* query_nodes(job) *)
RunJob(w) ==
  /\ WorkerAt(w, "run")
  /\ answered' = answered \cup {job[w]}
  /\ WorkerGoes(w, "lock")
  /\ UNCHANGED <<main, i, lock, work, idx, job, failed_creates>>

adhoc_worker(w) ==
  \/ Lock(w) \/ ReadSize(w) \/ Leave(w)
  \/ TakeJob(w) \/ PopBack(w) \/ Unlock(w) \/ RunJob(w)

-----------------------------------------------------------------------------
Ended == main \in {"done", "exit", "segfault", "undefined"}

Over == Ended /\ UNCHANGED vars

Next == do_queries \/ (\E w \in Workers : adhoc_worker(w)) \/ Over

(* The scheduler runs every thread of the process that can go on. *)
Fairness == WF_vars(do_queries) /\ \A w \in Workers : WF_vars(adhoc_worker(w))

Spec == Init /\ [][Next]_vars /\ Fairness

-----------------------------------------------------------------------------
(* Type invariant. *)
TypeOK ==
  /\ main \in {"create", "join", "collect", "done", "exit", "segfault", "undefined"}
  /\ i \in Nat \ {0}
  /\ pc \in [Workers -> {"none", "lock", "size", "leave", "take", "pop", "unlock", "run",
                         "exited"}]
  /\ lock \in Workers \cup {NoWorker}
  /\ work \in 0 .. num_queries
  /\ idx \in [Workers -> 0 .. num_queries]
  /\ job \in [Workers -> 0 .. num_queries]
  /\ answered \subseteq Queries
  /\ failed_creates \in 0 .. CreateFailures

Critical == {"size", "leave", "take", "pop", "unlock"}

Holding == {"unlock", "run"}

(* A job off the vector is with one worker or answered, never both and never with two: *)
(* query_nodes runs once for a query, and no two threads push to one queue.            *)
JobsRunOnce ==
  /\ \A w \in Workers : pc[w] \in Holding => job[w] \in Queries /\ job[w] \notin answered
  /\ \A w, v \in Workers :
       w # v /\ pc[w] \in Holding /\ pc[v] \in Holding => job[w] # job[v]

(* No job is lost: a query that is not in the vector and not answered is with a worker. *)
NoJobLost ==
  \A q \in Queries :
    q > work => q \in answered \/ \E w \in Workers : pc[w] \in Holding /\ job[w] = q

(* The results are taken and written, and the queues and jobs freed, when no worker can     *)
(* touch them any more, and every query has been answered if one worker at least was created. *)
CollectAfterAnswers ==
  main \in {"collect", "done", "exit"} =>
    /\ \A w \in Workers : pc[w] \in {"none", "exited"}
    /\ (\E w \in Workers : pc[w] = "exited") => answered = Queries

(* do_queries ends, whichever calls of pthread_create fail. *)
BatchEnds == <>Ended

(* With points enough and a core at least it comes to results_to_file, and ends with the      *)
(* results written or by a system call that failed there, unless a thread could not be made:  *)
(* no run stops, crashes or takes from an empty queue for another reason.                     *)
ResultsWritten ==
  k <= num_training_pts /\ cores > 0 => <>(main \in {"done", "exit"} \/ failed_creates > 0)

(* The results that have been taken, and whether the process has gone wrong. *)
Collected ==
  IF main = "collect" THEN i - 1 ELSE IF main \in {"done", "exit", "undefined"} THEN i - 1 ELSE 0

Batch == INSTANCE QueryBatch WITH
  collected <- Collected, failed <- main \in {"segfault", "undefined", "exit"}

(* do_queries keeps the promise of QueryBatch. *)
KeepsPromise == Batch!Spec

-----------------------------------------------------------------------------
(* Statements of the repository that the code does not meet. *)

(* auto.sh:15-41 runs each number of training points from 1 on with k in turn from 1 to 11, *)
(* "Number of neighbors to return for each query" (new/query_file.py:20): k points are      *)
(* there to be taken.                                                                       *)
QueuesSuffice == main # "undefined"
=============================================================================

---------------------------- MODULE KnnRun_proofs ----------------------------
(***************************************************************************)
(* Theorems of DoQueries and of KnnRun for every number of cores, queries, *)
(* points, dimensions, every k and every contents of the input files: the  *)
(* dispatch runs every query once, the run keeps the promises of           *)
(* DoQueries, its result file is laid out as results_to_file has it, and a *)
(* run that ends well leaves in it, for every query, the k training points *)
(* nearest to it.                                                          *)
(***************************************************************************)
EXTENDS KnnRun, FiniteSetTheorems, SequenceTheorems, TLAPS

-----------------------------------------------------------------------------
(* DoQueries: the job vector, the lock and the workers. *)

(* The spin lock is with the worker between the lock and the unlock. *)
LockInv == \A w \in Workers : pc[w] \in Critical <=> lock = w

(* What a worker read of the vector under the lock is still so. *)
ReadInv ==
  \A w \in Workers :
    /\ pc[w] = "take" => idx[w] = work /\ work > 0
    /\ pc[w] = "pop" => job[w] = work /\ work > 0

(* A job with a worker, or answered, is off the vector. *)
OffVector ==
  /\ \A w \in Workers : pc[w] \in Holding => job[w] > work /\ job[w] \notin answered
  /\ \A q \in answered : q > work

HeldByOne ==
  \A w, v \in Workers :
    w # v /\ pc[w] \in Holding /\ pc[v] \in Holding => job[w] # job[v]

(* A worker leaves only when the vector is empty; an answer needs a worker. *)
LeaveInv ==
  /\ \A w \in Workers : pc[w] \in {"leave", "exited"} => work = 0
  /\ answered # {} => \E w \in Workers : pc[w] # "none"

(* The workers from i on are not created yet; those before i are joined. *)
MainInv ==
  /\ main = "create" => i <= job_cores + 1 /\ \A w \in Workers : w >= i => pc[w] = "none"
  /\ main = "join" => \A w \in Workers : w < i => pc[w] \in {"none", "exited"}
  /\ main \in {"collect", "done", "exit", "undefined"} => \A w \in Workers : pc[w] \in {"none", "exited"}

IInv == TypeOK /\ LockInv /\ ReadInv /\ OffVector /\ HeldByOne /\ NoJobLost /\ LeaveInv /\ MainInv

-----------------------------------------------------------------------------
LEMMA ConstantFacts ==
  /\ job_cores \in Nat
  /\ Workers \subseteq Nat \ {0} /\ NoWorker \notin Workers
  /\ Queries \subseteq Nat \ {0}
  BY CoresAssumption, SizesAssumption DEF job_cores, Workers, Queries, NoWorker

(* The state do_queries starts the workers in satisfies the invariant. *)
LEMMA InitInv == Init => IInv
<1> SUFFICES ASSUME Init PROVE IInv
  OBVIOUS
<1> USE ConstantFacts DEF Init
<1>1. TypeOK
  BY SizesAssumption, FailuresAssumption DEF TypeOK
<1>2. LockInv /\ ReadInv /\ OffVector /\ HeldByOne
  BY DEF LockInv, ReadInv, OffVector, HeldByOne, Critical, Holding
<1>3. NoJobLost
  BY SizesAssumption DEF NoJobLost, Queries
<1>4. LeaveInv /\ MainInv
  BY DEF LeaveInv, MainInv
<1> QED
  BY <1>1, <1>2, <1>3, <1>4 DEF IInv

(* The steps of do_queries take no job and no lock. *)
LEMMA MainKeepsInv == IInv /\ do_queries => IInv'
<1> SUFFICES ASSUME IInv, do_queries PROVE IInv'
  OBVIOUS
<1> USE ConstantFacts DEF IInv
<1>1. CASE CreateWorker
  <2>1. i \in Workers /\ pc[i] = "none" /\ main' = "create" /\ i' = i + 1
    BY <1>1 DEF CreateWorker, TypeOK, MainInv, Workers
  <2>2. PICK p \in {"none", "lock"} : pc' = [pc EXCEPT ![i] = p]
    BY <1>1, <2>1 DEF CreateWorker, TypeOK
  <2>3. UNCHANGED <<lock, work, idx, job, answered>>
    BY <1>1 DEF CreateWorker
  <2>4. TypeOK'
    BY <1>1, FailuresAssumption DEF CreateWorker, TypeOK
  <2>5. LockInv' /\ ReadInv'
    BY <2>1, <2>2, <2>3 DEF TypeOK, LockInv, ReadInv, Critical
  <2>6. OffVector' /\ HeldByOne' /\ NoJobLost'
    BY <2>1, <2>2, <2>3 DEF TypeOK, OffVector, HeldByOne, NoJobLost, Holding
  <2>7. LeaveInv'
    BY <2>1, <2>2, <2>3 DEF TypeOK, LeaveInv
  <2>8. MainInv'
    BY <1>1, <2>1, <2>2 DEF CreateWorker, TypeOK, MainInv
  <2> QED
    BY <2>4, <2>5, <2>6, <2>7, <2>8
<1>2. ASSUME do_queries, ~CreateWorker
      PROVE  /\ TypeOK' /\ MainInv'
             /\ UNCHANGED workerVars
  <2>1. CASE CreatedAll
    BY <2>1 DEF CreatedAll, TypeOK, MainInv, workerVars
  <2>2. CASE JoinWorker
    BY <2>2 DEF JoinWorker, TypeOK, MainInv, workerVars, Workers
  <2>3. CASE JoinUninitialised
    <3>1. UNCHANGED workerVars /\ UNCHANGED failed_creates
      BY <2>3 DEF JoinUninitialised
    <3>2. TypeOK'
      BY <2>3, <3>1 DEF JoinUninitialised, TypeOK, workerVars
    <3>3. MainInv'
      BY <2>3, <3>1 DEF JoinUninitialised, TypeOK, MainInv, workerVars
    <3> QED
      BY <3>1, <3>2, <3>3
  <2>4. CASE JoinedAll
    BY <2>4 DEF JoinedAll, TypeOK, MainInv, workerVars, Workers
  <2>5. CASE Collect
    BY <2>5 DEF Collect, TypeOK, MainInv, workerVars
  <2>6. CASE CollectEmpty
    BY <2>6 DEF CollectEmpty, TypeOK, MainInv, workerVars
  <2>7. CASE WriteAndFree
    BY <2>7 DEF WriteAndFree, TypeOK, MainInv, workerVars
  <2>8. CASE WriteFails
    BY <2>8 DEF WriteFails, TypeOK, MainInv, workerVars
  <2> QED
    BY <1>2, <2>1, <2>2, <2>3, <2>4, <2>5, <2>6, <2>7, <2>8 DEF do_queries
<1>3. ASSUME UNCHANGED workerVars
      PROVE  LockInv' /\ ReadInv' /\ OffVector' /\ HeldByOne' /\ NoJobLost' /\ LeaveInv'
  BY <1>3 DEF workerVars, LockInv, ReadInv, OffVector, HeldByOne, NoJobLost, LeaveInv
<1> QED
  BY <1>1, <1>2, <1>3

(* A worker is the holder of the lock whenever it touches the vector. *)
LEMMA WorkerKeepsInv ==
  ASSUME IInv, NEW w \in Workers, adhoc_worker(w)
  PROVE  IInv'
<1> USE ConstantFacts DEF IInv, WorkerAt, WorkerGoes
<1>1. CASE Lock(w)
  <2>1. TypeOK'
    BY <1>1 DEF Lock, TypeOK
  <2>2. LockInv' /\ ReadInv' /\ OffVector' /\ HeldByOne'
    BY <1>1 DEF Lock, TypeOK, LockInv, ReadInv, OffVector, HeldByOne, Critical, Holding
  <2>3. NoJobLost'
    BY <1>1 DEF Lock, TypeOK, NoJobLost, Holding
  <2>4. LeaveInv' /\ MainInv'
    BY <1>1 DEF Lock, TypeOK, LeaveInv, MainInv
  <2> QED
    BY <2>1, <2>2, <2>3, <2>4
<1>2. CASE ReadSize(w)
  <2>1. TypeOK'
    BY <1>2 DEF ReadSize, TypeOK
  <2>2. LockInv' /\ ReadInv' /\ OffVector' /\ HeldByOne'
    BY <1>2, SizesAssumption DEF ReadSize, TypeOK, LockInv, ReadInv, OffVector, HeldByOne, Critical, Holding
  <2>3. NoJobLost'
    BY <1>2 DEF ReadSize, TypeOK, NoJobLost, Holding
  <2>4. LeaveInv' /\ MainInv'
    BY <1>2 DEF ReadSize, TypeOK, LeaveInv, MainInv
  <2> QED
    BY <2>1, <2>2, <2>3, <2>4
<1>3. CASE Leave(w)
  <2>1. TypeOK'
    BY <1>3 DEF Leave, TypeOK
  <2>2. LockInv' /\ ReadInv' /\ OffVector' /\ HeldByOne'
    BY <1>3 DEF Leave, TypeOK, LockInv, ReadInv, OffVector, HeldByOne, Critical, Holding
  <2>3. NoJobLost'
    BY <1>3 DEF Leave, TypeOK, NoJobLost, Holding
  <2>4. LeaveInv' /\ MainInv'
    BY <1>3 DEF Leave, TypeOK, LeaveInv, MainInv
  <2> QED
    BY <2>1, <2>2, <2>3, <2>4
<1>4. CASE TakeJob(w)
  <2>1. TypeOK'
    BY <1>4 DEF TakeJob, TypeOK
  <2>2. LockInv' /\ ReadInv' /\ OffVector' /\ HeldByOne'
    BY <1>4 DEF TakeJob, TypeOK, LockInv, ReadInv, OffVector, HeldByOne, Critical, Holding
  <2>3. NoJobLost'
    BY <1>4 DEF TakeJob, TypeOK, NoJobLost, Holding
  <2>4. LeaveInv' /\ MainInv'
    BY <1>4 DEF TakeJob, TypeOK, LeaveInv, MainInv
  <2> QED
    BY <2>1, <2>2, <2>3, <2>4
<1>5. CASE PopBack(w)
  <2>0. work \in Nat /\ work > 0 /\ job[w] = work /\ work' = work - 1
    BY <1>5, SizesAssumption DEF PopBack, TypeOK, ReadInv
  <2>1. TypeOK'
    BY <1>5, <2>0, SizesAssumption DEF PopBack, TypeOK
  <2>2. LockInv'
    BY <1>5 DEF PopBack, TypeOK, LockInv, Critical
  <2>3. ReadInv' /\ LeaveInv'
    BY <1>5, <2>0 DEF PopBack, TypeOK, LockInv, ReadInv, LeaveInv, Critical
  <2>4. OffVector' /\ HeldByOne'
    BY <1>5, <2>0, SizesAssumption DEF PopBack, TypeOK, OffVector, HeldByOne, Holding, Queries
  <2>5. NoJobLost'
    <3> SUFFICES ASSUME NEW q \in Queries, q > work'
                 PROVE  q \in answered' \/ \E v \in Workers : (pc[v] \in Holding /\ job[v] = q)'
      BY DEF NoJobLost
    <3>1. CASE q = work
      BY <3>1, <1>5, <2>0 DEF PopBack, TypeOK, Holding
    <3>2. CASE q # work
      BY <3>2, <1>5, <2>0 DEF PopBack, TypeOK, NoJobLost, Holding, Queries
    <3> QED
      BY <3>1, <3>2
  <2>6. MainInv'
    BY <1>5 DEF PopBack, TypeOK, MainInv
  <2> QED
    BY <2>1, <2>2, <2>3, <2>4, <2>5, <2>6
<1>6. CASE Unlock(w)
  <2>1. TypeOK'
    BY <1>6 DEF Unlock, TypeOK
  <2>2. LockInv' /\ ReadInv' /\ OffVector' /\ HeldByOne'
    BY <1>6 DEF Unlock, TypeOK, LockInv, ReadInv, OffVector, HeldByOne, Critical, Holding
  <2>3. NoJobLost'
    BY <1>6 DEF Unlock, TypeOK, NoJobLost, Holding
  <2>4. LeaveInv' /\ MainInv'
    BY <1>6 DEF Unlock, TypeOK, LeaveInv, MainInv
  <2> QED
    BY <2>1, <2>2, <2>3, <2>4
<1>7. CASE RunJob(w)
  <2>0. job[w] \in Queries
    BY <1>7, SizesAssumption DEF RunJob, TypeOK, OffVector, Holding, Queries
  <2>1. TypeOK'
    BY <1>7, <2>0 DEF RunJob, TypeOK
  <2>2. LockInv' /\ ReadInv' /\ OffVector' /\ HeldByOne'
    BY <1>7 DEF RunJob, TypeOK, LockInv, ReadInv, OffVector, HeldByOne, Critical, Holding
  <2>3. NoJobLost'
    BY <1>7 DEF RunJob, TypeOK, NoJobLost, Holding
  <2>4. LeaveInv' /\ MainInv'
    BY <1>7 DEF RunJob, TypeOK, LeaveInv, MainInv
  <2> QED
    BY <2>1, <2>2, <2>3, <2>4
<1> QED
  BY <1>1, <1>2, <1>3, <1>4, <1>5, <1>6, <1>7 DEF adhoc_worker

LEMMA NextInv == IInv /\ [Next]_vars => IInv'
<1> SUFFICES ASSUME IInv, [Next]_vars PROVE IInv'
  OBVIOUS
<1>1. CASE do_queries
  BY <1>1, MainKeepsInv
<1>2. CASE \E w \in Workers : adhoc_worker(w)
  BY <1>2, WorkerKeepsInv
<1>3. CASE UNCHANGED vars
  BY <1>3 DEF vars, IInv, TypeOK, LockInv, ReadInv, OffVector, HeldByOne, NoJobLost, LeaveInv,
              MainInv
<1> QED
  BY <1>1, <1>2, <1>3 DEF Next, Over

LEMMA SpecInv == Spec => []IInv
  BY InitInv, NextInv, PTL DEF Spec

-----------------------------------------------------------------------------
(* The state of do_queries and its workers is always of its type: no worker *)
(* takes an element of an empty vector.                                     *)
THEOREM TypeCorrect == Spec => []TypeOK
  BY SpecInv, PTL DEF IInv

(* A job is never with two workers and never run again, for any number of both. *)
THEOREM JobsRunOnceAlways == Spec => []JobsRunOnce
<1>1. IInv => JobsRunOnce
  BY ConstantFacts, SizesAssumption DEF IInv, TypeOK, OffVector, HeldByOne, JobsRunOnce, Queries, Holding
<1> QED
  BY <1>1, SpecInv, PTL

(* No job falls out between the reading of the size and the pop. *)
THEOREM NoJobLostAlways == Spec => []NoJobLost
  BY SpecInv, PTL DEF IInv

(* With every worker gone and one that exited, the vector is empty and nothing is held. *)
LEMMA AllAnswered ==
  ASSUME IInv, main \in {"collect", "done", "exit", "undefined"}, \E w \in Workers : pc[w] # "none"
  PROVE  answered = Queries
<1>1. PICK w \in Workers : pc[w] = "exited"
  BY DEF IInv, MainInv
<1>2. work = 0
  BY <1>1 DEF IInv, LeaveInv
<1>3. \A v \in Workers : pc[v] \notin Holding
  BY DEF IInv, MainInv, Holding
<1>4. Queries \subseteq answered
  BY <1>2, <1>3, ConstantFacts DEF IInv, NoJobLost
<1> QED
  BY <1>4 DEF IInv, TypeOK

(* Results are taken and the queues freed only when every worker that was created has *)
(* exited and every query has its answer.                                              *)
THEOREM CollectAfterAnswersAlways == Spec => []CollectAfterAnswers
<1>1. IInv => CollectAfterAnswers
  BY AllAnswered DEF IInv, MainInv, CollectAfterAnswers
<1> QED
  BY <1>1, SpecInv, PTL

-----------------------------------------------------------------------------
(* The refinement: what is collected counts the results taken, and a crash is a failure. *)
LEMMA InitRefines == Init => Batch!Init
  BY DEF Init, Batch!Init, Collected

LEMMA MainRefines ==
  ASSUME IInv, do_queries
  PROVE  Batch!Next \/ UNCHANGED Batch!vars
<1> USE DEF Collected
<1>1. CASE CreateWorker
  BY <1>1 DEF CreateWorker, Batch!vars
<1>2. CASE CreatedAll
  BY <1>2 DEF CreatedAll, workerVars, Batch!vars
<1>3. CASE JoinWorker
  BY <1>3 DEF JoinWorker, workerVars, Batch!vars
<1>4. CASE JoinUninitialised
  <2>1. CASE main' = main
    BY <1>4, <2>1 DEF JoinUninitialised, workerVars, Batch!vars
  <2>2. CASE main' = "segfault"
    BY <1>4, <2>2 DEF JoinUninitialised, workerVars, Batch!Next, Batch!Fail
  <2> QED
    BY <1>4, <2>1, <2>2 DEF JoinUninitialised
<1>5. CASE JoinedAll
  BY <1>5 DEF JoinedAll, workerVars, Batch!vars
<1>6. CASE Collect
  <2>1. i \in Nat \ {0} /\ i <= num_queries /\ main = "collect"
    BY <1>6 DEF Collect, IInv, TypeOK
  <2>2. i \in answered
    BY <1>6, SizesAssumption DEF Collect, QueueSize
  <2>3. answered = Batch!Queries
    BY <2>1, <2>2, AllAnswered DEF IInv, LeaveInv, Queries, Batch!Queries
  <2>4. main' = "collect" /\ i' = i + 1 /\ answered' = answered
    BY <1>6 DEF Collect, workerVars
  <2>5. Batch!Collect
    BY <2>1, <2>3, <2>4, SizesAssumption DEF Batch!Collect
  <2> QED
    BY <2>5 DEF Batch!Next
<1>7. CASE CollectEmpty
  BY <1>7 DEF CollectEmpty, workerVars, Batch!Next, Batch!Fail
<1>8. CASE WriteAndFree
  BY <1>8 DEF WriteAndFree, workerVars, Batch!vars
<1>9. CASE WriteFails
  BY <1>9 DEF WriteFails, workerVars, Batch!Next, Batch!Fail
<1> QED
  BY <1>1, <1>2, <1>3, <1>4, <1>5, <1>6, <1>7, <1>8, <1>9 DEF do_queries

LEMMA WorkerRefines ==
  ASSUME IInv, NEW w \in Workers, adhoc_worker(w)
  PROVE  Batch!Next \/ UNCHANGED Batch!vars
<1> USE DEF Collected
<1>1. CASE RunJob(w)
  <2>1. job[w] \in Queries \ answered
    BY <1>1, ConstantFacts, SizesAssumption
    DEF RunJob, WorkerAt, IInv, TypeOK, OffVector, Holding, Queries
  <2>2. Batch!Answer(job[w])
    BY <1>1, <2>1 DEF RunJob, WorkerAt, Running, Batch!Answer
  <2> QED
    BY <2>1, <2>2 DEF Batch!Next, Queries, Batch!Queries
<1>2. CASE Lock(w) \/ ReadSize(w) \/ Leave(w) \/ TakeJob(w) \/ PopBack(w) \/ Unlock(w)
  BY <1>2 DEF Lock, ReadSize, Leave, TakeJob, PopBack, Unlock, Batch!vars
<1> QED
  BY <1>1, <1>2 DEF adhoc_worker

(* do_queries with its workers implements the batch that answers each query once and  *)
(* takes results only from a full set of answers.                                     *)
THEOREM Implements == Spec => KeepsPromise
<1>1. IInv /\ [Next]_vars => [Batch!Next]_(Batch!vars)
  <2> SUFFICES ASSUME IInv, [Next]_vars
               PROVE  Batch!Next \/ UNCHANGED Batch!vars
    OBVIOUS
  <2>1. CASE UNCHANGED vars
    BY <2>1 DEF vars, Collected, Batch!vars
  <2> QED
    BY <2>1, MainRefines, WorkerRefines DEF Next, Over
<1> QED
  BY <1>1, InitRefines, SpecInv, PTL DEF Spec, KeepsPromise, Batch!Spec

-----------------------------------------------------------------------------
(* ResultFile: the steps of results_to_file keep the layout of WrittenAsLaidOut, and a    *)
(* closed file passes _check_output.  There is no specification of the writer alone:      *)
(* these are lemmas about its steps, and theorems are made of them for KnnRun below.      *)

(* The loop counters are within their bounds, and the index is where they say. *)
WriterAt ==
  /\ writer.pc = "none" => writer = WriterClosed
  /\ writer.pc = "header" => writer.idx <= 7 /\ writer.i = 0 /\ writer.d = 0
  /\ writer.pc = "points" =>
       /\ writer.i <= num_queries /\ writer.j < k /\ writer.d \in Dimensions
       /\ writer.i = num_queries => writer.j = k - 1 /\ writer.d = 0
       /\ writer.idx = Index(writer.i + 1, k - writer.j, writer.d)
  /\ writer.pc = "closed" => writer.idx = Index(num_queries + 1, 1, 0)

WriterTypeOK ==
  /\ ids \in [train_id : Nat, query_id : Nat, res_id : Nat]
  /\ writer \in [pc : {"none", "header", "points", "closed"},
                 idx : Nat, i : Nat, j : Nat, d : Nat]
  /\ writer.pc # "none" => DOMAIN file = FileWords

(* The words of the header, and those of the points, before and behind the position. *)
HeaderLaid ==
  \A w \in 0 .. 13 : file[w] = IF w < Position THEN HeaderWord(Header(ids.res_id), w) ELSE 0

PointsLaid ==
  \A q \in 1 .. num_queries, n \in 1 .. k, d \in Dimensions :
    file[Index(q, n, d)] = IF Index(q, n, d) < Position THEN results[q][k - n + 1][d + 1] ELSE 0

WriterInv ==
  WriterTypeOK /\ WriterAt /\ (writer.pc # "none" => HeaderLaid /\ PointsLaid)

-----------------------------------------------------------------------------
LEMMA SizeFacts ==
  /\ num_queries \in Nat
  /\ k \in Nat /\ 0 < k
  /\ num_dimensions \in Nat /\ 0 < num_dimensions
  /\ WordRange \in Nat /\ 0 < WordRange
  BY SizesAssumption, DimensionsAssumption, WordRangeAssumption

(* Rows of n numbers follow each other without touching. *)
LEMMA RowsApart ==
  ASSUME NEW n \in Nat, NEW x \in Nat, NEW y \in Nat, x < y
  PROVE  x * n + n <= y * n
<1> DEFINE z == y - x - 1
<1>1. z \in Nat /\ y = x + 1 + z
  OBVIOUS
<1> HIDE DEF z
<1>2. y * n = x * n + n + z * n
  BY <1>1
<1>3. z * n \in Nat
  BY <1>1
<1>4. x * n \in Nat /\ y * n \in Nat
  OBVIOUS
<1> QED
  BY <1>2, <1>3, <1>4

(* The number of column a in row x of rows of n numbers. *)
Cell(n, x, a) == x * n + a

LEMMA CellRange ==
  ASSUME NEW n \in Nat, NEW x \in Nat, NEW y \in Nat, x < y, NEW a \in 0 .. n - 1
  PROVE  Cell(n, x, a) \in 0 .. y * n - 1
<1>1. x * n \in Nat /\ y * n \in Nat
  OBVIOUS
<1>2. x * n + n <= y * n
  BY RowsApart
<1> QED
  BY <1>1, <1>2 DEF Cell

(* The number tells row and column. *)
LEMMA CellInjective ==
  ASSUME NEW n \in Nat, NEW x \in Nat, NEW y \in Nat,
         NEW a \in 0 .. n - 1, NEW b \in 0 .. n - 1, Cell(n, x, a) = Cell(n, y, b)
  PROVE  x = y /\ a = b
<1>1. x * n \in Nat /\ y * n \in Nat /\ x * n + a = y * n + b
  BY DEF Cell
<1>2. ~(x < y)
  <2> SUFFICES ASSUME x < y PROVE FALSE
    OBVIOUS
  <2>1. x * n + n <= y * n
    BY RowsApart
  <2> QED
    BY <1>1, <2>1
<1>3. ~(y < x)
  <2> SUFFICES ASSUME y < x PROVE FALSE
    OBVIOUS
  <2>1. y * n + n <= x * n
    BY RowsApart
  <2> QED
    BY <1>1, <2>1
<1>4. x = y
  BY <1>2, <1>3
<1> QED
  BY <1>1, <1>4

(* The row of a neighbour among all of the file. *)
Row(q, n) == Cell(k, q - 1, n - 1)

LEMMA RowRange ==
  ASSUME NEW q \in Nat, 1 <= q, q <= num_queries, NEW n \in 1 .. k
  PROVE  Row(q, n) \in Nat /\ Row(q, n) < num_queries * k /\ num_queries * k \in Nat
<1>1. q - 1 \in Nat /\ q - 1 < num_queries /\ n - 1 \in 0 .. k - 1
  BY SizeFacts
<1>2. Row(q, n) \in 0 .. num_queries * k - 1
  BY <1>1, SizeFacts, CellRange DEF Row
<1>3. num_queries * k \in Nat
  BY SizeFacts
<1> QED
  BY <1>2, <1>3

LEMMA IndexRange ==
  ASSUME NEW q \in Nat, 1 <= q, q <= num_queries, NEW n \in 1 .. k, NEW d \in Dimensions
  PROVE  /\ Index(q, n, d) = 14 + Cell(num_dimensions, Row(q, n), d)
         /\ Index(q, n, d) \in 14 .. 13 + num_floats
<1>1. Row(q, n) \in Nat /\ Row(q, n) < num_queries * k /\ num_queries * k \in Nat
  BY RowRange
<1>2. d \in 0 .. num_dimensions - 1
  BY DEF Dimensions
<1>3. Cell(num_dimensions, Row(q, n), d) \in 0 .. num_floats - 1
  BY <1>1, <1>2, SizeFacts, CellRange DEF num_floats
<1>4. Index(q, n, d) = 14 + Cell(num_dimensions, Row(q, n), d)
  <2>1. Row(q, n) * num_dimensions \in Nat
    BY <1>1, SizeFacts
  <2> QED
    BY <1>2, <2>1, SizeFacts DEF Index, Row, Cell
<1>5. num_floats \in Nat
  BY <1>1, SizeFacts DEF num_floats
<1> QED
  BY <1>3, <1>4, <1>5

LEMMA IndexInjective ==
  ASSUME NEW q \in Nat, 1 <= q, q <= num_queries, NEW n \in 1 .. k, NEW d \in Dimensions,
         NEW p \in Nat, 1 <= p, p <= num_queries, NEW m \in 1 .. k, NEW e \in Dimensions,
         Index(q, n, d) = Index(p, m, e)
  PROVE  q = p /\ n = m /\ d = e
<1>1. Row(q, n) \in Nat /\ Row(p, m) \in Nat
  BY RowRange
<1>2. d \in 0 .. num_dimensions - 1 /\ e \in 0 .. num_dimensions - 1
  BY DEF Dimensions
<1>3. Cell(num_dimensions, Row(q, n), d) \in Nat /\ Cell(num_dimensions, Row(p, m), e) \in Nat
  <2>1. Row(q, n) * num_dimensions \in Nat /\ Row(p, m) * num_dimensions \in Nat
    BY <1>1, SizeFacts
  <2> QED
    BY <1>2, <2>1, SizeFacts DEF Cell
<1>4. Cell(num_dimensions, Row(q, n), d) = Cell(num_dimensions, Row(p, m), e)
  BY <1>3, IndexRange
<1>5. Row(q, n) = Row(p, m) /\ d = e
  BY <1>1, <1>2, <1>4, SizeFacts, CellInjective
<1>6. q - 1 = p - 1 /\ n - 1 = m - 1
  <2>1. q - 1 \in Nat /\ p - 1 \in Nat /\ n - 1 \in 0 .. k - 1 /\ m - 1 \in 0 .. k - 1
    BY SizeFacts
  <2> QED
    BY <1>5, <2>1, SizeFacts, CellInjective DEF Row
<1> QED
  BY <1>5, <1>6, SizeFacts

LEMMA FileSize ==
  /\ num_floats \in Nat
  /\ file_size = 56 + 4 * num_floats
  /\ FileWords = 0 .. 13 + num_floats
  /\ IsFiniteSet(FileWords) /\ Cardinality(FileWords) = 14 + num_floats
  /\ Index(num_queries + 1, 1, 0) = 14 + num_floats
<1> USE SizeFacts
<1>1. num_queries * k \in Nat
  OBVIOUS
<1>2. num_floats \in Nat
  BY <1>1 DEF num_floats
<1>3. file_size = 56 + 4 * num_floats
  BY DEF file_size
<1>4. file_size \div 4 = 14 + num_floats
  BY <1>2, <1>3
<1>5. FileWords = 0 .. 13 + num_floats
  BY <1>2, <1>4 DEF FileWords
<1>6. IsFiniteSet(FileWords) /\ Cardinality(FileWords) = 14 + num_floats
  <2>1. 13 + num_floats \in Int /\ ~(0 > 13 + num_floats)
    BY <1>2
  <2> QED
    BY <1>2, <1>5, <2>1, FS_Interval
<1>7. Index(num_queries + 1, 1, 0) = 14 + num_floats
  BY <1>1, <1>2 DEF Index, num_floats
<1> QED
  BY <1>2, <1>3, <1>5, <1>6, <1>7

-----------------------------------------------------------------------------
(* A store of one word, and of two, at x. *)
LEMMA StoredWord ==
  ASSUME NEW f, DOMAIN f = FileWords, NEW x \in Nat, NEW a
  PROVE  /\ DOMAIN StoreWords(f, x, <<a>>) = FileWords
         /\ \A w \in FileWords : StoreWords(f, x, <<a>>)[w] = IF w = x THEN a ELSE f[w]
<1>1. ASSUME NEW w \in FileWords
      PROVE  StoreWords(f, x, <<a>>)[w] = IF w = x THEN a ELSE f[w]
  <2>1. w \in Nat /\ Len(<<a>>) = 1 /\ <<a>>[1] = a
    BY FileSize
  <2>2. w \in x .. x + 1 - 1 <=> w = x
    BY <2>1
  <2>3. w = x => w - x + 1 = 1
    BY <2>1
  <2> QED
    BY <2>1, <2>2, <2>3 DEF StoreWords
<1> QED
  BY <1>1 DEF StoreWords

LEMMA StoredLong ==
  ASSUME NEW f, DOMAIN f = FileWords, NEW x \in Nat, NEW a, NEW b
  PROVE  /\ DOMAIN StoreWords(f, x, <<a, b>>) = FileWords
         /\ \A w \in FileWords : StoreWords(f, x, <<a, b>>)[w] =
              IF w = x THEN a ELSE IF w = x + 1 THEN b ELSE f[w]
<1>1. ASSUME NEW w \in FileWords
      PROVE  StoreWords(f, x, <<a, b>>)[w] = IF w = x THEN a ELSE IF w = x + 1 THEN b ELSE f[w]
  <2>1. w \in Nat /\ Len(<<a, b>>) = 2 /\ <<a, b>>[1] = a /\ <<a, b>>[2] = b
    BY FileSize
  <2>2. w \in x .. x + 2 - 1 <=> w = x \/ w = x + 1
    BY <2>1
  <2>3. (w = x => w - x + 1 = 1) /\ (w = x + 1 => w # x /\ w - x + 1 = 2)
    BY <2>1
  <2> QED
    BY <2>1, <2>2, <2>3 DEF StoreWords
<1> QED
  BY <1>1 DEF StoreWords

LEMMA OpenKeeps == WriterInv /\ OpenResult => WriterInv'
<1> SUFFICES ASSUME WriterInv, OpenResult PROVE WriterInv'
  OBVIOUS
<1>1. /\ writer' = [pc |-> "header", idx |-> 0, i |-> 0, j |-> 0, d |-> 0]
      /\ file' = [w \in FileWords |-> 0] /\ ids' = ids
  BY DEF WriterInv, WriterAt, WriterClosed, OpenResult
<1>2. WriterTypeOK'
  BY <1>1 DEF WriterInv, WriterTypeOK
<1>3. WriterAt'
  BY <1>1 DEF WriterAt
<1>4. Position' = 0
  BY <1>1 DEF Position
<1>5. HeaderLaid'
  BY <1>1, <1>4, FileSize DEF HeaderLaid
<1>6. PointsLaid'
  <2> SUFFICES ASSUME NEW q \in 1 .. num_queries, NEW n \in 1 .. k, NEW d \in Dimensions
               PROVE  file'[Index(q, n, d)] = 0 /\ ~(Index(q, n, d) < 0)
    BY <1>4 DEF PointsLaid
  <2> QED
    BY <1>1, IndexRange, FileSize
<1> QED
  BY <1>2, <1>3, <1>5, <1>6 DEF WriterInv

LEMMA StoreHeaderKeeps == WriterInv /\ StoreHeader => WriterInv'
<1> SUFFICES ASSUME WriterInv, StoreHeader PROVE WriterInv'
  OBVIOUS
<1> DEFINE x == writer.idx
           header == Header(ids'.res_id)
<1>1. x \in 0 .. 6 /\ writer.pc = "header" /\ writer' = [writer EXCEPT !.idx = x + 1]
  BY DEF WriterInv, WriterTypeOK, StoreHeader
<1>2. PICK r \in ResultIds :
        /\ ids' = IF x = 3 THEN [ids EXCEPT !.res_id = r] ELSE ids
        /\ file' = StoreWords(file, 2 * x, <<header[x + 1] % WordRange,
                                              header[x + 1] \div WordRange>>)
  BY DEF StoreHeader
<1>3. Position = 2 * x /\ Position' = 2 * x + 2
  BY <1>1 DEF WriterInv, WriterTypeOK, Position
<1>4. /\ DOMAIN file' = FileWords
      /\ \A w \in FileWords :
           file'[w] = IF w = 2 * x THEN header[x + 1] % WordRange
                      ELSE IF w = 2 * x + 1 THEN header[x + 1] \div WordRange
                      ELSE file[w]
  <2> DEFINE y == 2 * x
             low == header[x + 1] % WordRange
             high == header[x + 1] \div WordRange
  <2>1. DOMAIN file = FileWords /\ y \in Nat
    BY <1>1 DEF WriterInv, WriterTypeOK
  <2>2. file' = StoreWords(file, y, <<low, high>>)
    BY <1>2
  <2> HIDE DEF y, low, high
  <2>3. DOMAIN StoreWords(file, y, <<low, high>>) = FileWords
    BY <2>1, StoredLong
  <2>4. \A w \in FileWords : StoreWords(file, y, <<low, high>>)[w] =
          IF w = y THEN low ELSE IF w = y + 1 THEN high ELSE file[w]
    BY <2>1, StoredLong
  <2> QED
    BY <2>2, <2>3, <2>4 DEF y, low, high
<1>5. WriterTypeOK'
  <2>1. r \in Nat
    BY ResultIdsAssumption
  <2>2. ids' \in [train_id : Nat, query_id : Nat, res_id : Nat]
    BY <1>2, <2>1 DEF WriterInv, WriterTypeOK
  <2>3. writer' \in [pc : {"none", "header", "points", "closed"},
                     idx : Nat, i : Nat, j : Nat, d : Nat]
    BY <1>1 DEF WriterInv, WriterTypeOK
  <2> QED
    BY <1>4, <2>2, <2>3 DEF WriterTypeOK
<1>6. WriterAt'
  BY <1>1 DEF WriterInv, WriterTypeOK, WriterAt
<1>7. Header(ids.res_id)' = header
  BY <1>2 DEF WriterInv, WriterTypeOK, Header
<1>8. HeaderLaid'
  <2> SUFFICES ASSUME NEW w \in 0 .. 13
               PROVE  file'[w] = IF w < 2 * x + 2 THEN HeaderWord(header, w) ELSE 0
    BY <1>3, <1>7 DEF HeaderLaid
  <2>1. w \in FileWords
    BY FileSize
  <2>2. CASE w = 2 * x
    BY <1>1, <1>4, <2>1, <2>2 DEF HeaderWord
  <2>3. CASE w = 2 * x + 1
    BY <1>1, <1>4, <2>1, <2>3 DEF HeaderWord
  <2>4. CASE w > 2 * x + 1
    <3>1. file[w] = 0
      BY <1>1, <1>3, <2>4 DEF WriterInv, HeaderLaid
    <3> QED
      BY <1>1, <1>4, <2>1, <2>4, <3>1
  <2>5. CASE w < 2 * x
    <3>1. file[w] = HeaderWord(Header(ids.res_id), w)
      BY <1>1, <1>3, <2>5 DEF WriterInv, HeaderLaid
    <3>2. (w \div 2) + 1 \in 1 .. x
      BY <1>1, <2>5
    <3>3. Header(ids.res_id)[(w \div 2) + 1] = header[(w \div 2) + 1]
      BY <1>1, <1>2, <3>2 DEF WriterInv, WriterTypeOK, Header
    <3>4. HeaderWord(Header(ids.res_id), w) = HeaderWord(header, w)
      BY <3>3 DEF HeaderWord
    <3> QED
      BY <1>1, <1>4, <2>1, <2>5, <3>1, <3>4
  <2> QED
    BY <1>1, <2>2, <2>3, <2>4, <2>5
<1>9. PointsLaid'
  <2> SUFFICES ASSUME NEW q \in 1 .. num_queries, NEW n \in 1 .. k, NEW d \in Dimensions
               PROVE  file'[Index(q, n, d)] = 0 /\ ~(Index(q, n, d) < 2 * x + 2)
    BY <1>3 DEF PointsLaid
  <2> DEFINE z == Index(q, n, d)
  <2>1. z >= 14 /\ z \in FileWords /\ z \in Nat
    BY IndexRange, FileSize
  <2>2. file[z] = 0
    BY <1>1, <1>3, <2>1 DEF WriterInv, PointsLaid
  <2>3. z # 2 * x /\ z # 2 * x + 1 /\ ~(z < 2 * x + 2)
    BY <1>1, <2>1
  <2> HIDE DEF x, z, header
  <2>4. file'[z] = 0
    BY <1>4, <2>1, <2>2, <2>3
  <2> QED
    BY <2>3, <2>4 DEF z
<1> QED
  BY <1>5, <1>6, <1>8, <1>9 DEF WriterInv

(* idx *= 2: the index of a 64-bit number becomes that of a float. *)
LEMMA HeaderDoneKeeps == WriterInv /\ HeaderDone => WriterInv'
<1> SUFFICES ASSUME WriterInv, HeaderDone PROVE WriterInv'
  OBVIOUS
<1>1. /\ writer.pc = "header" /\ writer.idx = 7 /\ writer.i = 0 /\ writer.d = 0
      /\ writer' = [writer EXCEPT !.pc = "points", !.idx = 2 * @, !.j = k - 1]
      /\ UNCHANGED <<ids, results, file>>
  BY DEF WriterInv, WriterAt, HeaderDone
<1>2. WriterTypeOK'
  <2>1. k - 1 \in Nat /\ 2 * writer.idx \in Nat
    BY <1>1, SizeFacts
  <2>2. writer' \in [pc : {"none", "header", "points", "closed"},
                     idx : Nat, i : Nat, j : Nat, d : Nat]
    BY <1>1, <2>1 DEF WriterInv, WriterTypeOK
  <2> QED
    BY <1>1, <2>2 DEF WriterInv, WriterTypeOK
<1>3. Index(1, 1, 0) = 14
  BY SizeFacts DEF Index
<1>4. WriterAt'
  <2>1. /\ writer'.pc = "points" /\ writer'.idx = 14 /\ writer'.i = 0 /\ writer'.j = k - 1
        /\ writer'.d = 0
    BY <1>1, SizeFacts DEF WriterInv, WriterTypeOK
  <2>2. k - (k - 1) = 1 /\ 0 \in Dimensions
    BY SizeFacts DEF Dimensions
  <2> QED
    BY <1>3, <2>1, <2>2, SizeFacts DEF WriterAt
<1>5. Position = 14 /\ Position' = 14
  BY <1>1 DEF WriterInv, WriterTypeOK, Position
<1>6. HeaderLaid' /\ PointsLaid'
  BY <1>1, <1>5 DEF WriterInv, HeaderLaid, PointsLaid, Header
<1> QED
  BY <1>2, <1>4, <1>6 DEF WriterInv

(* The next coordinate is for the next word: of the point, the neighbour or the query. *)
LEMMA NextWord ==
  ASSUME NEW q \in Nat, NEW n \in Nat, NEW d \in Nat
  PROVE  /\ Index(q + 1, n + 1, d + 1) = Index(q + 1, n + 1, d) + 1
         /\ Index(q + 1, n + 2, 0) = Index(q + 1, n + 1, num_dimensions - 1) + 1
         /\ Index(q + 2, 1, 0) = Index(q + 1, k, num_dimensions - 1) + 1
<1> DEFINE D == num_dimensions
<1>1. q * k \in Nat /\ (q * k + n) * D \in Nat /\ q * k + n \in Nat
  BY SizeFacts
<1>2. (q * k + n + 1) * D = (q * k + n) * D + D
  BY <1>1, SizeFacts
<1>3. (q + 1) * k = q * k + k
  BY SizeFacts
<1>4. (q * k + k) * D = (q * k + (k - 1)) * D + D
  <2>1. q * k + (k - 1) \in Nat /\ q * k + k = q * k + (k - 1) + 1
    BY <1>1, SizeFacts
  <2> QED
    BY <2>1, SizeFacts
<1>5. Index(q + 1, n + 1, d) = 14 + (q * k + n) * D + d
  BY SizeFacts DEF Index
<1>6. Index(q + 1, n + 1, d + 1) = 14 + (q * k + n) * D + (d + 1)
  BY SizeFacts DEF Index
<1>7. Index(q + 1, n + 1, D - 1) = 14 + (q * k + n) * D + (D - 1)
  BY SizeFacts DEF Index
<1>8. Index(q + 1, n + 2, 0) = 14 + (q * k + n + 1) * D
  BY SizeFacts DEF Index
<1>9. Index(q + 1, k, D - 1) = 14 + (q * k + (k - 1)) * D + (D - 1)
  BY SizeFacts DEF Index
<1>10. Index(q + 2, 1, 0) = 14 + (q * k + k) * D
  BY <1>3, SizeFacts DEF Index
<1>11. (q * k + (k - 1)) * D \in Nat
  BY <1>1, SizeFacts
<1> QED
  BY <1>1, <1>2, <1>4, <1>5, <1>6, <1>7, <1>8, <1>9, <1>10, <1>11, SizeFacts

LEMMA NextStoreAt ==
  ASSUME WriterInv, writer.pc = "points", writer.i < num_queries, writer' = NextStore(writer)
  PROVE  /\ writer' \in [pc : {"points"}, idx : Nat, i : Nat, j : Nat, d : Nat]
         /\ writer'.idx = writer.idx + 1
         /\ WriterAt'
<1> DEFINE s == writer
           Type == [pc : {"points"}, idx : Nat, i : Nat, j : Nat, d : Nat]
<1>1. /\ s \in Type
      /\ s.j < k /\ s.d \in Dimensions /\ s.idx = Index(s.i + 1, k - s.j, s.d)
  BY DEF WriterInv, WriterTypeOK, WriterAt
<1>2. k - s.j - 1 \in Nat /\ k - 1 \in Nat /\ s.d + 1 <= num_dimensions
  BY <1>1, SizeFacts DEF Dimensions
<1>3. CASE s.d + 1 < num_dimensions
  <2>1. writer' = [pc |-> "points", idx |-> s.idx + 1, i |-> s.i, j |-> s.j, d |-> s.d + 1]
    BY <1>1, <1>3 DEF NextStore
  <2>2. /\ writer' \in Type /\ writer'.idx = s.idx + 1
        /\ writer'.i = s.i /\ writer'.j = s.j /\ writer'.d = s.d + 1
    BY <1>1, <1>2, <1>3, <2>1
  <2>3. s.d + 1 \in Dimensions
    BY <1>1, <1>3, SizeFacts DEF Dimensions
  <2>4. Index(s.i + 1, k - s.j, s.d + 1) = s.idx + 1
    <3>1. s.d \in Nat /\ k - s.j = (k - s.j - 1) + 1
      BY <1>1, <1>2, SizeFacts DEF Dimensions
    <3> QED
      BY <1>1, <1>2, <3>1, NextWord
  <2> QED
    BY <1>1, <2>2, <2>3, <2>4, SizeFacts DEF WriterAt
<1>4. CASE ~(s.d + 1 < num_dimensions) /\ s.j > 0
  <2>1. writer' = [pc |-> "points", idx |-> s.idx + 1, i |-> s.i, j |-> s.j - 1, d |-> 0]
    BY <1>1, <1>4 DEF NextStore
  <2>2. /\ writer' \in Type /\ writer'.idx = s.idx + 1
        /\ writer'.i = s.i /\ writer'.j = s.j - 1 /\ writer'.d = 0
    BY <1>1, <1>2, <1>4, <2>1
  <2>3. 0 \in Dimensions /\ s.d = num_dimensions - 1
    BY <1>1, <1>2, <1>4, SizeFacts DEF Dimensions
  <2>4. Index(s.i + 1, k - (s.j - 1), 0) = s.idx + 1
    <3>1. k - s.j = (k - s.j - 1) + 1 /\ k - (s.j - 1) = (k - s.j - 1) + 2 /\ 0 \in Nat
      BY <1>1, <1>2, SizeFacts
    <3>2. Index(s.i + 1, (k - s.j - 1) + 2, 0)
            = Index(s.i + 1, (k - s.j - 1) + 1, num_dimensions - 1) + 1
      BY <1>1, <1>2, <3>1, NextWord
    <3> QED
      BY <1>1, <2>3, <3>1, <3>2
  <2> QED
    BY <1>1, <1>4, <2>2, <2>3, <2>4, SizeFacts DEF WriterAt
<1>5. CASE ~(s.d + 1 < num_dimensions) /\ ~(s.j > 0)
  <2>1. writer' = [pc |-> "points", idx |-> s.idx + 1, i |-> s.i + 1, j |-> k - 1, d |-> 0]
    BY <1>1, <1>5 DEF NextStore
  <2>2. /\ writer' \in Type /\ writer'.idx = s.idx + 1
        /\ writer'.i = s.i + 1 /\ writer'.j = k - 1 /\ writer'.d = 0
    BY <1>1, <1>2, <1>5, <2>1
  <2>3. 0 \in Dimensions /\ s.d = num_dimensions - 1 /\ s.j = 0
    BY <1>1, <1>2, <1>5, SizeFacts DEF Dimensions
  <2>4. Index((s.i + 1) + 1, k - (k - 1), 0) = s.idx + 1
    <3>1. k - s.j = k /\ k - (k - 1) = 1 /\ (s.i + 1) + 1 = s.i + 2 /\ 0 \in Nat
      BY <1>1, <2>3, SizeFacts
    <3>2. Index(s.i + 2, 1, 0) = Index(s.i + 1, k, num_dimensions - 1) + 1
      BY <1>1, <3>1, NextWord
    <3> QED
      BY <1>1, <2>3, <3>1, <3>2
  <2> QED
    BY <1>1, <2>2, <2>3, <2>4, SizeFacts DEF WriterAt
<1> QED
  BY <1>3, <1>4, <1>5

LEMMA StoreCoordinateKeeps == WriterInv /\ StoreCoordinate => WriterInv'
<1> SUFFICES ASSUME WriterInv, StoreCoordinate PROVE WriterInv'
  OBVIOUS
<1> DEFINE z == writer.idx
           q0 == writer.i + 1
           n0 == k - writer.j
           v == results[q0][writer.j + 1][writer.d + 1]
<1>1. /\ writer.pc = "points" /\ writer.i < num_queries /\ writer' = NextStore(writer)
      /\ file' = StoreWords(file, z, <<v>>) /\ UNCHANGED <<ids, results>>
  BY DEF StoreCoordinate
<1>2. /\ q0 \in Nat /\ 1 <= q0 /\ q0 <= num_queries /\ n0 \in 1 .. k
      /\ writer.d \in Dimensions /\ z = Index(q0, n0, writer.d) /\ z \in Nat
      /\ k - n0 + 1 = writer.j + 1 /\ DOMAIN file = FileWords
  BY <1>1, SizeFacts DEF WriterInv, WriterTypeOK, WriterAt
<1>3. z \in 14 .. 13 + num_floats /\ z \in FileWords
  BY <1>2, IndexRange, FileSize
<1>4. /\ DOMAIN file' = FileWords
      /\ \A w \in FileWords : file'[w] = IF w = z THEN v ELSE file[w]
  <2> HIDE DEF z, v
  <2> QED
    BY <1>1, <1>2, StoredWord
<1>5. /\ writer' \in [pc : {"points"}, idx : Nat, i : Nat, j : Nat, d : Nat]
      /\ writer'.idx = z + 1
      /\ WriterAt'
  BY <1>1, NextStoreAt
<1>6. WriterTypeOK'
  BY <1>1, <1>2, <1>4, <1>5 DEF WriterInv, WriterTypeOK
<1>7. Position = z /\ Position' = z + 1
  BY <1>1, <1>5 DEF Position
<1>8. HeaderLaid'
  <2> SUFFICES ASSUME NEW w \in 0 .. 13
               PROVE  file'[w] = IF w < z + 1 THEN HeaderWord(Header(ids.res_id), w) ELSE 0
    BY <1>1, <1>7 DEF HeaderLaid, Header
  <2>1. w # z /\ w < z /\ w < z + 1 /\ w \in FileWords
    BY <1>3, FileSize
  <2>2. file[w] = HeaderWord(Header(ids.res_id), w)
    BY <1>1, <1>7, <2>1 DEF WriterInv, HeaderLaid
  <2> QED
    BY <1>4, <2>1, <2>2
<1>9. PointsLaid'
  <2> SUFFICES ASSUME NEW q \in 1 .. num_queries, NEW n \in 1 .. k, NEW d \in Dimensions
               PROVE  file'[Index(q, n, d)] =
                        IF Index(q, n, d) < z + 1 THEN results[q][k - n + 1][d + 1] ELSE 0
    BY <1>1, <1>7 DEF PointsLaid
  <2> DEFINE y == Index(q, n, d)
  <2>1. y \in FileWords /\ y \in Nat
    BY IndexRange, FileSize
  <2>2. file[y] = IF y < z THEN results[q][k - n + 1][d + 1] ELSE 0
    BY <1>1, <1>7 DEF WriterInv, PointsLaid
  <2>3. y = z => q = q0 /\ n = n0 /\ d = writer.d
    BY <1>2, IndexInjective
  <2>4. y = z => v = results[q][k - n + 1][d + 1]
    BY <1>2, <2>3
  <2> HIDE DEF y, z, v
  <2>5. file'[y] = IF y < z + 1 THEN results[q][k - n + 1][d + 1] ELSE 0
    BY <1>3, <1>4, <2>1, <2>2, <2>4
  <2> QED
    BY <2>5 DEF y
<1> QED
  BY <1>5, <1>6, <1>8, <1>9 DEF WriterInv

LEMMA CloseKeeps == WriterInv /\ CloseResult => WriterInv'
<1> SUFFICES ASSUME WriterInv, CloseResult PROVE WriterInv'
  OBVIOUS
<1>1. /\ writer.pc = "points" /\ writer.i = num_queries
      /\ writer' = [writer EXCEPT !.pc = "closed"] /\ UNCHANGED <<ids, results, file>>
  BY DEF CloseResult
<1>2. WriterTypeOK'
  BY <1>1 DEF WriterInv, WriterTypeOK
<1>3. k - (k - 1) = 1
  BY SizeFacts
<1>4. WriterAt'
  BY <1>1, <1>3 DEF WriterInv, WriterTypeOK, WriterAt
<1>5. Position' = Position
  BY <1>1 DEF WriterInv, WriterTypeOK, Position
<1>6. HeaderLaid' /\ PointsLaid'
  BY <1>1, <1>5 DEF WriterInv, HeaderLaid, PointsLaid, Header
<1> QED
  BY <1>2, <1>4, <1>6 DEF WriterInv

LEMMA WriterKeeps == WriterInv /\ results_to_file => WriterInv'
  BY OpenKeeps, StoreHeaderKeeps, HeaderDoneKeeps, StoreCoordinateKeeps, CloseKeeps
  DEF results_to_file

(* Where results_to_file ends the process the file is as it was, or the writer has not begun. *)
LEMMA WriterExits == WriterInv /\ results_to_file_exits => WriterInv'
<1> SUFFICES ASSUME WriterInv, results_to_file_exits PROVE WriterInv'
  OBVIOUS
<1>1. CASE OpenFails
  BY <1>1 DEF OpenFails, WriterInv, WriterTypeOK, WriterAt
<1>2. CASE urandomFails \/ UnmapFails
  BY <1>2 DEF urandomFails, UnmapFails, resultVars, WriterInv, WriterTypeOK, WriterAt, HeaderLaid,
     PointsLaid, Header, Position
<1> QED
  BY <1>1, <1>2 DEF results_to_file_exits

LEMMA WriterStutters == WriterInv /\ UNCHANGED resultVars => WriterInv'
  BY DEF resultVars, WriterInv, WriterTypeOK, WriterAt, HeaderLaid, PointsLaid, Header, Position

-----------------------------------------------------------------------------
(* The size of the file and the index of its last float are computed apart and agree. *)
LEMMA LaidOut == WriterInv => WrittenAsLaidOut
<1> SUFFICES ASSUME WriterInv, writer.pc # "none" PROVE WrittenAsLaidOut
  BY DEF WrittenAsLaidOut
<1>1. Cardinality(DOMAIN file) = 14 + num_floats /\ num_floats \in Nat
  BY FileSize DEF WriterInv, WriterTypeOK
<1>2. CASE writer.pc = "header"
  <2>1. Position = 2 * writer.idx /\ 2 * writer.idx <= 14
    BY <1>2 DEF WriterInv, WriterTypeOK, WriterAt, Position
  <2> QED
    BY <1>1, <1>2, <2>1 DEF WriterInv, WriterTypeOK, HeaderLaid, PointsLaid, WrittenAsLaidOut
<1>3. CASE writer.pc = "points"
  <2>1. Position = Index(writer.i + 1, k - writer.j, writer.d)
    BY <1>3 DEF WriterInv, WriterAt, Position
  <2>2. /\ writer.i + 1 \in Nat /\ 1 <= writer.i + 1 /\ k - writer.j \in 1 .. k
        /\ writer.d \in Dimensions /\ writer.i \in Nat /\ writer.i <= num_queries
    BY <1>3, SizeFacts DEF WriterInv, WriterTypeOK, WriterAt
  <2>3. CASE writer.i < num_queries
    <3>1. Position \in 14 .. 13 + num_floats
      BY <2>1, <2>2, <2>3, SizeFacts, IndexRange
    <3> QED
      BY <1>1, <1>3, <3>1 DEF WriterInv, HeaderLaid, PointsLaid, WrittenAsLaidOut
  <2>4. CASE writer.i = num_queries
    <3>1. k - writer.j = 1 /\ writer.d = 0
      BY <1>3, <2>4, SizeFacts DEF WriterInv, WriterAt
    <3>2. Position = 14 + num_floats
      BY <2>1, <2>4, <3>1, FileSize
    <3> QED
      BY <1>1, <1>3, <3>2 DEF WriterInv, HeaderLaid, PointsLaid, WrittenAsLaidOut
  <2> QED
    BY <2>2, <2>3, <2>4, SizeFacts
<1>4. CASE writer.pc = "closed"
  <2>1. Position = 14 + num_floats
    BY <1>4, FileSize DEF WriterInv, WriterAt, Position
  <2> QED
    BY <1>1, <1>4, <2>1 DEF WriterInv, HeaderLaid, PointsLaid, WrittenAsLaidOut
<1> QED
  BY <1>2, <1>3, <1>4 DEF WriterInv, WriterTypeOK

(* A number is put together again from its two words. *)
LEMMA LongOfWords ==
  ASSUME NEW x \in Nat
  PROVE  (x % WordRange) + WordRange * (x \div WordRange) = x
  BY SizeFacts

LEMMA LongOfHeader ==
  ASSUME NEW f, NEW header, NEW x \in Nat, header[x + 1] \in Nat,
         f[2 * x] = HeaderWord(header, 2 * x), f[2 * x + 1] = HeaderWord(header, 2 * x + 1)
  PROVE  Long(f, x) = header[x + 1]
<1>1. (2 * x) \div 2 = x /\ (2 * x) % 2 = 0
  OBVIOUS
<1>2. (2 * x + 1) \div 2 = x /\ (2 * x + 1) % 2 = 1
  OBVIOUS
<1>3. f[2 * x] = header[x + 1] % WordRange
  BY <1>1 DEF HeaderWord
<1>4. f[2 * x + 1] = header[x + 1] \div WordRange
  BY <1>2 DEF HeaderWord
<1> QED
  BY <1>3, <1>4, LongOfWords DEF Long

(* Points of num_dimensions coordinates. *)
PointsWhole ==
  \A q \in 1 .. num_queries, n \in 1 .. k :
    results[q][n] = [d \in 1 .. num_dimensions |-> results[q][n][d]]

(* What is read of a closed file: the header, and neighbour n of query q. *)
LEMMA ClosedHeader ==
  ASSUME WriterInv, writer.pc = "closed", NEW x \in 0 .. 6
  PROVE  Long(file, x) = Header(ids.res_id)[x + 1]
<1> DEFINE header == Header(ids.res_id)
<1>1. header[x + 1] \in Nat
  <2>1. RESULT \in Nat
    BY SizeFacts, FileTypesAssumption
  <2> QED
    BY <2>1, SizeFacts DEF WriterInv, WriterTypeOK, Header
<1>2. Position = 14 + num_floats /\ num_floats \in Nat
  BY FileSize DEF WriterInv, WriterAt, Position
<1>3. \A w \in 0 .. 13 : file[w] = HeaderWord(header, w)
  BY <1>2 DEF WriterInv, HeaderLaid
<1>4. 2 * x \in 0 .. 13 /\ 2 * x + 1 \in 0 .. 13 /\ x \in Nat
  OBVIOUS
<1>5. file[2 * x] = HeaderWord(header, 2 * x) /\ file[2 * x + 1] = HeaderWord(header, 2 * x + 1)
  BY <1>3, <1>4
<1> HIDE DEF header
<1>6. Long(file, x) = header[x + 1]
  BY <1>1, <1>4, <1>5, LongOfHeader
<1> QED
  BY <1>6 DEF header

LEMMA ClosedPoint ==
  ASSUME WriterInv, writer.pc = "closed",
         NEW q \in 1 .. num_queries, NEW n \in 1 .. k, NEW d \in Dimensions
  PROVE  file[Index(q, n, d)] = results[q][k - n + 1][d + 1]
<1>1. Position = 14 + num_floats /\ num_floats \in Nat
  BY FileSize DEF WriterInv, WriterAt, Position
<1>2. Index(q, n, d) \in 14 .. 13 + num_floats
  BY IndexRange
<1>3. Index(q, n, d) < Position
  BY <1>1, <1>2
<1> QED
  BY <1>3 DEF WriterInv, PointsLaid

LEMMA ChecksOut ==
  ASSUME WriterInv, writer.pc = "closed", PointsWhole
  PROVE  _check_output(file)
<1>1. 4 * Cardinality(DOMAIN file) = file_size
  BY FileSize DEF WriterInv, WriterTypeOK
<1>2. \A x \in 0 .. 6 : Long(file, x) = Header(ids.res_id)[x + 1]
  BY ClosedHeader
<1>3. ASSUME NEW x \in 0 .. num_queries - 1, NEW j \in 0 .. k - 1
      PROVE  PointsFrom(file, 7, num_queries * k, num_dimensions)[x * k + j + 1]
               = results[x + 1][k - j]
  <2> DEFINE q == x + 1
             n == j + 1
             row == x * k + j + 1
  <2>1. q \in 1 .. num_queries /\ n \in 1 .. k /\ k - n + 1 = k - j /\ k - j \in 1 .. k
    BY SizeFacts
  <2>2. row \in 1 .. num_queries * k
    <3>1. Row(q, n) \in Nat /\ Row(q, n) < num_queries * k /\ num_queries * k \in Nat
      BY <2>1, SizeFacts, RowRange
    <3>2. Row(q, n) = x * k + j /\ x * k + j \in Nat
      BY SizeFacts DEF Row, Cell
    <3> QED
      BY <3>1, <3>2
  <2>3. ASSUME NEW d \in 1 .. num_dimensions
        PROVE  file[2 * 7 + (row - 1) * num_dimensions + d - 1] = results[q][k - j][d]
    <3>1. d - 1 \in Dimensions /\ (d - 1) + 1 = d
      BY SizeFacts DEF Dimensions
    <3>2. Index(q, n, d - 1) = 2 * 7 + (row - 1) * num_dimensions + d - 1
      <4>1. x * k + j \in Nat /\ row - 1 = x * k + j /\ (q - 1) * k + (n - 1) = x * k + j
        BY SizeFacts
      <4>2. (x * k + j) * num_dimensions \in Nat
        BY <4>1, SizeFacts
      <4> QED
        BY <4>1, <4>2 DEF Index
    <3> QED
      BY <2>1, <3>1, <3>2, ClosedPoint
  <2>4. PointsFrom(file, 7, num_queries * k, num_dimensions)[row]
          = [d \in 1 .. num_dimensions |->
               file[2 * 7 + (row - 1) * num_dimensions + d - 1]]
    BY <2>2 DEF PointsFrom
  <2>5. results[q][k - j] = [d \in 1 .. num_dimensions |-> results[q][k - j][d]]
    BY <2>1 DEF PointsWhole
  <2> HIDE DEF q, row
  <2>6. PointsFrom(file, 7, num_queries * k, num_dimensions)[row] = results[q][k - j]
    BY <2>3, <2>4, <2>5
  <2> QED
    BY <2>6 DEF q, row
<1> QED
  BY <1>1, <1>2, <1>3 DEF _check_output

-----------------------------------------------------------------------------
(* KnnRun: the composition. *)

(* The input files are what the generators wrote, and what main read from them. *)
InputsInv ==
  /\ \E t \in TrainingSets :
       /\ data_in = training_data(train_id, t, num_dimensions)
       /\ t_info = [file_type |-> TRAINING, id |-> train_id, num_pts |-> num_training_pts,
                    num_dimensions |-> num_dimensions, points |-> t]
  /\ \E t \in QuerySets :
       /\ query_in = query_file(query_id, t, num_dimensions, k)
       /\ q_info = [file_type |-> QUERY, id |-> query_id, num_queries |-> num_queries,
                    num_dimensions |-> num_dimensions, k |-> k, points |-> t]

(* Whose results have not been taken yet, and whose have. *)
Uncollected(q) == main \in {"create", "join"} \/ (main = "collect" /\ q >= i)

Taken(q) == (main = "collect" /\ q < i) \/ main \in {"done", "exit"}

(* A queue that has not been emptied holds a right answer, or nothing yet. *)
QueuesInv ==
  /\ DOMAIN queues = Queries
  /\ \A q \in Queries : Uncollected(q) =>
       IF q \in answered
       THEN queues[q] \subseteq 1 .. num_training_pts /\ IsNearest(Problem(q), queues[q])
       ELSE queues[q] = {}

(* The rows r, the farthest first, are an answer to query q. *)
IsResult(q, r) ==
  /\ \A m, n \in 1 .. k : m < n => r[m] # r[n] /\ DistanceTo(q, r[m]) >= DistanceTo(q, r[n])
  /\ IsNearest(Problem(q), {r[n] : n \in 1 .. k})

ResultsInv ==
  /\ DOMAIN results = Queries
  /\ \A q \in Queries : Taken(q) =>
       \E r \in [1 .. k -> 1 .. num_training_pts] :
         IsResult(q, r) /\ results[q] = [n \in 1 .. k |-> t_info.points[r[n]]]

(* The writer is at work between the last result taken and the return, or the exit. *)
PhaseInv ==
  /\ writer.pc # "none" => (main = "collect" /\ i > num_queries) \/ main \in {"done", "exit"}
  /\ main = "done" => writer.pc = "closed"
  /\ ids.train_id = train_id /\ ids.query_id = query_id

RunInv == IInv /\ InputsInv /\ QueuesInv /\ ResultsInv /\ PhaseInv /\ WriterInv

-----------------------------------------------------------------------------
(* The formats. *)

(* The word of coordinate d of point i behind a header. *)
LEMMA DivideCell ==
  ASSUME NEW n \in Nat, NEW x \in Nat, NEW a \in 0 .. n - 1
  PROVE  (x * n + a) \div n = x /\ (x * n + a) % n = a
<1> DEFINE w == x * n + a
           y == w \div n
           b == w % n
<1>1. x * n \in Nat /\ w \in Nat /\ n > 0
  OBVIOUS
<1>2. y \in Nat /\ b \in 0 .. n - 1 /\ y * n + b = w
  <2> HIDE DEF w
  <2> QED
    BY <1>1
<1>3. Cell(n, x, a) = Cell(n, y, b)
  BY <1>2 DEF Cell
<1> HIDE DEF y, b
<1>4. x = y /\ a = b
  BY <1>2, <1>3, CellInjective
<1> QED
  BY <1>4 DEF y, b

LEMMA FileRead ==
  ASSUME NEW L \in Nat, NEW header \in [1 .. L -> Nat], NEW n \in Nat,
         NEW points \in [1 .. n -> [1 .. num_dimensions -> Nat]]
  PROVE  LET f == FileOf(header, points, num_dimensions)
         IN  /\ \A j \in 0 .. L - 1 : Long(f, j) = header[j + 1]
             /\ PointsFrom(f, L, n, num_dimensions) = points
<1> DEFINE D == num_dimensions
           f == FileOf(header, points, D)
<1>1. Len(header) = L /\ Len(points) = n /\ n * D \in Nat /\ 2 * L \in Nat
  BY SizeFacts
<1>2. f = [w \in 0 .. 2 * L + n * D - 1 |->
             IF w < 2 * L THEN HeaderWord(header, w)
             ELSE points[((w - 2 * L) \div D) + 1][((w - 2 * L) % D) + 1]]
  BY <1>1 DEF FileOf
<1>3. ASSUME NEW j \in 0 .. L - 1 PROVE Long(f, j) = header[j + 1]
  <2>1. 2 * j \in 0 .. 2 * L + n * D - 1 /\ 2 * j + 1 \in 0 .. 2 * L + n * D - 1
    BY <1>1
  <2>2. f[2 * j] = HeaderWord(header, 2 * j) /\ f[2 * j + 1] = HeaderWord(header, 2 * j + 1)
    BY <1>1, <1>2, <2>1
  <2>3. header[j + 1] \in Nat /\ j \in Nat
    OBVIOUS
  <2> HIDE DEF f
  <2> QED
    BY <2>2, <2>3, LongOfHeader
<1>4. ASSUME NEW x \in 1 .. n, NEW d \in 1 .. D
      PROVE  f[2 * L + (x - 1) * D + d - 1] = points[x][d]
  <2> DEFINE c == (x - 1) * D + (d - 1)
  <2>1. x - 1 \in Nat /\ x - 1 < n /\ d - 1 \in 0 .. D - 1 /\ (x - 1) * D \in Nat
    BY SizeFacts
  <2>2. c \in 0 .. n * D - 1
    BY <2>1, SizeFacts, CellRange DEF Cell
  <2>3. c \div D = x - 1 /\ c % D = d - 1
    BY <2>1, SizeFacts, DivideCell
  <2>4. 2 * L + (x - 1) * D + d - 1 = 2 * L + c
    BY <1>1, <2>1
  <2> HIDE DEF c, f
  <2>5. 2 * L + c \in 0 .. 2 * L + n * D - 1 /\ ~(2 * L + c < 2 * L) /\ (2 * L + c) - 2 * L = c
    BY <1>1, <2>2
  <2>6. f[2 * L + c] = points[(c \div D) + 1][(c % D) + 1]
    BY <1>2, <2>5
  <2> QED
    BY <2>1, <2>3, <2>4, <2>6
<1>5. PointsFrom(f, L, n, D) = points
  <2>1. PointsFrom(f, L, n, D)
          = [x \in 1 .. n |-> [d \in 1 .. D |-> f[2 * L + (x - 1) * D + d - 1]]]
    BY DEF PointsFrom
  <2> HIDE DEF f
  <2>2. \A x \in 1 .. n : points[x] = [d \in 1 .. D |-> points[x][d]]
    OBVIOUS
  <2>3. \A x \in 1 .. n : [d \in 1 .. D |-> f[2 * L + (x - 1) * D + d - 1]] = points[x]
    BY <1>4, <2>2
  <2> QED
    BY <2>1, <2>3
<1> QED
  BY <1>3, <1>5

(* The Reader of dump finds the points where the driver does. *)
LEMMA ReaderIsPointsFrom ==
  ASSUME NEW f, NEW L \in Nat, NEW n \in Nat
  PROVE  Reader(f, 8 * L, n, num_dimensions) = PointsFrom(f, L, n, num_dimensions)
<1>1. ASSUME NEW x \in 1 .. n, NEW d \in 1 .. num_dimensions
      PROVE  (8 * L + 4 * ((x - 1) * num_dimensions + d - 1)) \div 4
               = 2 * L + (x - 1) * num_dimensions + d - 1
  <2>1. (x - 1) * num_dimensions \in Nat
    BY SizeFacts
  <2> QED
    BY <2>1, SizeFacts
<1> QED
  BY <1>1 DEF Reader, PointsFrom

LEMMA NumberFacts ==
  /\ num_training_pts \in Nat /\ 0 < num_training_pts
  /\ train_id \in Nat /\ query_id \in Nat
  /\ TRAINING \in Nat /\ QUERY \in Nat /\ RESULT \in Nat
  /\ TRAINING # QUERY /\ TRAINING # RESULT /\ QUERY # RESULT
  BY SizesAssumption, InputsAssumption, FileTypesAssumption, SizeFacts

(* What train_info_ctor and dump read is what training_data.py was given. *)
LEMMA TrainingRead ==
  ASSUME NEW t \in TrainingSets
  PROVE  LET f == training_data(train_id, t, num_dimensions)
         IN  /\ train_info(f) =
                  [file_type |-> TRAINING, id |-> train_id, num_pts |-> num_training_pts,
                   num_dimensions |-> num_dimensions, points |-> t]
             /\ dump(f) = [id |-> train_id, n_points |-> num_training_pts,
                           n_dims |-> num_dimensions, points |-> t]
<1> DEFINE D == num_dimensions
           header == <<TRAINING, train_id, num_training_pts, D>>
           f == FileOf(header, t, D)
<1>1. t \in [1 .. num_training_pts -> [1 .. D -> Nat]] /\ Len(t) = num_training_pts
  BY InputsAssumption, NumberFacts
<1>2. header \in [1 .. 4 -> Nat]
  BY NumberFacts, SizeFacts
<1>3. /\ \A j \in 0 .. 4 - 1 : Long(f, j) = header[j + 1]
      /\ PointsFrom(f, 4, num_training_pts, D) = t
  <2> HIDE DEF header
  <2>1. 4 \in Nat /\ num_training_pts \in Nat
    BY NumberFacts
  <2>2. PointsFrom(f, 4, num_training_pts, D) = t
    BY <1>1, <1>2, <2>1, FileRead
  <2>3. \A j \in 0 .. 4 - 1 : Long(f, j) = header[j + 1]
    BY <1>1, <1>2, <2>1, <2>2, FileRead
  <2> QED
    BY <2>2, <2>3
<1>4. f = training_data(train_id, t, D)
  BY <1>1 DEF training_data
<1> HIDE DEF f
<1>5. Long(f, 0) = TRAINING /\ Long(f, 1) = train_id
  BY <1>3
<1>6. Long(f, 2) = num_training_pts /\ Long(f, 3) = D
  BY <1>3
<1>7. Reader(f, 32, num_training_pts, D) = t
  <2>1. 8 * 4 = 32 /\ 4 \in Nat
    OBVIOUS
  <2>2. Reader(f, 8 * 4, num_training_pts, D) = PointsFrom(f, 4, num_training_pts, D)
    BY <2>1, NumberFacts, ReaderIsPointsFrom
  <2> QED
    BY <1>3, <2>1, <2>2
<1>8. train_info(f) = [file_type |-> TRAINING, id |-> train_id, num_pts |-> num_training_pts,
                       num_dimensions |-> D, points |-> t]
  BY <1>3, <1>5, <1>6 DEF train_info
<1>9. dump(f) = [id |-> train_id, n_points |-> num_training_pts, n_dims |-> D, points |-> t]
  BY <1>5, <1>6, <1>7, NumberFacts DEF dump
<1> QED
  BY <1>4, <1>8, <1>9

(* Likewise query_info_ctor and query_file.py. *)
LEMMA QueryRead ==
  ASSUME NEW t \in QuerySets
  PROVE  LET f == query_file(query_id, t, num_dimensions, k)
         IN  /\ query_info(f) =
                  [file_type |-> QUERY, id |-> query_id, num_queries |-> num_queries,
                   num_dimensions |-> num_dimensions, k |-> k, points |-> t]
             /\ dump(f) = [id |-> query_id, n_queries |-> num_queries,
                           n_dims |-> num_dimensions, n_neighbors |-> k, points |-> t]
<1> DEFINE D == num_dimensions
           header == <<QUERY, query_id, num_queries, D, k>>
           f == FileOf(header, t, D)
<1>1. t \in [1 .. num_queries -> [1 .. D -> Nat]] /\ Len(t) = num_queries
  BY InputsAssumption, SizeFacts
<1>2. header \in [1 .. 5 -> Nat]
  BY NumberFacts, SizeFacts
<1>3. /\ \A j \in 0 .. 5 - 1 : Long(f, j) = header[j + 1]
      /\ PointsFrom(f, 5, num_queries, D) = t
  <2> HIDE DEF header
  <2>1. 5 \in Nat /\ num_queries \in Nat
    BY SizeFacts
  <2>2. PointsFrom(f, 5, num_queries, D) = t
    BY <1>1, <1>2, <2>1, FileRead
  <2>3. \A j \in 0 .. 5 - 1 : Long(f, j) = header[j + 1]
    BY <1>1, <1>2, <2>1, <2>2, FileRead
  <2> QED
    BY <2>2, <2>3
<1>4. f = query_file(query_id, t, D, k)
  BY <1>1 DEF query_file
<1> HIDE DEF f
<1>5. Long(f, 0) = QUERY /\ Long(f, 1) = query_id /\ Long(f, 2) = num_queries
  BY <1>3
<1>6. Long(f, 3) = D /\ Long(f, 4) = k
  BY <1>3
<1>7. Reader(f, 40, num_queries, D) = t
  <2>1. 8 * 5 = 40 /\ 5 \in Nat
    OBVIOUS
  <2>2. Reader(f, 8 * 5, num_queries, D) = PointsFrom(f, 5, num_queries, D)
    BY <2>1, SizeFacts, ReaderIsPointsFrom
  <2> QED
    BY <1>3, <2>1, <2>2
<1>8. query_info(f) = [file_type |-> QUERY, id |-> query_id, num_queries |-> num_queries,
                       num_dimensions |-> D, k |-> k, points |-> t]
  BY <1>3, <1>5, <1>6 DEF query_info
<1>9. dump(f) = [id |-> query_id, n_queries |-> num_queries, n_dims |-> D,
                 n_neighbors |-> k, points |-> t]
  BY <1>5, <1>6, <1>7, NumberFacts DEF dump
<1> QED
  BY <1>4, <1>8, <1>9

-----------------------------------------------------------------------------
(* The points and the ids main has read. *)
LEMMA InfoFacts ==
  ASSUME InputsInv
  PROVE  /\ t_info.id = train_id /\ q_info.id = query_id
         /\ t_info.points \in [1 .. num_training_pts -> [1 .. num_dimensions -> Nat]]
         /\ q_info.points \in [Queries -> [1 .. num_dimensions -> Nat]]
         /\ DOMAIN t_info.points = 1 .. num_training_pts
         /\ IsFiniteSet(DOMAIN t_info.points)
         /\ Cardinality(DOMAIN t_info.points) = num_training_pts
<1>1. PICK t \in TrainingSets :
        t_info = [file_type |-> TRAINING, id |-> train_id, num_pts |-> num_training_pts,
                  num_dimensions |-> num_dimensions, points |-> t]
  BY DEF InputsInv
<1>2. PICK u \in QuerySets :
        q_info = [file_type |-> QUERY, id |-> query_id, num_queries |-> num_queries,
                  num_dimensions |-> num_dimensions, k |-> k, points |-> u]
  BY DEF InputsInv
<1>3. /\ t \in [1 .. num_training_pts -> [1 .. num_dimensions -> Nat]]
      /\ u \in [Queries -> [1 .. num_dimensions -> Nat]]
  BY InputsAssumption DEF Queries
<1>4. /\ IsFiniteSet(1 .. num_training_pts)
      /\ Cardinality(1 .. num_training_pts) = num_training_pts
  <2>1. 1 \in Int /\ num_training_pts \in Int /\ ~(1 > num_training_pts)
    BY NumberFacts
  <2> QED
    BY <2>1, NumberFacts, FS_Interval
<1> QED
  BY <1>1, <1>2, <1>3, <1>4

LEMMA RunInitInv == RunInit => RunInv
<1> SUFFICES ASSUME RunInit PROVE RunInv
  OBVIOUS
<1>1. PICK t \in TrainingSets : data_in = training_data(train_id, t, num_dimensions)
  BY DEF RunInit
<1>2. PICK u \in QuerySets : query_in = query_file(query_id, u, num_dimensions, k)
  BY DEF RunInit
<1>3. InputsInv
  <2>1. t_info = train_info(data_in) /\ q_info = query_info(query_in)
    BY DEF RunInit
  <2> QED
    BY <1>1, <1>2, <2>1, TrainingRead, QueryRead DEF InputsInv
<1>4. IInv /\ main = "create" /\ answered = {}
  BY InitInv DEF RunInit, Init
<1>5. QueuesInv
  BY <1>4 DEF RunInit, QueuesInv
<1>6. /\ ids = [train_id |-> train_id, query_id |-> query_id, res_id |-> 0]
      /\ writer = WriterClosed /\ results = [q \in 1 .. num_queries |-> <<>>]
  BY <1>3, InfoFacts DEF RunInit, ResultInit
<1>7. ResultsInv
  BY <1>4, <1>6 DEF ResultsInv, Taken, Queries
<1>8. PhaseInv
  BY <1>4, <1>6 DEF PhaseInv, WriterClosed
<1>9. WriterInv
  BY <1>6, NumberFacts DEF WriterInv, WriterTypeOK, WriterAt, WriterClosed
<1> QED
  BY <1>3, <1>4, <1>5, <1>7, <1>8, <1>9 DEF RunInv

-----------------------------------------------------------------------------
(* Every step of the run is one of do_queries or adhoc_worker, or leaves them as they are. *)
LEMMA RunStepIsStep == [RunNext]_runVars => [Next]_vars
<1> SUFFICES ASSUME [RunNext]_runVars PROVE [Next]_vars
  OBVIOUS
<1>1. CASE MainStep
  <2>1. Dispatch => do_queries
    BY DEF Dispatch, do_queries
  <2>2. CollectPoints => do_queries
    BY DEF CollectPoints, do_queries
  <2>3. Write => UNCHANGED vars
    BY DEF Write
  <2>4. Return \/ Exit => do_queries
    BY DEF Return, Exit, do_queries
  <2> QED
    BY <1>1, <2>1, <2>2, <2>3, <2>4 DEF MainStep, Next
<1>2. ASSUME NEW w \in Workers, WorkerStep(w) PROVE adhoc_worker(w)
  BY <1>2 DEF WorkerStep, Take, Answer, adhoc_worker
<1>3. CASE RunOver \/ UNCHANGED runVars
  BY <1>3 DEF RunOver, runVars, vars
<1> QED
  BY <1>1, <1>2, <1>3 DEF RunNext, Next

LEMMA InputsKept ==
  ASSUME InputsInv, UNCHANGED inputVars
  PROVE  InputsInv'
  BY DEF InputsInv, inputVars

LEMMA ProblemsKept ==
  ASSUME UNCHANGED inputVars, NEW q
  PROVE  /\ Problem(q)' = Problem(q)
         /\ \A r : IsResult(q, r)' <=> IsResult(q, r)
<1>1. t_info' = t_info /\ q_info' = q_info
  BY DEF inputVars
<1>2. Problem(q)' = Problem(q)
  BY <1>1 DEF Problem
<1>3. \A r : IsResult(q, r)' <=> IsResult(q, r)
  BY <1>1 DEF IsResult, Problem, DistanceTo
<1> QED
  BY <1>2, <1>3

LEMMA QueuesKept ==
  ASSUME QueuesInv, UNCHANGED <<inputVars, queues, answered>>,
         \A q \in Queries : Uncollected(q)' => Uncollected(q)
  PROVE  QueuesInv'
<1>1. DOMAIN queues' = Queries
  BY DEF QueuesInv
<1>2. ASSUME NEW q \in Queries, Uncollected(q)'
      PROVE  IF q \in answered'
             THEN queues'[q] \subseteq 1 .. num_training_pts /\ IsNearest(Problem(q)', queues'[q])
             ELSE queues'[q] = {}
  <2>1. Uncollected(q) /\ queues' = queues /\ answered' = answered
    BY <1>2
  <2>2. Problem(q)' = Problem(q)
    BY ProblemsKept
  <2> QED
    BY <2>1, <2>2 DEF QueuesInv
<1> QED
  BY <1>1, <1>2 DEF QueuesInv, IsNearest

LEMMA ResultsKept ==
  ASSUME ResultsInv, UNCHANGED <<inputVars, results>>,
         \A q \in Queries : Taken(q)' => Taken(q)
  PROVE  ResultsInv'
<1>1. t_info' = t_info /\ results' = results
  BY DEF inputVars
<1>2. ASSUME NEW q \in Queries, Taken(q)'
      PROVE  \E r \in [1 .. k -> 1 .. num_training_pts] :
               IsResult(q, r)' /\ results'[q] = [n \in 1 .. k |-> t_info'.points[r[n]]]
  <2>1. PICK r \in [1 .. k -> 1 .. num_training_pts] :
          IsResult(q, r) /\ results[q] = [n \in 1 .. k |-> t_info.points[r[n]]]
    BY <1>2 DEF ResultsInv
  <2>2. IsResult(q, r)'
    BY <2>1, ProblemsKept
  <2> QED
    BY <1>1, <2>1, <2>2
<1> QED
  BY <1>1, <1>2 DEF ResultsInv

(* Creating and joining workers. *)
LEMMA DispatchKeeps ==
  ASSUME RunInv, Dispatch
  PROVE  InputsInv' /\ QueuesInv' /\ ResultsInv' /\ PhaseInv' /\ WriterInv'
<1>1. UNCHANGED <<resultVars, inputVars, queues>>
  BY DEF Dispatch
<1>2. UNCHANGED answered
  BY DEF Dispatch, CreateWorker, CreatedAll, JoinWorker, JoinUninitialised, JoinedAll,
         CollectEmpty, workerVars
<1>3. /\ main \in {"create", "join"} \/ (main = "collect" /\ i <= num_queries)
      /\ \/ main' \in {"create", "join", "segfault", "undefined"}
         \/ main = "join" /\ main' = "collect" /\ i' = 1
  BY DEF Dispatch, CreateWorker, CreatedAll, JoinWorker, JoinUninitialised, JoinedAll,
         CollectEmpty
<1>4. \A q \in Queries : Uncollected(q)' => Uncollected(q)
  <2>1. CASE main \in {"create", "join"}
    BY <2>1 DEF Uncollected
  <2>2. CASE main = "collect"
    <3>1. main' = "undefined"
      BY <2>2 DEF Dispatch, CreateWorker, CreatedAll, JoinWorker, JoinUninitialised, JoinedAll,
                  CollectEmpty
    <3> QED
      BY <3>1 DEF Uncollected
  <2> QED
    BY <1>3, <2>1, <2>2
<1>5. \A q \in Queries : ~Taken(q)'
  BY <1>3, ConstantFacts DEF Taken
<1>6. writer.pc = "none" /\ main' \notin {"done", "exit"}
  BY <1>3, SizeFacts DEF RunInv, IInv, TypeOK, PhaseInv
<1>7. PhaseInv'
  BY <1>1, <1>6 DEF RunInv, PhaseInv, resultVars
<1>8. QueuesInv'
  BY <1>1, <1>2, <1>4, QueuesKept DEF RunInv
<1>9. ResultsInv'
  BY <1>1, <1>5, ResultsKept DEF RunInv, resultVars
<1> QED
  BY <1>1, <1>7, <1>8, <1>9, InputsKept, WriterStutters DEF RunInv

(* A worker that takes a job or waits for one. *)
LEMMA TakeKeeps ==
  ASSUME RunInv, NEW w \in Workers, Take(w)
  PROVE  InputsInv' /\ QueuesInv' /\ ResultsInv' /\ PhaseInv' /\ WriterInv'
<1>1. UNCHANGED <<resultVars, inputVars, queues>>
  BY DEF Take
<1>2. UNCHANGED <<main, i, answered>>
  BY DEF Take, Lock, ReadSize, Leave, TakeJob, PopBack, Unlock
<1>3. PhaseInv'
  BY <1>1, <1>2 DEF RunInv, PhaseInv, resultVars
<1>4. QueuesInv'
  BY <1>1, <1>2, QueuesKept DEF RunInv, Uncollected
<1>5. ResultsInv'
  BY <1>1, <1>2, ResultsKept DEF RunInv, resultVars, Taken
<1> QED
  BY <1>1, <1>3, <1>4, <1>5, InputsKept, WriterStutters DEF RunInv

(* A search fills the queue of its query, which no search has touched before. *)
LEMMA AnswerKeeps ==
  ASSUME RunInv, NEW w \in Workers, Answer(w)
  PROVE  InputsInv' /\ QueuesInv' /\ ResultsInv' /\ PhaseInv' /\ WriterInv'
<1>1. /\ UNCHANGED <<resultVars, inputVars>> /\ UNCHANGED <<main, i>>
      /\ pc[w] = "run" /\ answered' = answered \cup {job[w]}
  BY DEF Answer, RunJob, WorkerAt
<1>2. PICK S \in SUBSET (1 .. num_training_pts) :
        IsNearest(Problem(job[w]), S) /\ queues' = [queues EXCEPT ![job[w]] = @ \cup S]
  BY DEF Answer
<1>3. main \in {"create", "join", "segfault"}
  BY <1>1 DEF RunInv, IInv, TypeOK, MainInv
<1>4. job[w] \in Queries /\ job[w] \notin answered
  BY <1>1, ConstantFacts, SizesAssumption DEF RunInv, IInv, TypeOK, OffVector, Holding, Queries
<1>5. DOMAIN queues' = Queries /\ DOMAIN queues = Queries
  BY <1>2 DEF RunInv, QueuesInv
<1>6. ASSUME NEW q \in Queries, Uncollected(q)'
      PROVE  IF q \in answered'
             THEN queues'[q] \subseteq 1 .. num_training_pts /\ IsNearest(Problem(q)', queues'[q])
             ELSE queues'[q] = {}
  <2>1. Uncollected(q)
    BY <1>1, <1>6 DEF Uncollected
  <2>2. Problem(q)' = Problem(q)
    BY <1>1, ProblemsKept
  <2>3. CASE q = job[w]
    <3>1. queues[q] = {}
      BY <1>4, <2>1, <2>3 DEF RunInv, QueuesInv
    <3>2. queues'[q] = S
      BY <1>2, <1>5, <2>3, <3>1
    <3> QED
      BY <1>1, <1>2, <2>2, <2>3, <3>2
  <2>4. CASE q # job[w]
    <3>1. queues'[q] = queues[q] /\ (q \in answered' <=> q \in answered)
      BY <1>1, <1>2, <1>5, <2>4
    <3> QED
      BY <2>1, <2>2, <3>1 DEF RunInv, QueuesInv
  <2> QED
    BY <2>3, <2>4
<1>7. QueuesInv'
  BY <1>5, <1>6 DEF QueuesInv, IsNearest
<1>8. ResultsInv'
  BY <1>1, ResultsKept DEF RunInv, resultVars, Taken
<1>9. PhaseInv'
  BY <1>1 DEF RunInv, PhaseInv, resultVars
<1> QED
  BY <1>1, <1>7, <1>8, <1>9, InputsKept, WriterStutters DEF RunInv

(* All of a queue comes out when k points are taken from an answer. *)
LEMMA PoppedIsAnswer ==
  ASSUME RunInv, NEW q \in Queries, Uncollected(q), k <= QueueSize(q), NEW r \in PopOrders(q)
  PROVE  r \in [1 .. k -> 1 .. num_training_pts] /\ IsResult(q, r)
<1>1. q \in answered /\ k <= num_training_pts
  BY SizeFacts, NumberFacts DEF QueueSize
<1>2. queues[q] \subseteq 1 .. num_training_pts /\ IsNearest(Problem(q), queues[q])
  BY <1>1 DEF RunInv, QueuesInv
<1>3. /\ r \in [1 .. k -> queues[q]]
      /\ \A m, n \in 1 .. k : m < n => r[m] # r[n] /\ DistanceTo(q, r[m]) >= DistanceTo(q, r[n])
  BY DEF PopOrders
<1>4. IsFiniteSet(queues[q]) /\ Cardinality(queues[q]) = k
  <2>1. Cardinality(queues[q]) = k
    BY <1>1, <1>2, InfoFacts DEF RunInv, IsNearest, Problem
  <2>2. IsFiniteSet(DOMAIN t_info.points) /\ DOMAIN t_info.points = 1 .. num_training_pts
    BY InfoFacts DEF RunInv
  <2> QED
    BY <1>2, <2>1, <2>2, FS_Subset
<1>5. IsFiniteSet(1 .. k) /\ Cardinality(1 .. k) = k
  <2>1. 1 \in Int /\ k \in Int /\ ~(1 > k)
    BY SizeFacts
  <2> QED
    BY <2>1, SizeFacts, FS_Interval
<1>6. r \in Injection(1 .. k, queues[q])
  <2>1. \A m, n \in 1 .. k : m # n => r[m] # r[n]
    BY <1>3, SizeFacts
  <2> QED
    BY <1>3, <2>1 DEF Injection, IsInjective
<1>7. r \in Surjection(1 .. k, queues[q])
  BY <1>4, <1>5, <1>6, FS_Injection
<1>8. {r[n] : n \in 1 .. k} = queues[q]
  BY <1>3, <1>7 DEF Surjection
<1> QED
  BY <1>2, <1>3, <1>8 DEF IsResult

LEMMA CollectKeeps ==
  ASSUME RunInv, CollectPoints
  PROVE  InputsInv' /\ QueuesInv' /\ ResultsInv' /\ PhaseInv' /\ WriterInv'
<1>1. /\ main = "collect" /\ main' = "collect" /\ i' = i + 1 /\ k <= QueueSize(i)
      /\ i \in Queries /\ answered' = answered
      /\ UNCHANGED <<ids, file, writer, inputVars>>
  BY SizeFacts DEF CollectPoints, Collect, workerVars, RunInv, IInv, TypeOK, Queries
<1>2. PICK r \in PopOrders(i) :
        /\ results' = [results EXCEPT ![i] = [n \in 1 .. k |-> t_info.points[r[n]]]]
        /\ queues' = [queues EXCEPT ![i] = @ \ {r[n] : n \in 1 .. k}]
  BY DEF CollectPoints
<1>3. r \in [1 .. k -> 1 .. num_training_pts] /\ IsResult(i, r)
  BY <1>1, ConstantFacts, PoppedIsAnswer DEF Uncollected
<1>4. writer.pc = "none"
  <2>1. ~(i > num_queries)
    BY <1>1, SizeFacts DEF Queries
  <2> QED
    BY <1>1, <2>1 DEF RunInv, PhaseInv
<1>5. QueuesInv'
  <2>1. DOMAIN queues' = Queries
    BY <1>2 DEF RunInv, QueuesInv
  <2>2. ASSUME NEW q \in Queries, Uncollected(q)'
        PROVE  IF q \in answered'
               THEN queues'[q] \subseteq 1 .. num_training_pts
                    /\ IsNearest(Problem(q)', queues'[q])
               ELSE queues'[q] = {}
    <3>1. Uncollected(q) /\ q # i
      BY <1>1, <2>2, ConstantFacts DEF Uncollected
    <3>2. queues'[q] = queues[q] /\ Problem(q)' = Problem(q)
      BY <1>1, <1>2, <3>1, ProblemsKept DEF RunInv, QueuesInv
    <3> QED
      BY <1>1, <3>1, <3>2 DEF RunInv, QueuesInv
  <2> QED
    BY <2>1, <2>2 DEF QueuesInv, IsNearest
<1>6. ResultsInv'
  <2>1. DOMAIN results' = Queries /\ t_info' = t_info
    BY <1>1, <1>2 DEF RunInv, ResultsInv, inputVars
  <2>2. ASSUME NEW q \in Queries, Taken(q)'
        PROVE  \E s \in [1 .. k -> 1 .. num_training_pts] :
                 IsResult(q, s)' /\ results'[q] = [n \in 1 .. k |-> t_info'.points[s[n]]]
    <3>1. CASE q = i
      <4>1. results'[q] = [n \in 1 .. k |-> t_info.points[r[n]]]
        BY <1>2, <3>1 DEF RunInv, ResultsInv
      <4>2. IsResult(q, r)'
        BY <1>1, <1>3, <3>1, ProblemsKept
      <4> QED
        BY <1>3, <2>1, <4>1, <4>2
    <3>2. CASE q # i
      <4>1. Taken(q)
        BY <1>1, <2>2, <3>2, ConstantFacts DEF Taken
      <4>2. PICK s \in [1 .. k -> 1 .. num_training_pts] :
              IsResult(q, s) /\ results[q] = [n \in 1 .. k |-> t_info.points[s[n]]]
        BY <4>1 DEF RunInv, ResultsInv
      <4>3. results'[q] = results[q]
        BY <1>2, <3>2 DEF RunInv, ResultsInv
      <4>4. IsResult(q, s)'
        BY <1>1, <4>2, ProblemsKept
      <4> QED
        BY <2>1, <4>2, <4>3, <4>4
    <3> QED
      BY <3>1, <3>2
  <2> QED
    BY <2>1, <2>2 DEF ResultsInv
<1>7. PhaseInv'
  BY <1>1, <1>4 DEF RunInv, PhaseInv
<1>8. WriterInv'
  BY <1>1, <1>4 DEF RunInv, WriterInv, WriterTypeOK, WriterAt
<1> QED
  BY <1>1, <1>5, <1>6, <1>7, <1>8, InputsKept DEF RunInv

LEMMA WriteKeeps ==
  ASSUME RunInv, Write
  PROVE  InputsInv' /\ QueuesInv' /\ ResultsInv' /\ PhaseInv' /\ WriterInv'
<1>1. /\ main = "collect" /\ i > num_queries /\ results_to_file
      /\ UNCHANGED <<vars, inputVars, queues>>
  BY DEF Write
<1>2. UNCHANGED <<main, i, answered>>
  BY <1>1 DEF vars
<1>3. results' = results
  BY <1>1 DEF results_to_file, OpenResult, StoreHeader, HeaderDone, StoreCoordinate, CloseResult
<1>4. ids'.train_id = ids.train_id /\ ids'.query_id = ids.query_id
  <2>1. CASE StoreHeader
    <3>1. PICK r \in ResultIds :
            ids' = IF writer.idx = 3 THEN [ids EXCEPT !.res_id = r] ELSE ids
      BY <2>1 DEF StoreHeader
    <3> QED
      BY <3>1 DEF RunInv, WriterInv, WriterTypeOK
  <2>2. CASE ~StoreHeader
    BY <1>1, <2>2 DEF results_to_file, OpenResult, HeaderDone, StoreCoordinate, CloseResult
  <2> QED
    BY <2>1, <2>2
<1>5. PhaseInv'
  BY <1>1, <1>2, <1>4 DEF RunInv, PhaseInv
<1>6. QueuesInv'
  BY <1>1, <1>2, QueuesKept DEF RunInv, Uncollected
<1>7. ResultsInv'
  BY <1>1, <1>2, <1>3, ResultsKept DEF RunInv, Taken
<1> QED
  BY <1>1, <1>5, <1>6, <1>7, InputsKept, WriterKeeps DEF RunInv

LEMMA ReturnKeeps ==
  ASSUME RunInv, Return
  PROVE  InputsInv' /\ QueuesInv' /\ ResultsInv' /\ PhaseInv' /\ WriterInv'
<1>1. /\ main = "collect" /\ i > num_queries /\ main' = "done" /\ writer.pc = "closed"
      /\ UNCHANGED answered /\ UNCHANGED <<resultVars, inputVars, queues>>
  BY DEF Return, WriteAndFree, workerVars
<1>2. \A q \in Queries : Taken(q)
  BY <1>1, SizeFacts DEF Taken, Queries, RunInv, IInv, TypeOK
<1>3. PhaseInv'
  BY <1>1 DEF RunInv, PhaseInv, resultVars
<1>4. QueuesInv'
  BY <1>1, QueuesKept DEF RunInv, Uncollected
<1>5. ResultsInv'
  BY <1>1, <1>2, ResultsKept DEF RunInv, resultVars
<1> QED
  BY <1>1, <1>3, <1>4, <1>5, InputsKept, WriterStutters DEF RunInv

LEMMA ExitKeeps ==
  ASSUME RunInv, Exit
  PROVE  InputsInv' /\ QueuesInv' /\ ResultsInv' /\ PhaseInv' /\ WriterInv'
<1>1. /\ main = "collect" /\ i > num_queries /\ main' = "exit" /\ results_to_file_exits
      /\ UNCHANGED answered /\ UNCHANGED <<ids, results, writer, inputVars, queues>>
  BY DEF Exit, WriteFails, workerVars, results_to_file_exits, OpenFails, urandomFails, UnmapFails,
         resultVars
<1>2. \A q \in Queries : Taken(q)
  BY <1>1, SizeFacts DEF Taken, Queries, RunInv, IInv, TypeOK
<1>3. PhaseInv'
  BY <1>1 DEF RunInv, PhaseInv
<1>4. QueuesInv'
  BY <1>1, QueuesKept DEF RunInv, Uncollected
<1>5. ResultsInv'
  BY <1>1, <1>2, ResultsKept DEF RunInv
<1> QED
  BY <1>1, <1>3, <1>4, <1>5, InputsKept, WriterExits DEF RunInv

LEMMA RunNextInv == RunInv /\ [RunNext]_runVars => RunInv'
<1> SUFFICES ASSUME RunInv, [RunNext]_runVars PROVE RunInv'
  OBVIOUS
<1>1. IInv'
  BY RunStepIsStep, NextInv DEF RunInv
<1>2. InputsInv' /\ QueuesInv' /\ ResultsInv' /\ PhaseInv' /\ WriterInv'
  <2>1. CASE MainStep
    BY <2>1, DispatchKeeps, CollectKeeps, WriteKeeps, ReturnKeeps, ExitKeeps DEF MainStep
  <2>2. ASSUME NEW w \in Workers, WorkerStep(w)
        PROVE  InputsInv' /\ QueuesInv' /\ ResultsInv' /\ PhaseInv' /\ WriterInv'
    BY <2>2, TakeKeeps, AnswerKeeps DEF WorkerStep
  <2>3. CASE UNCHANGED runVars
    <3>1. UNCHANGED <<resultVars, inputVars, queues>> /\ UNCHANGED <<main, i, answered>>
      BY <2>3 DEF runVars, vars
    <3>2. PhaseInv'
      BY <3>1 DEF RunInv, PhaseInv, resultVars
    <3>3. QueuesInv'
      BY <3>1, QueuesKept DEF RunInv, Uncollected
    <3>4. ResultsInv'
      BY <3>1, ResultsKept DEF RunInv, resultVars, Taken
    <3> QED
      BY <3>1, <3>2, <3>3, <3>4, InputsKept, WriterStutters DEF RunInv
  <2> QED
    BY <2>1, <2>2, <2>3 DEF RunNext, RunOver
<1> QED
  BY <1>1, <1>2 DEF RunInv

LEMMA RunSpecInv == RunSpec => []RunInv
  BY RunInitInv, RunNextInv, PTL DEF RunSpec

-----------------------------------------------------------------------------
(* A closed file is one whose results have all been taken, and all are whole points. *)
LEMMA ClosedIsWhole ==
  ASSUME RunInv, writer.pc = "closed"
  PROVE  (\A q \in Queries : Taken(q)) /\ PointsWhole
<1>1. \A q \in Queries : Taken(q)
  BY SizeFacts DEF RunInv, PhaseInv, Taken, Queries, IInv, TypeOK
<1>2. ASSUME NEW q \in 1 .. num_queries, NEW n \in 1 .. k
      PROVE  results[q][n] = [d \in 1 .. num_dimensions |-> results[q][n][d]]
  <2>1. PICK r \in [1 .. k -> 1 .. num_training_pts] :
          results[q] = [m \in 1 .. k |-> t_info.points[r[m]]]
    BY <1>1 DEF RunInv, ResultsInv, Queries
  <2>2. results[q][n] \in [1 .. num_dimensions -> Nat]
    BY <2>1, InfoFacts DEF RunInv
  <2> QED
    BY <2>2
<1> QED
  BY <1>1, <1>2 DEF PointsWhole

(* The state of the dispatch is always of its type within a run. *)
THEOREM RunTypeCorrect == RunSpec => []TypeOK
  BY RunSpecInv, PTL DEF RunInv, IInv

(* Every query of a run is searched once, whatever the workers do between their steps. *)
THEOREM RunJobsRunOnce == RunSpec => []JobsRunOnce
<1>1. RunInv => JobsRunOnce
  BY ConstantFacts, SizesAssumption
  DEF RunInv, IInv, TypeOK, OffVector, HeldByOne, JobsRunOnce, Queries, Holding
<1> QED
  BY <1>1, RunSpecInv, PTL

(* No query of a run is lost between the vector and its worker. *)
THEOREM RunNoJobLost == RunSpec => []NoJobLost
  BY RunSpecInv, PTL DEF RunInv, IInv

(* Queues are emptied, and the file written, when all answers are in and no worker is left. *)
THEOREM RunCollectAfterAnswers == RunSpec => []CollectAfterAnswers
<1>1. RunInv => CollectAfterAnswers
  BY AllAnswered DEF RunInv, IInv, MainInv, CollectAfterAnswers
<1> QED
  BY <1>1, RunSpecInv, PTL

(* A run with its queues and its file still implements the batch of QueryBatch. *)
THEOREM RunImplements == RunSpec => KeepsPromise
<1>1. RunInit => Batch!Init
  BY InitRefines DEF RunInit
<1>2. RunInv /\ [RunNext]_runVars => [Batch!Next]_(Batch!vars)
  <2> SUFFICES ASSUME RunInv, [Next]_vars
               PROVE  Batch!Next \/ UNCHANGED Batch!vars
    BY RunStepIsStep
  <2>1. CASE UNCHANGED vars
    BY <2>1 DEF vars, Collected, Batch!vars
  <2> QED
    BY <2>1, MainRefines, WorkerRefines DEF RunInv, Next, Over
<1> QED
  BY <1>1, <1>2, RunSpecInv, PTL DEF RunSpec, KeepsPromise, Batch!Spec

(* The result file grows in order and without a gap, no store falls behind its end and the  *)
(* last one fills it: for every number of queries, neighbours and dimensions.               *)
THEOREM WrittenAsLaidOutAlways == RunSpec => []WrittenAsLaidOut
  BY LaidOut, RunSpecInv, PTL DEF RunInv

(* A file that results_to_file has closed passes _check_output. *)
THEOREM ClosedPassesCheckAlways == RunSpec => []ClosedPassesCheck
<1>1. RunInv => ClosedPassesCheck
  BY ClosedIsWhole, ChecksOut DEF RunInv, ClosedPassesCheck
<1> QED
  BY <1>1, RunSpecInv, PTL

-----------------------------------------------------------------------------
(* What dump lists of a closed file. *)
LEMMA ResultDumped ==
  ASSUME RunInv, writer.pc = "closed"
  PROVE  LET d == dump(file)
         IN  /\ d.training_id = train_id /\ d.query_id = query_id
             /\ d.n_queries = num_queries /\ d.n_neighbors = k /\ d.n_dims = num_dimensions
             /\ \A q \in Queries :
                  Len(d.neighbors[q]) = k /\ DOMAIN d.neighbors[q] = 1 .. k
                  /\ \A n \in 1 .. k : d.neighbors[q][n] = results[q][k - n + 1]
<1> DEFINE total == num_queries * k
           all == Reader(file, 56, total, num_dimensions)
<1>1. WriterInv /\ PointsWhole /\ total \in Nat
  BY ClosedIsWhole, SizeFacts DEF RunInv
<1>2. \A j \in 0 .. 6 : Long(file, j) = Header(ids.res_id)[j + 1]
  BY <1>1, ClosedHeader
<1>3. /\ Long(file, 0) = RESULT /\ Long(file, 1) = train_id /\ Long(file, 2) = query_id
      /\ Long(file, 4) = num_queries /\ Long(file, 5) = num_dimensions /\ Long(file, 6) = k
  BY <1>2 DEF Header, RunInv, PhaseInv
<1>4. dump(file) =
        [training_id |-> Long(file, 1), query_id |-> Long(file, 2), result_id |-> Long(file, 3),
         n_queries |-> num_queries, n_dims |-> num_dimensions, n_neighbors |-> k,
         neighbors |-> [q \in 1 .. num_queries |-> SubSeq(all, (q - 1) * k + 1, q * k)]]
  BY <1>3, NumberFacts DEF dump
<1>5. all = PointsFrom(file, 7, total, num_dimensions)
  <2>1. 8 * 7 = 56 /\ 7 \in Nat
    OBVIOUS
  <2>2. Reader(file, 8 * 7, total, num_dimensions) = PointsFrom(file, 7, total, num_dimensions)
    BY <1>1, <2>1, ReaderIsPointsFrom
  <2> QED
    BY <2>1, <2>2
<1>6. \A j \in 0 .. num_queries - 1, m \in 0 .. k - 1 :
        all[j * k + m + 1] = results[j + 1][k - m]
  BY <1>1, <1>5, ChecksOut DEF _check_output
<1>7. ASSUME NEW q \in Queries
      PROVE  LET s == SubSeq(all, (q - 1) * k + 1, q * k)
             IN  /\ Len(s) = k /\ DOMAIN s = 1 .. k
                 /\ \A n \in 1 .. k : s[n] = results[q][k - n + 1]
  <2> DEFINE S == {all[x] : x \in 1 .. total}
             first == (q - 1) * k + 1
             last == q * k
             s == SubSeq(all, first, last)
  <2>1. all \in [1 .. total -> S]
    BY DEF Reader
  <2>2. all \in Seq(S) /\ Len(all) = total
    <3> HIDE DEF all, total, S
    <3> QED
      BY <1>1, <2>1
  <2>3. /\ first \in 1 .. total + 1 /\ last \in first - 1 .. total
        /\ last - first + 1 = k /\ (q - 1) * k \in Nat
    <3>1. q \in Nat /\ q - 1 \in Nat /\ q - 1 < q /\ (q < num_queries \/ q = num_queries)
      BY SizeFacts DEF Queries
    <3>2. q * k = (q - 1) * k + k
      BY <3>1, SizeFacts
    <3>3. (q - 1) * k \in Nat /\ q * k \in Nat
      BY <3>1, SizeFacts
    <3>4. q * k <= total
      <4>1. CASE q = num_queries
        BY <1>1, <4>1
      <4>2. CASE q < num_queries
        <5>1. q * k + k <= num_queries * k
          BY <3>1, <4>2, SizeFacts, RowsApart
        <5> QED
          BY <1>1, <3>3, <5>1, SizeFacts
      <4> QED
        BY <3>1, <4>1, <4>2
    <3> HIDE DEF total
    <3> QED
      BY <1>1, <3>2, <3>3, <3>4, SizeFacts
  <2>4. ASSUME NEW n \in 1 .. k
        PROVE  all[n + first - 1] = results[q][k - n + 1]
    <3>1. q - 1 \in 0 .. num_queries - 1 /\ n - 1 \in 0 .. k - 1
      BY SizeFacts DEF Queries
    <3>2. (q - 1) * k + (n - 1) + 1 = n + first - 1 /\ (q - 1) + 1 = q /\ k - (n - 1) = k - n + 1
      BY <2>3, SizeFacts DEF Queries
    <3> HIDE DEF all, first
    <3>3. all[(q - 1) * k + (n - 1) + 1] = results[(q - 1) + 1][k - (n - 1)]
      BY <1>6, <3>1
    <3> QED
      BY <3>2, <3>3
  <2> HIDE DEF all, total, S, first, last
  <2>5. Len(s) = k /\ s \in Seq(S) /\ \A n \in 1 .. k : s[n] = all[n + first - 1]
    BY <2>2, <2>3, SizeFacts, SubSeqProperties
  <2> QED
    BY <2>4, <2>5 DEF first, last
<1> DEFINE d == dump(file)
<1>8. /\ d.training_id = train_id /\ d.query_id = query_id
      /\ d.n_queries = num_queries /\ d.n_neighbors = k /\ d.n_dims = num_dimensions
  BY <1>3, <1>4
<1>9. \A q \in Queries : d.neighbors[q] = SubSeq(all, (q - 1) * k + 1, q * k)
  <2> DEFINE lists == [q \in 1 .. num_queries |-> SubSeq(all, (q - 1) * k + 1, q * k)]
  <2>1. \A q \in Queries : lists[q] = SubSeq(all, (q - 1) * k + 1, q * k)
    <3> HIDE DEF all
    <3> QED
      BY DEF Queries
  <2> HIDE DEF lists
  <2>2. d.neighbors = lists
    BY <1>4 DEF lists
  <2> QED
    BY <2>1, <2>2
<1> HIDE DEF d, all
<1>10. \A q \in Queries :
         /\ Len(d.neighbors[q]) = k /\ DOMAIN d.neighbors[q] = 1 .. k
         /\ \A n \in 1 .. k : d.neighbors[q][n] = results[q][k - n + 1]
  BY <1>7, <1>9
<1> QED
  BY <1>8, <1>10 DEF d

(* The results of a query, turned round, are nearest to it and nearest first. *)
LEMMA ReversedIsNearest ==
  ASSUME InputsInv, NEW q \in Queries, NEW r \in [1 .. k -> 1 .. num_training_pts],
         IsResult(q, r), NEW neighbors, Len(neighbors) = k, DOMAIN neighbors = 1 .. k,
         \A n \in 1 .. k : neighbors[n] = t_info.points[r[k - n + 1]]
  PROVE  ListsNearest(t_info.points, q_info.points[q], neighbors)
<1> DEFINE s == [n \in 1 .. k |-> r[k - n + 1]]
<1>1. \A n \in 1 .. k : k - n + 1 \in 1 .. k /\ k - (k - n + 1) + 1 = n
  BY SizeFacts
<1>2. s \in [DOMAIN neighbors -> DOMAIN t_info.points]
  BY <1>1, InfoFacts
<1>3. \A n \in DOMAIN s : neighbors[n] = t_info.points[s[n]]
  OBVIOUS
<1>4. ASSUME NEW m \in DOMAIN s, NEW n \in DOMAIN s, m < n
      PROVE  /\ s[m] # s[n]
             /\ distance(q_info.points[q], t_info.points[s[m]])
                  <= distance(q_info.points[q], t_info.points[s[n]])
  <2>1. k - n + 1 \in 1 .. k /\ k - m + 1 \in 1 .. k /\ k - n + 1 < k - m + 1
    BY <1>1, <1>4, SizeFacts
  <2>2. r[k - n + 1] # r[k - m + 1] /\ DistanceTo(q, r[k - n + 1]) >= DistanceTo(q, r[k - m + 1])
    BY <2>1 DEF IsResult
  <2> QED
    BY <2>2 DEF DistanceTo
<1>5. {s[n] : n \in DOMAIN s} = {r[n] : n \in 1 .. k}
  <2>1. \A n \in 1 .. k : s[k - n + 1] = r[n] /\ s[n] = r[k - n + 1]
    BY <1>1
  <2> QED
    BY <1>1, <2>1
<1>6. IsNearest([train |-> t_info.points, query |-> q_info.points[q], k |-> Len(neighbors)],
                {s[n] : n \in DOMAIN s})
  BY <1>5 DEF IsResult, Problem
<1> HIDE DEF s
<1> QED
  BY <1>2, <1>3, <1>4, <1>6 DEF ListsNearest

(* A run that ends well leaves a file of which dump lists, for every query, k training points *)
(* that are nearest to it, the nearest first: for any input, any number of workers and any     *)
(* order of their steps, given that each search answers its query (ImplementsQuery of          *)
(* Search_proofs).                                                                             *)
THEOREM ResultIsNearestAlways == RunSpec => []ResultIsNearest
<1>1. RunInv => ResultIsNearest
  <2> SUFFICES ASSUME RunInv, main = "done" PROVE ResultIsNearest
    BY DEF ResultIsNearest
  <2> DEFINE data == dump(data_in)
             query == dump(query_in)
             result == dump(file)
  <2>1. PICK t \in TrainingSets :
          /\ data_in = training_data(train_id, t, num_dimensions)
          /\ t_info = [file_type |-> TRAINING, id |-> train_id, num_pts |-> num_training_pts,
                       num_dimensions |-> num_dimensions, points |-> t]
    BY DEF RunInv, InputsInv
  <2>2. PICK u \in QuerySets :
          /\ query_in = query_file(query_id, u, num_dimensions, k)
          /\ q_info = [file_type |-> QUERY, id |-> query_id, num_queries |-> num_queries,
                       num_dimensions |-> num_dimensions, k |-> k, points |-> u]
    BY DEF RunInv, InputsInv
  <2>3. data = [id |-> train_id, n_points |-> num_training_pts, n_dims |-> num_dimensions,
                points |-> t]
    BY <2>1, TrainingRead
  <2>4. query = [id |-> query_id, n_queries |-> num_queries, n_dims |-> num_dimensions,
                 n_neighbors |-> k, points |-> u]
    BY <2>2, QueryRead
  <2>5. /\ data.id = train_id /\ data.n_dims = num_dimensions /\ data.points = t_info.points
        /\ query.id = query_id /\ query.n_queries = num_queries /\ query.n_neighbors = k
        /\ query.points = q_info.points
    BY <2>1, <2>2, <2>3, <2>4
  <2>6. writer.pc = "closed"
    BY DEF RunInv, PhaseInv
  <2>7. /\ result.training_id = train_id /\ result.query_id = query_id
        /\ result.n_queries = num_queries /\ result.n_neighbors = k
        /\ result.n_dims = num_dimensions
        /\ \A q \in Queries :
             /\ Len(result.neighbors[q]) = k /\ DOMAIN result.neighbors[q] = 1 .. k
             /\ \A n \in 1 .. k : result.neighbors[q][n] = results[q][k - n + 1]
    BY <2>6, ResultDumped
  <2>8. ASSUME NEW q \in Queries
        PROVE  ListsNearest(t_info.points, q_info.points[q], result.neighbors[q])
    <3> HIDE DEF result
    <3>1. PICK r \in [1 .. k -> 1 .. num_training_pts] :
            IsResult(q, r) /\ results[q] = [n \in 1 .. k |-> t_info.points[r[n]]]
      BY DEF RunInv, ResultsInv, Taken
    <3>2. \A n \in 1 .. k : k - n + 1 \in 1 .. k
      BY SizeFacts
    <3>3. ASSUME NEW n \in 1 .. k
          PROVE  result.neighbors[q][n] = t_info.points[r[k - n + 1]]
      <4>1. result.neighbors[q][n] = results[q][k - n + 1]
        BY <2>7
      <4> DEFINE m == k - n + 1
      <4>2. m \in 1 .. k
        BY <3>2
      <4> HIDE DEF m
      <4>3. results[q][m] = t_info.points[r[m]]
        BY <3>1, <4>2
      <4> QED
        BY <4>1, <4>3 DEF m
    <3> QED
      BY <2>7, <3>1, <3>3, ReversedIsNearest DEF RunInv
  <2> HIDE DEF data, query, result
  <2>9. \A q \in 1 .. query.n_queries :
          ListsNearest(data.points, query.points[q], result.neighbors[q])
    BY <2>5, <2>8 DEF Queries
  <2>10. /\ result.training_id = data.id /\ result.query_id = query.id
         /\ result.n_queries = query.n_queries /\ result.n_neighbors = query.n_neighbors
         /\ result.n_dims = data.n_dims
    BY <2>5, <2>7
  <2> QED
    BY <2>9, <2>10 DEF ResultIsNearest, data, query, result
<1> QED
  BY <1>1, RunSpecInv, PTL
=============================================================================

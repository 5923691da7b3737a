# A TLA+ model of k-nn

`k-nn <cores> <train_file> <query_file> <result_file>` reads training points and query points,
builds a k-d tree of the training points with many threads, searches the tree for the k points
nearest to every query with another set of threads, and writes them to a result file. These
modules model the program (`src/driver.cpp`, `knnClass.cpp`, `knnClass.hpp`) and the smaller programs
kept beside it, check them with TLC and prove the main properties with TLAPS.

## The system

| component | code | state | operations | talks to |
|---|---|---|---|---|
| driver | `driver.cpp` | argv, the two mapped input files | `main`, `file_exists`, `get_file`, `train_info_ctor`, `query_info_ctor`, `check_info` | calls `make_tree`, `do_queries`; other runs, through the file system |
| tree construction | `knnClass.cpp:36-271` | nodes, one `node_info` per call | `make_tree`, `populate_nodes` | `merge_sort`, thread budget; its calls share vectors by reference |
| merge sort | `knnClass.cpp:596-784` | one `Info` and two result vectors per call | `merge_sort`, `wrapper` | thread budget |
| thread budget | `knnClass.cpp:1023-1119` | `tmp_thread_count`, `max_threads`, `thread_lock` | `make_thread`, `decrement_tmp_threads`, `set_depth_init_mutex` | every forking call |
| search | `knnClass.cpp:405-588` | priority queue and `num_found` of a query, the stack | `query_nodes`, `distance` | reads the tree |
| query dispatch | `knnClass.cpp:273-401` | the vector `work`, `thread_lock`, handles | `do_queries`, `adhoc_worker` | search, `results_to_file` |
| file formats | `driver.cpp:105-208`, `new/training_data.py`, `new/query_file.py`, `new/dump.cpp` | the words of a file | `train_info_ctor`, `query_info_ctor`, `check_info`, dump's `Reader` | generators write what the driver reads; dump reads all three |
| result file | `knnClass.cpp:837-901` | the file and its mapping, `results`, the ids | `results_to_file` | the file system |
| self tests | `knnClass.cpp:1150-1418` `_test`, `_check_output` | brute-force results | calls commented out in `main` | result file, `results` |
| stand-alone sort | `merge.cpp` | one `Info` per call | `merge_sort`, `wrapper` | none |
| search tree exercise | `new/bst_test/bst.cpp` (and a copy in `misc/bst_test`) | unbalanced tree of doubles | `insert`, `verify` | none |
| input generator | `in/parallel_gen.cpp`, `in/pgen.sh` | an array of `Info` shared by threads | `main`, `generate` | scripts that write files of shared names |
| others | `trash.cpp`, python generators, shell scripts, recorded output | | stand-alone | files |

What is hard in it: threads that fork further threads out of a budget that leaks; locals handed to
threads by reference; calls that run in a thread or inline depending on the schedule; a tree whose
node fields mean different things in two functions (`num_pts`); pruning against a bound that moves;
results of `pthread_create` that nobody looks at; a result file that is tested for early and created
late; a function that can end the process on each of its system calls, most of them after it truncated the
result file; a file whose size and whose index are computed apart; threads that delete one array piece by
piece; scripts that write one file at one time, and do not look at how their generators end. `PROJECT.json`
lists these hazards at their lines.

What makes each part correct: the sort is stable and sorted for every schedule; the tree is the one a
sequential run builds, every point is in one leaf on its side of every split; the counter covers the
threads at work and keeps its limit; the search returns the k nearest points; every query is answered
once and results are taken after all answers; nothing waits for ever; a run that ends well leaves a
complete result, and an incomplete one has a kill, a failed call or a second run as its cause; what a
dump of the result lists is what brute force would find; the tree exercise keeps its order; a generated
file is complete in the end, unless a generator of it failed.

## Modules

| module | models | state and actions |
|---|---|---|
| `KnnOps` | the pure functions: ranges, median with the rounding of `(a + b) / 2.0f`, split, merge, distance | operators; `SequentialNode` is the tree of a sequential run, `IsStableSortOf` what a sort is to return |
| `ThreadBudget` | `make_thread`, `decrement_tmp_threads` | the two counters, unsigned, wrapping at `UIntRange`; each function is one critical section, one step |
| `MergeSort` | `merge_sort`, `wrapper` | `sorts`: one record per call. `SortLeft` and `SortRight` fork (thread, inline, or failed `pthread_create`), `SortMerge` joins and merges; a call that may not fork any more touches nothing shared and is one step |
| `TreeBuild` | `make_tree`, `populate_nodes` over `MergeSort` | `calls`: one record per call of `populate_nodes`, `tree`: the nodes by path. One action per stage of each function |
| `SearchableTree` | what `TreeBuild` promises and `Search` assumes | `IsSearchTree`: the tree `make_tree` leaves behind and `query_nodes` relies on; no state |
| `Search` | `query_nodes` | `seen`: what became of each node, in place of the stack; `queue`, `num_found`. One action per branch |
| `DoQueries` | `do_queries`, `adhoc_worker` | control points of the main thread and of each worker, spin lock, size of the vector. One action per access to shared state; `WriteFails` is an end inside `results_to_file` |
| `QueryBatch` | what `do_queries` promises, abstractly | answers in any order, results taken after all of them |
| `KNearest` | what a query promises, abstractly | one step: a right answer, without a tree |
| `BatchSizes` | the sizes read from the headers | constants `DoQueries` and `ResultFile` share |
| `Formats` | the three file formats, their generators, readers and `dump` | a file is a function from word index to word; operators |
| `ResultFile` | `results_to_file`, `_check_output` | the words of the file, the index and loop counters. One action per store; `OpenFails` (with `lseek`, `write`, `mmap`, `madvise`), `urandomFails` and `UnmapFails` are the places where it ends the process |
| `KnnRun` | one run from input files to result file | `DoQueries` with the queues it leaves out, the inputs of `Formats`, the writer of `ResultFile` inside `WriteAndFree`; `Exit` joins `WriteFails` with one of the writer's ends |
| `Driver` | `main`, `results_to_file`, several runs | control point of each run, the files; a run can be killed at any step, and every system call of `results_to_file` can fail (`OpenFails` before the file is touched; `SetSizeFails`, `urandomFails`, `FinishFails` after it was truncated) |
| `StandaloneSort` | `merge.cpp` | the records of `MergeSort` under the rules of `merge.cpp`: a fixed depth, two threads per call, no budget |
| `SearchTree` | `bst.cpp` | tree by path, the value on its way down. One action per comparison |
| `ParallelGen` | `parallel_gen.cpp`, `pgen.sh` | control point of each thread, the shared array, files by blocks; `GeneratorFails` is a generator that ends before or inside its file, after which the script goes on |
| `MCTreeBuild`, `MCSearch`, `MCKnnRun`, `MCDriver`, `MCPrograms` | instances for TLC; a behaviour of `MCPrograms` is one of the sorts or of the stand-alone programs | |
| `KnnOps_proofs`, `MergeSort_proofs`, `TreeBuild_proofs`, `TreeData_proofs`, `Search_proofs`, `KnnRun_proofs` (with `DoQueries` and `ResultFile`), `Driver_proofs`, `Programs_proofs` | theorems | |

`TreeBuild` extends `MergeSort`, which extends `ThreadBudget` and `KnnOps`: the three share the thread
counter as in the code. What `Search` assumes of the tree of a problem (`IsSearchTree`) is what `TreeBuild`
promises of a finished one (`TreeIsSearchable`): one predicate, checked by TLC on both sides, proved of
every tree that is built and relied on by every theorem about the search. `DoQueries` takes
from `Search` that a search leaves min(k, number of points) in the queue (`HoldsNearest`).
`KnnRun` takes more: that a search puts a right answer into its queue and nothing else, in one step.
This is what `KNearest` says, which `Search` is shown to implement (`AnswersQuery`). Which of several
points at one distance is chosen, and in which order the queue gives them, depends on the tree and on
the library's heap; `KnnRun` leaves both open, so its properties hold for every choice. `Driver` has
several runs and keeps of the result file only whether it is there, empty of results or complete;
what is in a complete one is the matter of `KnnRun`.

Operators commented with *Slip* are plausible errors of the code (a dropped guard, an early return, an
off-by-one). They are in no specification; each shows that a property notices the error when the slip
takes the place of the operator that follows it.

## Abstractions and bounds

* A point is its row number; coordinates are integers that count units in the last place of one
  binade, so that two neighbours have no float between them. Squared distances are exact: rounding of
  sums of squares is not modelled.
* `SampleThreshold = 8` stands for the 100 of `populate_nodes`: sets of 8 to 10 points are on both
  sides of it, and a quarter of 8 is the smallest sample the sort accepts.
* `UIntRange = 128` stands for 2^32; all counts stay below 64, and an underflow is as visible.
* `StackDepth` stands for the stack: 8 is more than any tree of the sets that fit needs, 20 is used
  where the run shows that the depth is not the reason.
* `CreateFailures` bounds failing calls of `pthread_create`: one while the tree is built (the first
  already decides the course), every one of the four workers.
* The sets of points (`MCTreeBuild`): all sets of up to four points of three kinds, with ties, and
  chosen longer ones, so that forks at two depths, inline calls, empty halves, leaves in threads and
  quarter samples all happen. One and two cores give the two smallest budgets, where requests are
  refused; `merge_sort` alone is checked on three cores, three forking depths.
* `Search`: 126 problems; trees of up to seven points with null children, ties of distance, query
  coordinates on a median, k below and equal to the number of points and above it.
* `DoQueries`: four workers and three jobs are the smallest where workers find the vector empty, wait
  for the lock and hold jobs at the same time. The theorems hold for any number.
* `KnnRun`: three points of the plane and three queries, two of them as far from one point as from
  another, so that several answers are right; k = 2 of 3, so that the order of neighbours shows. Four
  workers, each of which may fail to be created. `WordRange = 16` stands for 2^32: ids are numbers of
  two words, both of them different from zero, so that a swapped or lost word is visible; the file
  types are any three different numbers. `ResultIds` holds what urandom may give, one number here.
* `MCPrograms`: `merge_sort` as in a tree build on three cores; `merge.cpp` with `ForkDepth = 2` for
  its 8 and arrays of one, two, three and nine elements, so that calls end above the fork depth, fork
  at both depths and go on serially below it; the tree exercise with all files of up to four values of three
  numbers and NaN; the generator on three cores, the fewest where a middle interval shares both its
  bounds, with two blocks to a file, so that a writer can be between them. One create, `system` or generator fails
  (`GenFailures`); the theorems have any number.
* `Driver`: two runs are enough for each of the races over one file, and for a run that finds what another
  left. A system call that fails ends its run, so their number needs no bound.

## Fairness

Weak fairness of the steps of the program: the operating system runs every thread that can go on. For
`DoQueries` it is one condition per thread; a worker that spins for the lock goes on once the lock is
free at its turn, and jobs are finite, so no strong fairness is needed. For `TreeBuild`, `MergeSort`
and `Search` one condition on the whole step suffices as every behaviour is finite: ending means that no
set of threads waits on each other; `MCPrograms` has the same condition for the same reason. `KnnRun`
has that of `DoQueries`: one per thread, the main thread's including its writing. `Driver` assumes
none of `Kill`.

## Runs

| run | shows |
|---|---|
| `programs` | `merge_sort` and `merge.cpp` sort stably for every schedule and failing create; the counter covers the threads of the one, the depth bounds those of the other; numbers make an ordered search tree, and `verify` accepts exactly the ordered trees, NaN or not; shared files end complete unless a generator fails, and one that is missing is so because of the freed array or a failed generator; everything ends |
| `tree_one_core` | the finished tree is searchable and sequential; counter exact although leaves leak slots and `make_tree` has slots released that were never taken; spread points exhaust the stack only if there are too many for its depth |
| `tree_two_cores` | the same budget shared with nested sorts; vectors outlive their readers; the build ends when a create fails |
| `search` | `num_found` is the size of the queue; pruned points stay prunable; the k nearest are held; `KNearest` is implemented; ends |
| `queries` | jobs run once, none lost; results after all answers; the file grows in order without a gap to the size computed apart and passes `_check_output`; dumps of inputs and result agree, and the result lists the k nearest, nearest first; `QueryBatch` is implemented; with points enough, a core and no failed create it ends with the results written or in a failing call of `results_to_file` |
| `driver_two` | an unshared run that ends well leaves its complete file, an incomplete file has a cause (a kill, a call that fails after the truncation, a second run) and stays as long as nobody removes it, runs that have no results touch nothing, every run ends |

Six runs show where the program does not do what the repository says:

| run | what happens |
|---|---|
| `small_sample` | two or three training points: the quarter to sort is empty, `merge_sort` aborts (`knnClass.cpp:635`) |
| `distinct_points` | distinct points no median separates: `populate_nodes` recurses until the stack is gone |
| `first_thread` | the test of `made_left` is needed (`knnClass.cpp:116`): one-element sorts in threads keep their slots |
| `few_points` | more neighbours asked than points there are: `top()` of an empty queue (`knnClass.cpp:330`) |
| `brute_force_test` | `_test` accepts results that are not nearest: it compares the first `num_found` of each query, a field that stays 0 (`knnClass.cpp:1363`) |
| `driver_race` | two runs with one result name: the finished result of one is truncated by the other |

## Proofs

All constants are arbitrary, under the named assumptions of the modules. The theorems about a tree build
ask for at least one core, one about the generator too: with none the limit of the budget is 0 and
the counter wraps, and the generator has no thread.

The proof modules build on each other: `KnnOps_proofs` (functions), `MergeSort_proofs` (the sort),
`TreeBuild_proofs` (who is at work while a tree is built), `TreeData_proofs` (what they compute).

* `KnnOps_proofs`: what the loops and recursions of class KNN compute. Induction is proved, not assumed:
  for a set of numbers that holds 0 and is closed under successor, `Induction` counts: were m left
  out, n -> n + 1 would map the members up to m one-to-one into themselves without 0. A recursive function
  is a `CHOOSE` of a function that satisfies its equation, so one that does is built first (`FilterExists`,
  `MergeExists`, `SumExists`), then its equation may be used (`FilterUnfolded`, ...). `SerialIsStable`:
  `merge_sort` without forks returns the stable order. Each element of a run is traced to where it stood in
  the vector (`IsRun`), merging keeps the traces in order (`RestLeft`, `RestRight`), and ordered traces
  are the one stable permutation (`RunIsStable`). `DistanceCovers`: no coordinate of two points is farther
  apart than the points are, what pruning rests on.
* `MergeSort_proofs`: `SortBudget`. The counter minus the threads at work never falls: a call that runs in a
  thread gets its slot in the step that puts it in `sorts`, and gives it back in the step with which it
  returns, or keeps it (leaves). And `SortedRuns`, with `RunsInv`: the ranges of the two halves
  of a call that waits are the halves of its range, and each that has returned holds a run of it.
* `TreeBuild_proofs`: the same budget shared by `populate_nodes`, the sorts it calls, and `make_tree`, which
  releases a slot for each child of the root whether it was granted or not. A child of the root is
  counted as owing a slot from the moment `make_tree` asks until its call returns (`RootDebt`). When the
  request is refused the limit was reached, and with nobody else at work all slots are leaked ones, so one of
  them covers the debt. That nobody else is at work then is the matter of the names of calls
  (`SortNames`, `CallNames`, `SortOwners`: the calls above a call are there and wait for it), from which
  `VectorsOutliveReaders` follows as well. Also `TypeOK` and `BudgetCoversThreads`.
* `TreeData_proofs`: four parts.
  The sequential tree by itself: the vector at a node is a half of the one at its parent (`SequentialNext`),
  the halves share no row and lose none, and the median leaves half of the sample or more on the right, of
  spread points on the left as well (`HalvesOfNode`).
  `DInv`: each call has the vector and dimension the sequential recursion gives its node, each sort its sample,
  each node its median, whoever ran it. From it `TreeIsSequential`, and `SortedRuns` of the sorts of a build.
  `ChildrenInv`: without a failed `pthread_create`, a node that split has for each side a node, a call, an
  empty half, or a call still to be made. When nothing is at work that leaves a `Complete` tree; going down the
  side a row reaches must end in a leaf, as paths are no longer than `StackDepth` (`LeafExists`), and two leaves of
  one row would part at a node whose halves share it (`SamePath`). So the rows under a node are those
  that reach it (`UnderReached`), and `TreeIsSearchable` follows.
  `ForksInv`: a call that has forked has its children in `calls`. With it a join of a thread that was never created is
  one of a child that `ChildrenInv` excludes, and the other way to a segmentation fault, a full stack, needs two points
  at its depth, more than `MostAtStackDepth` leaves (`FewAtStackDepth`): `SpreadPointsFit`.
* `Search_proofs`: the geometry is in `GapBound` (no point behind a partition is nearer than it) and
  `PrunedIsSettled` (so with k points held, and none of them farther than the partition, all points
  behind it are settled). `IInv` adds that a subtree not called is not entered (`Unentered`), that a
  point held has had its leaf looked at (`HeldIsSeen`: no point is counted twice), that the first
  child is settled while the second is under way, and that each set of points held has a farthest one
  (`HasFarthest`, carried along the execution). From it: `TypeOK`, `CountIsSize`, `ReturnedIsSettled`,
  `HoldsNearest`, `FarthestShrinks`, and that a search implements `KNearest` (`ImplementsQuery`): the step with
  which the root returns is the one right answer, all others are stutters.
* `KnnRun_proofs`, about `DoQueries`: the inductive invariant adds to the properties: who holds the lock is at a
  control point between lock and unlock (`LockInv`); what was read under the lock still holds
  (`ReadInv`); a job held or answered is off the vector (`OffVector`); a worker leaves only when the
  vector is empty (`LeaveInv`); which workers can exist while the main thread creates, joins or collects
  (`MainInv`). It is needed because none of the properties says what keeps two workers from reading the
  same size. From it: `TypeOK`, `JobsRunOnce`, `NoJobLost`, `CollectAfterAnswers`, and that every
  step is a step or a stutter of `QueryBatch` (`Implements`).
  About `ResultFile`: the arithmetic of the layout. `Index` is injective, is beyond the header, and the last
  index is the last word of the size that is computed apart from it; the loop counters of
  `results_to_file` tell how far the file has come (`WriterAt`), and each word before that is in
  place, each behind it is zero (`WriterInv`).
  About the run: `RunInv` joins both and adds that the inputs are what was read (`InputsInv`), a queue
  holds a right answer from the moment its job is answered until it is taken (`QueuesInv`), a result taken is the
  answer from the farthest point to the nearest (`ResultsInv`), the writer is at work after the last one
  (`PhaseInv`). From it `WrittenAsLaidOut`, `ClosedPassesCheck` and, end to end, `ResultIsNearest`: what
  `dump` lists of a finished result are the k nearest points of each query, the nearest first. The properties of
  `DoQueries` and its refinement carry over, as every step of a run is a step or a stutter of `DoQueries`; an
  `Exit` leaves the writer where it was, so what holds of the file so far holds of what is left.
* `Driver_proofs`: for any number of runs with any inputs and names. `InputsFit` says what main has found of
  the inputs by its place, `OwnStores` what a run that shares its file with no other has stored by its
  place; a store that finds the file truncated therefore belongs to a run that shares its file. From them
  `TypeOK`, `AloneIsComplete`, `IncompleteHasCause`, and the action property `UnfitTouchesNothing`. `LeftoverStays`
  needs little of them: such a file is present, so whoever starts is refused.
* `Programs_proofs`: the sort of `merge.cpp`, on the records of `MergeSort`: `SortedRuns` again, and `ThreadsBounded`
  from the names of its calls, as no budget counts its threads. The generator, where each block that is missing
  of a file has a writer yet to come (`SharedFilesEndComplete`), and what a thread read of its interval is in its
  script or there (`DataDue`), so that a missing file has the early `delete` as its cause, or a generator of
  that file that failed and is among `given_up` (`MissingHasCause`). The
  search tree, where a value lies on the side of each node above it that the comparison of `insert` gave, number
  or not (`Sides`); for numbers that is `NumbersAreOrdered`. `VerifyIsEnough` needs more, that the nodes above
  a node are in the tree (`Closed`): a NaN fails the comparison of `verify` with the node next to it.

Every invariant and action property of the passing runs is thus stated by a theorem. Only model-checked: all
liveness and the ends of programs (`BuildEnds`, `ProgramsEnd`, `SearchEnds`, ...), as the prover has no
fairness, and the six runs that find a counterexample. The stack bound of `SpreadPointsFit` rests on exact
coordinates of one binade, where two points more than a unit apart have a midpoint between them.

## Not modelled

* `closest_dim_pt` and its distance are written by `query_nodes` and decide nothing.
* Thread affinity is behind a flag that is a constant false, or never called; it changes no state.
* What main frees at its end (`dealloc_info`, the destructor with `delete_nodes`): the threads are gone and
  the result is closed by then.
* Heap exhaustion, input files shorter than their headers say, system calls that succeed in part, statistics
  and printing, and the tail of a thread after its last step. A failed `msync` is only printed by the code and is
  no step of its own.
* `k = 0` is excluded by `SizesAssumption` (`BatchSizes`), and so is an empty training file.
* `cores = 0`: the limit is 0 and the counter wraps in `decrement_tmp_threads`.
* Sums of squares are exact: the rounding of `distance` is not modelled, only that of the median.
* `bst_test/make.cpp` writes random doubles; the files of `SearchTree` are any.
* `trash.cpp` is dead code and not compiled. Scripts are quoted for what they claim.

## Plan

1. Done: `KnnOps`, `ThreadBudget`, `MergeSort`, `TreeBuild`, `Search`, `DoQueries` with
   `QueryBatch`, `Driver`; proofs of `DoQueries` and `Search`.
2. Done: the formats and `ResultFile`, the self tests, `KNearest`, the composition `KnnRun`, `merge.cpp`,
   the search tree exercise, `parallel_gen.cpp`; proofs of the budget of `MergeSort` and `TreeBuild`, of
   `ResultFile`, `KnnRun`, `Driver`, the tree exercise and the generator.
3. Done: induction over the recursive functions of `KnnOps`; that sorts sort, for every schedule and in both
   programs; the tree a build leaves behind, up to what `Search` assumes; the stack; the thread bound of `merge.cpp`.
4. Left: which k points of several at one distance the search holds, as a function of the tree; that trees of one
   training set agree in `num_pts` as well, except at the root; what a tree with a failed create lacks.

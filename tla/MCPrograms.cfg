\* merge_sort on three cores: calls fork at depths 0 to 2; merge.cpp forks at depths 0 and 1.
\* parallel_gen on three cores.  pthread_create, or system, or a
\* generator, fails once at most.
CONSTANTS
  num_dimensions = 1
  SampleThreshold = 8
  cores = 3
  UIntRange = 128
  CreateFailures = 1
  Datasets <- Keys
  ForkDepth = 2
  NaN = NaN
  Arrays <- SmallArrays
  gen_cores = 3
  Blocks = 2
  GenFailures = 1
SPECIFICATION Spec
INVARIANT SortBudget
INVARIANT SortedRuns
INVARIANT ThreadsBounded
INVARIANT NumbersAreOrdered
INVARIANT VerifyIsEnough
INVARIANT SharedFilesEndComplete
INVARIANT MissingHasCause
PROPERTY ProgramsEnd

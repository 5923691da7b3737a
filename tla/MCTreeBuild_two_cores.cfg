\* Two cores: forks at depths 0 and 1, six threads, one call of pthread_create may fail.
CONSTANTS
  num_dimensions = 1
  SampleThreshold = 8
  cores = 2
  UIntRange = 128
  CreateFailures = 1
  StackDepth = 8
  Datasets <- BusySets
SPECIFICATION Spec
INVARIANT BudgetCoversThreads
INVARIANT VectorsOutliveReaders
INVARIANT TreeIsSequential
PROPERTY BuildEnds

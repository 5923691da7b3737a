\* One core: two threads, forks at depth 0 only; vectors below and above SampleThreshold.
CONSTANTS
  num_dimensions = 2
  SampleThreshold = 8
  cores = 1
  UIntRange = 128
  CreateFailures = 0
  StackDepth = 8
  Datasets <- OneCoreSets
SPECIFICATION Spec
INVARIANT TypeOK
INVARIANT BudgetCoversThreads
INVARIANT TreeIsSearchable
INVARIANT TreeIsSequential
INVARIANT SpreadPointsFit

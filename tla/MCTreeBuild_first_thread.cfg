\* Eight points: the sort of the sample keeps the budget.
CONSTANTS
  num_dimensions = 1
  SampleThreshold = 8
  cores = 1
  UIntRange = 128
  CreateFailures = 0
  StackDepth = 8
  Datasets <- EightPoints
SPECIFICATION Spec
INVARIANT FirstThreadGranted

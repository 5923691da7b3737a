\* Two or three points: the sample handed to merge_sort is empty.
CONSTANTS
  num_dimensions = 1
  SampleThreshold = 8
  cores = 1
  UIntRange = 128
  CreateFailures = 0
  StackDepth = 8
  Datasets <- TwoOrThree
SPECIFICATION Spec
INVARIANT SampleIsSortable

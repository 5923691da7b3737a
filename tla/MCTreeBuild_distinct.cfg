\* Distinct points of the plane that no median separates.
CONSTANTS
  num_dimensions = 2
  SampleThreshold = 8
  cores = 1
  UIntRange = 128
  CreateFailures = 0
  StackDepth = 20
  Datasets <- DistinctPlane
SPECIFICATION Spec
INVARIANT DistinctPointsFit

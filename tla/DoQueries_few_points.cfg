\* One training point, eleven neighbours asked for.
CONSTANTS
  cores = 1
  num_queries = 2
  num_training_pts = 1
  k = 11
  CreateFailures = 0
SPECIFICATION Spec
INVARIANT QueuesSuffice

\* One worker; the results that _test is to look at are there once the run is done.
CONSTANTS
  cores = 1
  num_queries = 1
  num_training_pts = 3
  k = 2
  CreateFailures = 0
  num_dimensions = 2
  SampleThreshold = 8
  WordRange = 16
  TRAINING = 65
  QUERY = 66
  RESULT = 67
  ResultIds = {5}
  train_id = 33
  query_id = 50
  TrainingSets <- ThreePoints
  QuerySets <- OneQuery
SPECIFICATION RunSpec
INVARIANT TestComparesResults

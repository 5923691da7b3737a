\* Four workers, each of which may not be created, and three queries.
CONSTANTS
  cores = 2
  num_queries = 3
  num_training_pts = 3
  k = 2
  CreateFailures = 4
  num_dimensions = 2
  SampleThreshold = 8
  WordRange = 16
  TRAINING = 65
  QUERY = 66
  RESULT = 67
  ResultIds = {40}
  train_id = 33
  query_id = 50
  TrainingSets <- ThreePoints
  QuerySets <- ThreeQueries
SPECIFICATION RunSpec
INVARIANT TypeOK
INVARIANT JobsRunOnce
INVARIANT NoJobLost
INVARIANT CollectAfterAnswers
INVARIANT WrittenAsLaidOut
INVARIANT ClosedPassesCheck
INVARIANT ResultIsNearest
PROPERTY BatchEnds
PROPERTY ResultsWritten
PROPERTY KeepsPromise

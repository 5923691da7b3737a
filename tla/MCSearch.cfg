\* Trees of the plane and of a line in it.
CONSTANTS
  num_dimensions = 2
  SampleThreshold = 8
  Problems <- AllProblems
SPECIFICATION Spec
INVARIANT TypeOK
INVARIANT CountIsSize
INVARIANT ReturnedIsSettled
INVARIANT HoldsNearest
PROPERTY FarthestShrinks
PROPERTY AnswersQuery
PROPERTY SearchEnds

\* Two runs with every kind of input, on one result file or two.
CONSTANTS
  Runs = {r1, r2}
  Names = {n1, n2}
  NoRun = none
  Inputs <- EveryInput
SPECIFICATION Spec
INVARIANT TypeOK
INVARIANT AloneIsComplete
INVARIANT IncompleteHasCause
PROPERTY LeftoverStays
PROPERTY UnfitTouchesNothing
PROPERTY RunsEnd

\* Two runs of good inputs on one result file.
CONSTANTS
  Runs = {r1, r2}
  Names = {n1}
  NoRun = none
  Inputs <- GoodInput
SPECIFICATION Spec
PROPERTY NeverOverwritten

SPECIFICATION Spec
CONSTANTS
  NThreads = 2
  NNodes = 0
  MaxCommits = 3
  MaxBacks = 0
  Inputs = {"list", "sort", "filter", "mouse"}
  Surroundings = {"edit", "new", "delete", "legacy", "publish", "withdraw"}
  Faults = {}
INVARIANTS ListTrue

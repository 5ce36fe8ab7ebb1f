SPECIFICATION FairSpec
CONSTANTS
  NThreads = 1
  NNodes = 2
  MaxCommits = 3
  MaxBacks = 0
  Inputs = {"detail", "node", "back", "mouse", "quit"}
  Surroundings = {"edit", "diverge"}
  Faults = {"git"}
PROPERTIES EnterOpensDrawnNode DetailCatchesUp

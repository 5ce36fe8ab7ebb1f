SPECIFICATION Spec
CONSTANTS
  NThreads = 2
  NNodes = 1
  MaxCommits = 3
  MaxBacks = 5
  Inputs = {"detail", "select", "edit", "node", "create", "say", "link", "back"}
  Surroundings = {"publish"}
  Faults = {}
INVARIANTS LeavesFormAfterWrite BackReachesList
PROPERTIES NoSilentDiscard LinksWhatWasDrawn

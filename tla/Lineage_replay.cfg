CONSTANTS
  Datasets = {1, 2}
  Leaf <- LeafOf
  Runs = {"job"}
  Reads <- ReadsOf
  Writes <- WritesOf
  Symlinks = {}
  Columns <- ColumnsOf
  Query <- QueryOf
  Depth = 3
  Facts = {"check"}
  MaxMoves = 1
SPECIFICATION Spec
INVARIANT ReplayKeepsTheRest
CHECK_DEADLOCK FALSE

CONSTANTS
  Runs = {dag, task, model, app}
  NoRun = NoRun
  MaxTreeDepth = 64
  Types = {"START", "FAIL", "OTHER"}
  Omitting = {}
SPECIFICATION Spec
SYMMETRY Symmetry
INVARIANTS TreeConsistent OrderIndependent OrphansVisible
CHECK_DEADLOCK FALSE

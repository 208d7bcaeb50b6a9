CONSTANTS
  Runs = {dag, task, app}
  NoRun = NoRun
  MaxTreeDepth = 64
  Types = {"START", "COMPLETE"}
  Omitting = {app}
SPECIFICATION Spec
INVARIANT TreeConsistent
CHECK_DEADLOCK FALSE

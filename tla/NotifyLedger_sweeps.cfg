CONSTANTS
  failure = failure
  incident = incident
  oncall = oncall
  team = team
  Notes = {failure, incident}
  Channels = {oncall, team}
  Routes <- MCRoutes
  Sweepers = {s1, s2}
  Free = Free
  MaxAttempts = 2
  RetryWindow = 0
  MaxTime = 1
  MaxCrashes = 1
SPECIFICATION Spec
INVARIANTS ToldOnce LedgerExact
SYMMETRY Symmetry

CONSTANTS
  dag = dag
  task = task
  model = model
  app = app
  loader = loader
  Runs = {dag, task, model, app, loader}
  NoRun = NoRun
  MaxTreeDepth = 64
  Workers = {w1, w2}
  Free = Free
  Jobs = {dag, task, model, app, loader}
  JobOf <- MCIdentity
  ParentOf <- MCThreeLevels
  HintOf <- MCHints
  orders = orders
  customers = customers
  Datasets = {orders, customers}
  TouchesOf <- MCCrossed
  MayFail = TRUE
SPECIFICATION FairSpec
INVARIANTS TreeSettlesConsistent CommittedWhole
PROPERTY EveryEventLands

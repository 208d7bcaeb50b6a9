CONSTANTS
  dag = dag
  task = task
  model = model
  app = app
  loader = loader
  Runs = {dag, task, model, app}
  NoRun = NoRun
  MaxTreeDepth = 64
  Workers = {w1, w2}
  Free = Free
  Jobs = {dag, task, model, app}
  JobOf <- MCIdentity
  ParentOf <- MCFourLevels
  HintOf <- MCHints
  orders = orders
  customers = customers
  Datasets = {orders, customers}
  TouchesOf <- MCNoDatasets
  MayFail = FALSE
SPECIFICATION Spec
INVARIANT TreeSettlesConsistent

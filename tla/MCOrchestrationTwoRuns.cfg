\* Two runs, one of them refused by its scope, two workers under one id,
\* one of them without the pinned detector.
SPECIFICATION Spec
CONSTANTS
  w1 = w1
  w2 = w2
  r1 = r1
  r2 = r2
  c1 = c1
  c2 = c2
  id1 = id1
  id2 = id2
  d1 = d1
  d2 = d2
  Runs = {r1, r2}
  Workers = {w1, w2}
  WorkerIds = {id1, id2}
  WorkerId <- SharedId
  Detectors = {d1}
  Registered <- W2Behind
  Kinds = {"inventory", "telemetry"}
  Requires <- RequiresInventory
  Unfit = {r2}
  InventoryBatches <- OneInventory
  TelemetryBatches <- NoTelemetry
  Clients = {}
  Target <- AllCancelR1
  MaxStepAttempts = 2
  Nobody = Nobody
  NoClaim = NoClaim
PROPERTIES
  StaleWorkerWritesNothing
\* Once both runs have ended there is nothing left to do.
CHECK_DEADLOCK FALSE

\* A cancel request against one worker that completes the collect step.
SPECIFICATION Spec
CONSTANTS
  w1 = w1
  w2 = w2
  r1 = r1
  r2 = r2
  c1 = c1
  c2 = c2
  id1 = id1
  id2 = id2
  d1 = d1
  d2 = d2
  Runs = {r1}
  Workers = {w1}
  WorkerIds = {id1}
  WorkerId <- SharedId
  Detectors = {d1}
  Registered <- AllRegistered
  Kinds = {"inventory", "telemetry"}
  Requires <- RequiresInventory
  Unfit = {}
  InventoryBatches <- NoInventory
  TelemetryBatches <- NoTelemetry
  Clients = {c1}
  Target <- AllCancelR1
  MaxStepAttempts = 2
  Nobody = Nobody
  NoClaim = NoClaim
INVARIANTS
  CancelDuringEvaluateIsRecorded

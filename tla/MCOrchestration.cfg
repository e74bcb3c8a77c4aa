\* One run, two workers under one id, one cancel request, two attempts.
SPECIFICATION Spec
CONSTANTS
  w1 = w1
  w2 = w2
  r1 = r1
  r2 = r2
  c1 = c1
  c2 = c2
  id1 = id1
  id2 = id2
  d1 = d1
  d2 = d2
  Runs = {r1}
  Workers = {w1, w2}
  WorkerIds = {id1}
  WorkerId <- SharedId
  Detectors = {d1}
  Registered <- AllRegistered
  Kinds = {"inventory", "telemetry"}
  Requires <- RequiresInventory
  Unfit = {}
  InventoryBatches <- InventoryAnswers
  TelemetryBatches <- TelemetryAnswers
  Clients = {c1}
  Target <- AllCancelR1
  MaxStepAttempts = 2
  Nobody = Nobody
  NoClaim = NoClaim
SYMMETRY WorkerSymmetry
INVARIANTS
  TypeOK
  StepsFitRun
  ChecksNeverFire
  OneFenceHolder
PROPERTIES
  LegalTransitions
  ImplementsLifecycle

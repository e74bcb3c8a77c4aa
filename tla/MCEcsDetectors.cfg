\* Any two flaws; the parameters of the ecs-payments profile.
SPECIFICATION Spec
CONSTANTS
  Worlds <- SomeWorlds
  replacementCountThreshold = 2
  runningDeficitThreshold = 1
  unhealthyTargetReasons = {"Target.FailedHealthChecks"}
  deficitSustainedPercent = 80
  WindowFrom = 2
  WindowTo = 4
  MaxFlaws = 2
INVARIANTS
  FlawlessVerdictIsTruth
  FindingsCiteTheirEvidence
PROPERTIES
  FlawsOnlyRaiseDoubt
CHECK_DEADLOCK FALSE

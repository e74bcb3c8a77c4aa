----------------------- MODULE EcsDetectorsProperties -----------------------
(* What the verdicts of the two detectors may be relied on for.            *)
EXTENDS EcsDetectors

(* Whatever is lost, late, contradictory or of another service in the      *)
(* evidence (FlawKinds) can make a detector doubt, never change its mind:  *)
(* an UNKNOWN is not hidden as healthy and no FAIL is invented             *)
(* (threat-model:34, ADR-0008:44).                                         *)
FlawsOnlyRaiseDoubt ==
  [][/\ GrdEcs001' \in {GrdEcs001, "UNKNOWN"}
     /\ GrdObs001' \in {GrdObs001, "UNKNOWN"}]_vars

\* ADR-0005, as ADR-0007 and ADR-0008 amend it, on what the account holds.
Replacements ==
  {i \in DOMAIN world.tasks : /\ world.tasks[i].status = "STOPPED"
                              /\ world.tasks[i].stoppedAt \in WindowFrom..WindowTo}

Deficits ==
  {i \in DOMAIN world.datapoints : world.datapoints[i] < world.desired}

RepeatedReplacement ==
  /\ \E reason \in unhealthyTargetReasons :
       [state |-> "unhealthy", reason |-> reason] \in world.targets
  /\ \/ Cardinality(Replacements) >= replacementCountThreshold
     \/ world.desired - Running(world.tasks) >= runningDeficitThreshold
     \/ /\ world.datapoints # <<>>
        /\ 100 * Cardinality(Deficits)
             >= deficitSustainedPercent * Len(world.datapoints)

NoMetricToDecide ==
  /\ world.datapoints = <<>>
  /\ \E reason \in unhealthyTargetReasons :
       [state |-> "unhealthy", reason |-> reason] \in world.targets

Covered(metric, of) ==
  \E alarm \in world.alarms :
    /\ alarm.actionsEnabled /\ alarm.actions # {}
    /\ alarm.metric = metric /\ alarm.of = of

CoveredByTasks == Covered("ECS/ContainerInsights RunningTaskCount", "service")

CoveredByHosts ==
  \E g \in world.groups : Covered("AWS/ApplicationELB UnHealthyHostCount", g)

EcsTruth ==
  IF Cardinality(world.groups) # 1 \/ ~world.healthCheck THEN "UNKNOWN"
  ELSE IF RepeatedReplacement THEN "FAIL"
  ELSE IF NoMetricToDecide THEN "UNKNOWN" ELSE "PASS"

ObsTruth ==
  IF CoveredByTasks THEN "PASS"
  ELSE IF Cardinality(world.groups) # 1 THEN "UNKNOWN"
  ELSE IF CoveredByHosts THEN "PASS" ELSE "FAIL"

(* Over evidence without a flaw the verdicts are those of the truth        *)
(* tables, for every account (ADR-0005 to ADR-0008).                       *)
FlawlessVerdictIsTruth ==
  (\A kind \in Kinds : flaws[kind] = {} \/ UnreadHealth(world, kind)) =>
    GrdEcs001 = EcsTruth /\ GrdObs001 = ObsTruth

(* A finding cites evidence, and one that says PASS none it could not have *)
(* used, although all it needed (ADR-0005: every finding cites at least    *)
(* one observation).                                                       *)
FindingsCiteTheirEvidence ==
  /\ Present(Kinds) # {} => CitedByEcs # {} /\ CitedByObs # {}
  /\ GrdEcs001 = "PASS" =>
       /\ InventoryKinds \subseteq CitedByEcs
       /\ \A kind \in CitedByEcs : ~requiredUnusable(kind)
  /\ GrdObs001 # "UNKNOWN" =>
       \A kind \in CitedByObs : ~requiredUnusable(kind)
============================================================================

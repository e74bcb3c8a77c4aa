---------------------------- MODULE EcsDetectors ----------------------------
(***************************************************************************)
(* GRD-ECS-001 and GRD-OBS-001 over the six kinds of evidence.             *)
(*                                                                         *)
(* `world` is what the account had to show about the service, `flaws` what *)
(* is wrong with the observations a run has of it: they gather one by one  *)
(* in any order, and the detectors judge what they are given.  Detectors   *)
(* read the first observation of a kind, so there is one of each here.     *)
(***************************************************************************)
EXTENDS Naturals, Sequences, FiniteSets

CONSTANTS
  Worlds,                     \* what an account may hold
  replacementCountThreshold,  \* the pinned detector parameters
  runningDeficitThreshold,
  unhealthyTargetReasons,
  deficitSustainedPercent,    \* deficitSustainedFraction * 100
  WindowFrom, WindowTo,       \* the evidence window
  MaxFlaws                    \* bound on the flaws of a run's evidence

VARIABLES world, flaws

vars == <<world, flaws>>

InventoryKinds == {"service", "tasks", "targetGroup", "targetHealth"}

Kinds == InventoryKinds \cup {"metric", "alarms"}

\* contradictory: a target group or its health is of another group than the
\* service names, or the service counts other running tasks than there are.
\* The groups the service names are the measure, as they are for GRD-OBS-001.
\* misnamed: the payload is of another service than the run's.
FlawKinds == {"missing", "inaccessible", "truncated", "stale", "unparsable",
              "incomplete", "contradictory", "misnamed"}

ParametersOK ==
  /\ replacementCountThreshold \in Nat \ {0}
  /\ runningDeficitThreshold \in Nat
  /\ deficitSustainedPercent \in 0..100

ASSUME ParametersAssumption == ParametersOK

\* Time 0 stands for none, so it lies before every window.
ASSUME WindowAssumption == WindowFrom \in Nat \ {0} /\ WindowTo \in Nat

\* Lists are finite, counts and datapoints are numbers.
ASSUME WorldsAssumption ==
  \A w \in Worlds :
    /\ w.desired \in Nat /\ IsFiniteSet(w.groups)
    /\ w.tasks \in Seq([status : STRING, stoppedAt : Nat])
    /\ w.targets \subseteq [state : STRING, reason : STRING]
    /\ w.datapoints \in Seq(Nat)

\* The collector leaves the health of several target groups unread; of one
\* group named twice too, which is the flaw "incomplete" here.
UnreadHealth(w, kind) ==
  kind = "targetHealth" /\ Cardinality(w.groups) # 1

Init ==
  /\ world \in Worlds
  /\ flaws = [kind \in Kinds |->
                IF UnreadHealth(world, kind) THEN {"incomplete"} ELSE {}]

FlawCount ==
  Cardinality({pair \in Kinds \X FlawKinds : pair[2] \in flaws[pair[1]]})

MayContradict == InventoryKinds \ {"tasks"}

Flaw(kind, flaw) ==
  /\ FlawCount < MaxFlaws /\ flaw \notin flaws[kind]
  /\ flaw = "contradictory" => kind \in MayContradict
  /\ flaw = "misnamed" => kind = "service"
  /\ flaws' = [flaws EXCEPT ![kind] = @ \cup {flaw}]
  /\ UNCHANGED world

Next == \E kind \in Kinds, flaw \in FlawKinds : Flaw(kind, flaw)

Spec == Init /\ [][Next]_vars
----------------------------------------------------------------------------
(* What a detector finds in an observation.                                *)

Has(kind, some) == flaws[kind] \cap some # {}

observationsOfKind(kind) == {kind} \ {k \in Kinds : Has(k, {"missing"})}

requiredUnusable(kind) ==
  Has(kind, {"missing", "inaccessible", "truncated", "stale"})

\* The payload of an inaccessible or truncated observation has no fields.
Parsed(kind) ==
  ~Has(kind, {"missing", "inaccessible", "truncated", "unparsable"})

asComplete(kind) == Parsed(kind) /\ ~Has(kind, {"incomplete"})

Agrees(kind) == ~Has(kind, {"contradictory"})

OfTarget(kind) == ~Has(kind, {"misnamed"})

Running(tasks) ==
  Cardinality({i \in DOMAIN tasks : tasks[i].status = "RUNNING"})

servicePayload ==
  [desiredCount    |-> world.desired,
   runningCount    |-> Running(world.tasks) + IF Agrees("service") THEN 0 ELSE 1,
   targetGroupArns |-> IF Parsed("service") THEN world.groups ELSE {}]

UniqueGroup == CHOOSE g \in world.groups : TRUE

\* What is incomplete lacks what it should have shown.
tasksPayload == IF asComplete("tasks") THEN world.tasks ELSE <<>>

\* The health-check path and matcher of the service's one target group.
targetGroupRecords == IF Agrees("targetGroup") THEN {UniqueGroup} ELSE {}

targetHealthPayload ==
  [targetGroupArns |-> IF Agrees("targetHealth") THEN {UniqueGroup} ELSE {},
   targets         |-> IF asComplete("targetHealth") THEN world.targets ELSE {}]

metricPayload == IF asComplete("metric") THEN world.datapoints ELSE <<>>

alarmsPayload == IF asComplete("alarms") THEN world.alarms ELSE {}
----------------------------------------------------------------------------
(* GRD-ECS-001.                                                            *)

runningCountContradicts ==
  servicePayload.runningCount # Running(tasksPayload)

unknownBecause ==
  \/ \E kind \in InventoryKinds : requiredUnusable(kind) \/ ~asComplete(kind)
  \/ ~OfTarget("service")
  \/ Cardinality(servicePayload.targetGroupArns) # 1
  \/ targetGroupRecords # servicePayload.targetGroupArns
  \/ targetHealthPayload.targetGroupArns # servicePayload.targetGroupArns
  \/ runningCountContradicts

healthCheckPresent == world.healthCheck

metricUnusable ==
  \/ requiredUnusable("metric") \/ ~asComplete("metric")
  \/ Len(metricPayload) = 0

unhealthy ==
  \E target \in targetHealthPayload.targets :
    target.state = "unhealthy" /\ target.reason \in unhealthyTargetReasons

ReplacedInside(task) ==
  /\ task.status = "STOPPED" /\ task.stoppedAt # 0
  /\ WindowFrom < task.stoppedAt /\ task.stoppedAt < WindowTo

Replaced(task) ==
  /\ task.status = "STOPPED" /\ task.stoppedAt # 0
  /\ WindowFrom <= task.stoppedAt /\ task.stoppedAt <= WindowTo

replacementHits ==
  Cardinality({i \in DOMAIN tasksPayload : Replaced(tasksPayload[i])})
    >= replacementCountThreshold

\* runningCount may exceed desiredCount.
snapshotHits ==
  servicePayload.desiredCount
    >= runningDeficitThreshold + servicePayload.runningCount

sustainedDeficit(points, desired) ==
  LET below == {i \in DOMAIN points : points[i] < desired}
  IN  /\ Len(points) > 0
      /\ Cardinality(below) * 100 >= deficitSustainedPercent * Len(points)

metricHits ==
  ~metricUnusable /\ sustainedDeficit(metricPayload, servicePayload.desiredCount)

deficitHits == snapshotHits \/ metricHits

FailsEcs == unhealthy /\ (replacementHits \/ deficitHits)

HealthWouldDecide == unhealthy /\ replacementHits /\ ~snapshotHits

MetricWouldDecide == unhealthy /\ ~replacementHits /\ ~snapshotHits

DoubtsEcs ==
  \/ unknownBecause \/ ~healthCheckPresent
  \/ MetricWouldDecide /\ metricUnusable

GrdEcs001 == IF DoubtsEcs THEN "UNKNOWN" ELSE IF FailsEcs THEN "FAIL" ELSE "PASS"

EcsKinds == InventoryKinds \cup {"metric"}

Present(kinds) == UNION {observationsOfKind(kind) : kind \in kinds}

\* A detector that has none of its kinds cites whatever there is.
CitedOr(cited) == IF cited # {} THEN cited ELSE Present(Kinds)

CitedWhatever == CitedOr(Present(EcsKinds))

CitedByEcs ==
  CitedOr(IF GrdEcs001 = "PASS"
          THEN {kind \in Present(EcsKinds) : ~requiredUnusable(kind)}
          ELSE Present(EcsKinds))
----------------------------------------------------------------------------
(* GRD-OBS-001.                                                            *)

inventoryComplete == ~requiredUnusable("alarms") /\ asComplete("alarms")

Notifies(alarm) == alarm.actionsEnabled /\ alarm.actions # {}

uniqueGroupKnown == Cardinality(servicePayload.targetGroupArns) = 1

unhealthyTargetAlarm ==
  /\ inventoryComplete /\ uniqueGroupKnown
  /\ \E alarm \in alarmsPayload :
       /\ Notifies(alarm)
       /\ alarm.metric = "AWS/ApplicationELB UnHealthyHostCount"
       /\ alarm.of \in servicePayload.targetGroupArns

runningTaskAlarm ==
  /\ inventoryComplete
  /\ \E alarm \in alarmsPayload :
       /\ Notifies(alarm)
       /\ alarm.metric = "ECS/ContainerInsights RunningTaskCount"
       /\ alarm.of = "service"

GrdObs001 ==
  IF ~inventoryComplete \/ requiredUnusable("service") \/ ~Parsed("service")
  THEN "UNKNOWN"
  ELSE IF unhealthyTargetAlarm \/ runningTaskAlarm THEN "PASS"
  ELSE IF uniqueGroupKnown THEN "FAIL" ELSE "UNKNOWN"

CitedByObs == CitedOr(Present({"alarms", "service"}))
============================================================================

------------------------- MODULE EcsDetectorsProofs -------------------------
(***************************************************************************)
(* For any account, window, thresholds and number of flaws.  Both verdicts *)
(* are written once more without payloads, as functions of the account and *)
(* of what is trusted (EcsVerdict, ObsVerdict).  Trust is only ever lost.  *)
(***************************************************************************)
EXTENDS EcsDetectorsProperties, FiniteSetTheorems, TLAPS

Lost == {"missing", "inaccessible", "truncated", "stale", "unparsable", "incomplete"}

Lossless(kind) == flaws[kind] \cap Lost = {}

EcsTrusted ==
  /\ Cardinality(world.groups) = 1
  /\ \A kind \in InventoryKinds : Lossless(kind)
  /\ \A kind \in MayContradict : Agrees(kind)
  /\ OfTarget("service")

ObsTrusted ==
  /\ Lossless("alarms") /\ ~requiredUnusable("service") /\ Parsed("service")

Sick ==
  \E reason \in unhealthyTargetReasons :
    [state |-> "unhealthy", reason |-> reason] \in world.targets

Replacing == Cardinality(Replacements) >= replacementCountThreshold

Short == world.desired - Running(world.tasks) >= runningDeficitThreshold

ShortForLong ==
  /\ world.datapoints # <<>>
  /\ 100 * Cardinality(Deficits) >= deficitSustainedPercent * Len(world.datapoints)

DecidedByMetric == Sick /\ ~Replacing /\ ~Short

WellFormed ==
  /\ world \in Worlds
  /\ flaws \in [Kinds -> SUBSET FlawKinds]
  /\ \A kind \in Kinds : UnreadHealth(world, kind) => "incomplete" \in flaws[kind]
----------------------------------------------------------------------------
(* What the detectors read.                                                *)

(* What a payload holds is what the account holds, as far as it is read.   *)
LEMMA Payloads ==
  /\ servicePayload.desiredCount = world.desired
  /\ servicePayload.runningCount =
       Running(world.tasks) + IF Agrees("service") THEN 0 ELSE 1
  /\ servicePayload.targetGroupArns = IF Parsed("service") THEN world.groups ELSE {}
  /\ targetHealthPayload.targetGroupArns =
       IF Agrees("targetHealth") THEN {UniqueGroup} ELSE {}
  /\ targetHealthPayload.targets =
       IF asComplete("targetHealth") THEN world.targets ELSE {}
BY DEF servicePayload, targetHealthPayload

(* An observation without a loss is one the detectors may use.             *)
LEMMA UsableIsLossless ==
  ASSUME NEW kind
  PROVE  /\ Lossless(kind) <=> ~requiredUnusable(kind) /\ asComplete(kind)
         /\ Lossless(kind) => Parsed(kind)
BY DEF Lossless, Lost, requiredUnusable, asComplete, Parsed, Has

(* The number of running tasks is a number.                                *)
LEMMA RunningCount ==
  ASSUME world \in Worlds
  PROVE  Running(world.tasks) \in Nat
<1>1. /\ world.tasks \in Seq([status : STRING, stoppedAt : Nat])
      /\ DOMAIN world.tasks = 1..Len(world.tasks)
  BY WorldsAssumption
<1>2. IsFiniteSet(DOMAIN world.tasks)
  BY <1>1, FS_Interval
<1>3. IsFiniteSet({i \in DOMAIN world.tasks : world.tasks[i].status = "RUNNING"})
  BY <1>2, FS_Subset
<1>. QED
  BY <1>3, FS_CardinalityType DEF Running

(* The one group of a service with one group.                              *)
LEMMA TheGroup ==
  ASSUME world \in Worlds, Cardinality(world.groups) = 1
  PROVE  world.groups = {UniqueGroup}
<1>1. PICK g : world.groups = {g}
  BY FS_Singleton, WorldsAssumption
<1>. QED
  BY <1>1 DEF UniqueGroup

(* GRD-ECS-001 doubts the inventory exactly when it is not to be trusted.  *)
LEMMA DoubtIsMistrust ==
  ASSUME world \in Worlds
  PROVE  unknownBecause <=> ~EcsTrusted
<1>1. CASE \E kind \in InventoryKinds : ~Lossless(kind)
  BY <1>1, UsableIsLossless DEF unknownBecause, EcsTrusted
<1>2. CASE \A kind \in InventoryKinds : Lossless(kind)
  <2>1. /\ \A kind \in InventoryKinds : ~requiredUnusable(kind) /\ asComplete(kind)
        /\ Parsed("service") /\ asComplete("tasks")
    BY <1>2, UsableIsLossless DEF InventoryKinds
  <2>2. servicePayload.targetGroupArns = world.groups /\ tasksPayload = world.tasks
    BY <2>1, Payloads DEF tasksPayload
  <2>3. CASE Cardinality(world.groups) # 1
    BY <2>2, <2>3 DEF unknownBecause, EcsTrusted
  <2>4. CASE Cardinality(world.groups) = 1
    <3>1. world.groups = {UniqueGroup}
      BY <2>4, TheGroup
    <3>2. /\ targetGroupRecords # world.groups <=> ~Agrees("targetGroup")
          /\ targetHealthPayload.targetGroupArns # world.groups <=> ~Agrees("targetHealth")
      BY <3>1, Payloads DEF targetGroupRecords
    <3>3. runningCountContradicts <=> ~Agrees("service")
      BY <2>2, Payloads, RunningCount DEF runningCountContradicts
    <3>4. MayContradict = {"service", "targetGroup", "targetHealth"}
      BY DEF MayContradict, InventoryKinds
    <3>. QED
      BY <1>2, <2>1, <2>2, <2>4, <3>2, <3>3, <3>4 DEF unknownBecause, EcsTrusted
  <2>. QED
    BY <2>3, <2>4
<1>. QED
  BY <1>1, <1>2

(* What a trusted inventory shows is what the account holds.               *)
LEMMA TrustedInventory ==
  ASSUME world \in Worlds, EcsTrusted
  PROVE  /\ unhealthy <=> Sick
         /\ replacementHits <=> Replacing
         /\ snapshotHits <=> Short
<1>1. /\ asComplete("tasks") /\ asComplete("targetHealth") /\ Agrees("service")
  BY UsableIsLossless DEF EcsTrusted, InventoryKinds, MayContradict
<1>2. /\ targetHealthPayload.targets = world.targets /\ tasksPayload = world.tasks
      /\ servicePayload.desiredCount = world.desired
      /\ servicePayload.runningCount = Running(world.tasks)
  BY <1>1, Payloads, RunningCount DEF tasksPayload
<1>3. unhealthy <=> Sick
  <2>1. world.targets \subseteq [state : STRING, reason : STRING]
    BY WorldsAssumption
  <2>2. \A target \in world.targets :
          target.state = "unhealthy" =>
            target = [state |-> "unhealthy", reason |-> target.reason]
    BY <2>1
  <2>3. \A reason : /\ [state |-> "unhealthy", reason |-> reason].state = "unhealthy"
                    /\ [state |-> "unhealthy", reason |-> reason].reason = reason
    OBVIOUS
  <2>. QED
    BY <1>2, <2>2, <2>3 DEF unhealthy, Sick
<1>4. replacementHits <=> Replacing
  <2>1. \A i \in DOMAIN world.tasks : world.tasks[i].stoppedAt \in Nat
    <3>1. PICK tasks \in Seq([status : STRING, stoppedAt : Nat]) : tasks = world.tasks
      BY WorldsAssumption
    <3>2. \A i \in DOMAIN tasks : tasks[i] \in [status : STRING, stoppedAt : Nat]
      <4>1. \A S : \A s \in Seq(S) : \A i \in DOMAIN s : s[i] \in S
        OBVIOUS
      <4>. QED
        BY <4>1, Zenon
    <3>3. \A task \in [status : STRING, stoppedAt : Nat] : task.stoppedAt \in Nat
      OBVIOUS
    <3>. QED
      BY <3>1, <3>2, <3>3, Zenon
  <2>2. \A i \in DOMAIN world.tasks :
          Replaced(world.tasks[i]) <=>
            /\ world.tasks[i].status = "STOPPED"
            /\ world.tasks[i].stoppedAt \in WindowFrom..WindowTo
    BY <2>1, WindowAssumption DEF Replaced
  <2>3. {i \in DOMAIN world.tasks : Replaced(world.tasks[i])} = Replacements
    BY <2>2 DEF Replacements
  <2>. QED
    BY <1>2, <2>3 DEF replacementHits, Replacing
<1>5. snapshotHits <=> Short
  <2>1. /\ world.desired \in Nat /\ Running(world.tasks) \in Nat
        /\ runningDeficitThreshold \in Nat
    BY WorldsAssumption, RunningCount, ParametersAssumption DEF ParametersOK
  <2>. QED
    BY <1>2, <2>1 DEF snapshotHits, Short
<1>. QED
  BY <1>3, <1>4, <1>5

(* The metric decides when it was read without a loss.                     *)
LEMMA MetricRead ==
  ASSUME world \in Worlds
  PROVE  /\ metricUnusable <=> ~Lossless("metric") \/ world.datapoints = <<>>
         /\ metricHits <=> Lossless("metric") /\ ShortForLong
<1>1. world.datapoints \in Seq(Nat)
  BY WorldsAssumption
<1>2. Lossless("metric") => metricPayload = world.datapoints
  BY UsableIsLossless DEF metricPayload
<1>3. metricUnusable <=> ~Lossless("metric") \/ world.datapoints = <<>>
  <2>1. Len(world.datapoints) = 0 <=> world.datapoints = <<>>
    BY <1>1
  <2>. QED
    BY <1>2, <2>1, UsableIsLossless DEF metricUnusable
<1>4. ASSUME Lossless("metric"), world.datapoints # <<>>
      PROVE  metricHits <=> ShortForLong
  <2>1. Len(world.datapoints) \in Nat /\ Len(world.datapoints) > 0
    BY <1>1, <1>4
  <2>2. /\ metricPayload = world.datapoints /\ ~metricUnusable
        /\ servicePayload.desiredCount = world.desired
    BY <1>2, <1>3, <1>4, Payloads
  <2>3. IsFiniteSet(Deficits)
    <3>1. DOMAIN world.datapoints = 1..Len(world.datapoints)
      BY <1>1
    <3>2. IsFiniteSet(DOMAIN world.datapoints)
      BY <2>1, <3>1, FS_Interval
    <3>. QED
      BY <3>2, FS_Subset DEF Deficits
  <2>4. PICK below \in Nat : below = Cardinality(Deficits)
    BY <2>3, FS_CardinalityType
  <2>5. metricHits <=> below * 100 >= deficitSustainedPercent * Len(world.datapoints)
    BY <2>1, <2>2, <2>4 DEF metricHits, sustainedDeficit, Deficits
  <2>6. below * 100 = 100 * below
    OBVIOUS
  <2>. QED
    BY <1>4, <2>4, <2>5, <2>6 DEF ShortForLong
<1>. QED
  BY <1>3, <1>4 DEF metricHits, ShortForLong
----------------------------------------------------------------------------
(* The verdicts.                                                           *)

(* GRD-ECS-001 in terms of the account and of what is trusted.             *)
LEMMA EcsVerdict ==
  world \in Worlds =>
    GrdEcs001 =
      IF \/ ~EcsTrusted \/ ~world.healthCheck
         \/ DecidedByMetric /\ (~Lossless("metric") \/ world.datapoints = <<>>)
      THEN "UNKNOWN"
      ELSE IF Sick /\ (Replacing \/ Short \/ (Lossless("metric") /\ ShortForLong))
      THEN "FAIL" ELSE "PASS"
<1>. SUFFICES ASSUME world \in Worlds
              PROVE  GrdEcs001 =
                       IF \/ ~EcsTrusted \/ ~world.healthCheck
                          \/ /\ DecidedByMetric
                             /\ ~Lossless("metric") \/ world.datapoints = <<>>
                       THEN "UNKNOWN"
                       ELSE IF /\ Sick
                               /\ \/ Replacing \/ Short
                                  \/ Lossless("metric") /\ ShortForLong
                       THEN "FAIL" ELSE "PASS"
  OBVIOUS
<1>1. CASE ~EcsTrusted
  BY <1>1, DoubtIsMistrust DEF GrdEcs001, DoubtsEcs
<1>2. CASE EcsTrusted
  <2>1. DoubtsEcs <=> \/ ~world.healthCheck
                      \/ /\ DecidedByMetric
                         /\ ~Lossless("metric") \/ world.datapoints = <<>>
    BY <1>2, DoubtIsMistrust, TrustedInventory, MetricRead
    DEF DoubtsEcs, healthCheckPresent, MetricWouldDecide, DecidedByMetric
  <2>2. FailsEcs <=> /\ Sick
                     /\ \/ Replacing \/ Short
                        \/ Lossless("metric") /\ ShortForLong
    BY <1>2, TrustedInventory, MetricRead DEF FailsEcs, deficitHits
  <2>. QED
    BY <1>2, <2>1, <2>2 DEF GrdEcs001
<1>. QED
  BY <1>1, <1>2

(* GRD-OBS-001 is true to the account or does not say.                     *)
LEMMA ObsVerdict == GrdObs001 = IF ObsTrusted THEN ObsTruth ELSE "UNKNOWN"
<1>1. CASE ~ObsTrusted
  BY <1>1, UsableIsLossless DEF ObsTrusted, GrdObs001, inventoryComplete
<1>2. CASE ObsTrusted
  <2>1. /\ inventoryComplete /\ ~requiredUnusable("service") /\ Parsed("service")
        /\ alarmsPayload = world.alarms
        /\ servicePayload.targetGroupArns = world.groups
    BY <1>2, UsableIsLossless, Payloads DEF ObsTrusted, inventoryComplete, alarmsPayload
  <2>2. uniqueGroupKnown <=> Cardinality(world.groups) = 1
    BY <2>1 DEF uniqueGroupKnown
  <2>3. runningTaskAlarm <=> CoveredByTasks
    BY <2>1 DEF runningTaskAlarm, Notifies, CoveredByTasks, Covered
  <2>4. unhealthyTargetAlarm <=> Cardinality(world.groups) = 1 /\ CoveredByHosts
    BY <2>1, <2>2 DEF unhealthyTargetAlarm, Notifies, CoveredByHosts, Covered
  <2>. QED
    BY <1>2, <2>1, <2>2, <2>3, <2>4 DEF GrdObs001, ObsTruth
<1>. QED
  BY <1>1, <1>2
----------------------------------------------------------------------------
(* Flaws gather.                                                           *)

(* A flaw is one more flaw of one kind.                                    *)
LEMMA FlawsGather ==
  ASSUME WellFormed, [Next]_vars
  PROVE  WellFormed' /\ world' = world /\ \A kind \in Kinds : flaws[kind] \subseteq flaws'[kind]
<1>1. CASE UNCHANGED vars
  BY <1>1 DEF vars, WellFormed, UnreadHealth
<1>2. ASSUME NEW kind \in Kinds, NEW flaw \in FlawKinds, Flaw(kind, flaw)
      PROVE  WellFormed' /\ world' = world /\ \A k \in Kinds : flaws[k] \subseteq flaws'[k]
  <2>1. world' = world /\ flaws' = [flaws EXCEPT ![kind] = flaws[kind] \cup {flaw}]
    BY <1>2 DEF Flaw
  <2>2. /\ flaws' \in [Kinds -> SUBSET FlawKinds]
        /\ \A k \in Kinds : flaws[k] \subseteq flaws'[k]
    BY <2>1 DEF WellFormed
  <2>. QED
    BY <2>1, <2>2 DEF WellFormed, UnreadHealth
<1>. QED
  BY <1>1, <1>2 DEF Next

(* An account of the kind there is, and flaws of the known kinds.          *)
LEMMA AlwaysWellFormed == Spec => []WellFormed
<1>1. Init => WellFormed
  BY DEF Init, WellFormed, FlawKinds
<1>2. WellFormed /\ [Next]_vars => WellFormed'
  BY FlawsGather
<1>. QED
  BY <1>1, <1>2, PTL DEF Spec

(* What is trusted later was trusted before.                               *)
LEMMA TrustIsLost ==
  ASSUME WellFormed, [Next]_vars
  PROVE  /\ EcsTrusted' => EcsTrusted
         /\ ObsTrusted' => ObsTrusted
         /\ Lossless("metric")' => Lossless("metric")
<1>1. world' = world /\ \A kind \in Kinds : flaws[kind] \subseteq flaws'[kind]
  BY FlawsGather
<1>2. /\ InventoryKinds \subseteq Kinds /\ MayContradict \subseteq Kinds
      /\ "alarms" \in Kinds /\ "service" \in Kinds /\ "metric" \in Kinds
  BY DEF Kinds, InventoryKinds, MayContradict
<1>3. \A kind \in Kinds : /\ Lossless(kind)' => Lossless(kind)
                          /\ Agrees(kind)' => Agrees(kind)
                          /\ OfTarget(kind)' => OfTarget(kind)
                          /\ Parsed(kind)' => Parsed(kind)
                          /\ (~requiredUnusable(kind))' => ~requiredUnusable(kind)
  BY <1>1 DEF Lossless, Agrees, OfTarget, Parsed, requiredUnusable, Has
<1>. QED
  BY <1>1, <1>2, <1>3 DEF EcsTrusted, ObsTrusted

(* A flaw may raise a doubt, it never changes a verdict.                   *)
THEOREM DoubtIsAllTheyRaise == Spec => FlawsOnlyRaiseDoubt
<1>1. (world \in Worlds =>
         GrdEcs001 =
           IF \/ ~EcsTrusted \/ ~world.healthCheck
              \/ DecidedByMetric /\ (~Lossless("metric") \/ world.datapoints = <<>>)
           THEN "UNKNOWN"
           ELSE IF Sick /\ (Replacing \/ Short \/ (Lossless("metric") /\ ShortForLong))
           THEN "FAIL" ELSE "PASS")'
  BY EcsVerdict, PTL
<1>2. (GrdObs001 = IF ObsTrusted THEN ObsTruth ELSE "UNKNOWN")'
  BY ObsVerdict, PTL
<1>3. WellFormed /\ [Next]_vars =>
        [/\ GrdEcs001' \in {GrdEcs001, "UNKNOWN"}
         /\ GrdObs001' \in {GrdObs001, "UNKNOWN"}]_vars
  <2>. SUFFICES ASSUME WellFormed, [Next]_vars
                PROVE  /\ GrdEcs001' \in {GrdEcs001, "UNKNOWN"}
                       /\ GrdObs001' \in {GrdObs001, "UNKNOWN"}
    OBVIOUS
  <2>1. world' = world /\ world \in Worlds
    BY FlawsGather DEF WellFormed
  <2>2. /\ Sick' <=> Sick
        /\ Replacing' <=> Replacing
        /\ Short' <=> Short
        /\ ShortForLong' <=> ShortForLong
        /\ ObsTruth' = ObsTruth
    BY <2>1, Zenon DEF Sick, Replacing, Replacements, Short, Running, ShortForLong, Deficits,
                       ObsTruth, CoveredByTasks, CoveredByHosts, Covered
  <2>3. GrdEcs001' \in {GrdEcs001, "UNKNOWN"}
    BY <1>1, <2>1, <2>2, TrustIsLost, EcsVerdict DEF DecidedByMetric
  <2>4. GrdObs001' \in {GrdObs001, "UNKNOWN"}
    BY <1>2, <2>2, TrustIsLost, ObsVerdict
  <2>. QED
    BY <2>3, <2>4
<1>. QED
  BY <1>3, AlwaysWellFormed, PTL DEF Spec, FlawsOnlyRaiseDoubt

(* Without a flaw the verdicts are those of the truth tables.              *)
THEOREM FlawlessIsTrue == Spec => []FlawlessVerdictIsTruth
<1>1. WellFormed => FlawlessVerdictIsTruth
  <2>. SUFFICES ASSUME WellFormed,
                       \A kind \in Kinds : flaws[kind] = {} \/ UnreadHealth(world, kind)
                PROVE  GrdEcs001 = EcsTruth /\ GrdObs001 = ObsTruth
    BY DEF FlawlessVerdictIsTruth
  <2>1. world \in Worlds
    BY DEF WellFormed
  <2>2. \A kind \in Kinds \ {"targetHealth"} : flaws[kind] = {}
    BY DEF UnreadHealth
  <2>3. \A kind \in Kinds \ {"targetHealth"} : Lossless(kind)
    BY <2>2 DEF Lossless
  <2>4. ObsTrusted
    BY <2>3, UsableIsLossless DEF ObsTrusted, Kinds, InventoryKinds
  <2>5. Lossless("metric")
    BY <2>3 DEF Kinds, InventoryKinds
  <2>6. EcsTrusted <=> Cardinality(world.groups) = 1
    <3>1. ASSUME Cardinality(world.groups) = 1, NEW kind \in Kinds
          PROVE  Lossless(kind) /\ Agrees(kind)
      BY <3>1 DEF UnreadHealth, Lossless, Agrees, Has
    <3>2. InventoryKinds \subseteq Kinds /\ MayContradict \subseteq Kinds
      BY DEF Kinds, MayContradict
    <3>3. OfTarget("service")
      BY <2>2 DEF OfTarget, Has, Kinds, InventoryKinds
    <3>. QED
      BY <3>1, <3>2, <3>3 DEF EcsTrusted
  <2>7. RepeatedReplacement <=> Sick /\ (Replacing \/ Short \/ ShortForLong)
    BY DEF RepeatedReplacement, Sick, Replacing, Short, ShortForLong
  <2>8. NoMetricToDecide <=> Sick /\ world.datapoints = <<>>
    BY DEF NoMetricToDecide, Sick
  <2>9. GrdEcs001 = EcsTruth
    BY <2>1, <2>5, <2>6, <2>7, <2>8, EcsVerdict DEF EcsTruth, DecidedByMetric, ShortForLong
  <2>. QED
    BY <2>4, <2>9, ObsVerdict
<1>. QED
  BY <1>1, AlwaysWellFormed, PTL

(* A finding cites something, and a PASS only what it could use.           *)
THEOREM FindingsAreFounded == Spec => []FindingsCiteTheirEvidence
<1>1. FindingsCiteTheirEvidence
  <2>1. Present(Kinds) # {} => CitedByEcs # {} /\ CitedByObs # {}
    BY DEF CitedByEcs, CitedByObs, CitedOr
  <2>2. \A kind \in Kinds : ~requiredUnusable(kind) => observationsOfKind(kind) = {kind}
    BY DEF observationsOfKind, requiredUnusable, Has
  <2>3. \A kinds : \A kind \in Present(kinds) : kind \in kinds
    BY DEF Present, observationsOfKind
  <2>4. ASSUME GrdEcs001 = "PASS"
        PROVE  /\ InventoryKinds \subseteq CitedByEcs
               /\ \A kind \in CitedByEcs : ~requiredUnusable(kind)
    <3>1. \A kind \in InventoryKinds : ~requiredUnusable(kind)
      BY <2>4 DEF GrdEcs001, DoubtsEcs, unknownBecause
    <3>2. InventoryKinds \subseteq Present(EcsKinds)
      BY <2>2, <3>1 DEF Present, EcsKinds, Kinds
    <3>3. CitedByEcs = {kind \in Present(EcsKinds) : ~requiredUnusable(kind)}
      BY <2>4, <3>1, <3>2 DEF CitedByEcs, CitedOr, InventoryKinds
    <3>. QED
      BY <3>1, <3>2, <3>3
  <2>5. ASSUME GrdObs001 # "UNKNOWN"
        PROVE  \A kind \in CitedByObs : ~requiredUnusable(kind)
    <3>1. ~requiredUnusable("alarms") /\ ~requiredUnusable("service")
      BY <2>5 DEF GrdObs001, inventoryComplete
    <3>2. "alarms" \in Present({"alarms", "service"})
      BY <2>2, <3>1 DEF Present, Kinds
    <3>3. CitedByObs = Present({"alarms", "service"})
      BY <3>2 DEF CitedByObs, CitedOr
    <3>. QED
      BY <2>3, <3>1, <3>3
  <2>. QED
    BY <2>1, <2>4, <2>5 DEF FindingsCiteTheirEvidence
<1>. QED
  BY <1>1, PTL
=============================================================================

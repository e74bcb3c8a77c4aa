------------------------ MODULE CollectorsProperties ------------------------
(* What the evidence of a collect step may be relied on for.               *)
EXTENDS Collectors

TypeOK ==
  /\ account \in [Tasks -> {"absent", "RUNNING", "STOPPED", "gone"}]
  /\ alarmPages \in 0..MaxPages /\ fence \in {"held", "lost"}
  /\ at \in Calls \cup {"begin", "between", "persist", "complete", "ended"}
  /\ turn \in {"call", "page", "retry", "again"}
  /\ reply.more \in BOOLEAN
  /\ pages \in Nat /\ (at # "describeTasks" => pages < MaxPages)
  /\ read \subseteq Tasks /\ arns \subseteq Tasks /\ described \subseteq arns
  /\ groups \subseteq OwnGroups \cup ForeignGroups
  /\ \A i \in DOMAIN observations : observations[i] \in Observation
  /\ \A i \in DOMAIN evidence : evidence[i] \in Observation
  /\ outcome \in {"open", "succeeded", "outOfScope", "fenceLost", "retryable"}
  /\ late \in Nat

Kept(kind) == {i \in DOMAIN evidence : evidence[i].kind = kind}

(* A collect step that succeeds has left one observation of every required *)
(* kind and no second one, whatever was refused, throttled or ambiguous on *)
(* the way and whatever a port had gathered before it gave up.             *)
EveryKindOnce ==
  outcome = "succeeded" =>
    \A kind \in InventoryKinds \cup TelemetryKinds :
      Cardinality(Kept(kind)) = 1

Complete(kind) ==
  \E i \in DOMAIN evidence : evidence[i].kind = kind /\ evidence[i].complete

(* Task evidence that calls itself complete describes every task that was  *)
(* there when the step began and has not vanished since, although tasks    *)
(* stop between two pages: RUNNING ones are listed before STOPPED ones.    *)
CompleteTasksMissNone ==
  Complete("tasks") =>
    \A a \in OldTasks : account[a] # "gone" => a \in described

(* Alarm evidence is complete exactly when the account's last page was     *)
(* read: at the page bound it is if nothing follows (ADR-0007:130).        *)
CompleteAlarmsAreAll ==
  \A i \in Kept("alarms") :
    evidence[i].code = "none" =>
      (evidence[i].complete <=> alarmPages <= PageBound)

(* Evidence that calls itself complete misses nothing.                     *)
CompleteMissesNothing == CompleteTasksMissNone /\ CompleteAlarmsAreAll

(* Health evidence is complete only for a service that names one target    *)
(* group, once, and nothing that lies outside the scope of the run becomes *)
(* evidence.                                                               *)
EvidenceStaysInScope ==
  /\ Complete("targetHealth") => Cardinality(groups) = 1
  /\ groups \subseteq OwnGroups \/ ~Complete("service")
  /\ outcome = "outOfScope" => evidence = <<>>

(* A worker that has lost its fence writes nothing more and asks AWS at    *)
(* most once more, although the ports take the FenceLostError of onPage    *)
(* for an error of AWS (ADR-0002:103).                                     *)
LostFenceStopsWork ==
  [][fence = "lost" => evidence' = evidence /\ late' <= 1]_vars

(* A step comes to its end, also when AWS throttles every call and the     *)
(* account changes as it is read.                                          *)
CollectionEnds == <>(outcome # "open")
=============================================================================

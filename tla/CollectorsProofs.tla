-------------------------- MODULE CollectorsProofs --------------------------
(***************************************************************************)
(* For any number of tasks, groups and pages: what a collect step leaves   *)
(* is one observation of each kind, in order (Shape), each of which says   *)
(* the truth from the moment the port returns it (Truth).                  *)
(*                                                                         *)
(* The truth about the tasks is prepared while they are listed: what runs  *)
(* is on a page before what has stopped is asked for (NoneMissed, Fitting).*)
(***************************************************************************)
EXTENDS CollectorsProperties, SequenceTheorems, FiniteSetTheorems, TLAPS

\* The kinds in the order in which they are collected.
AllKinds == <<"service", "tasks", "targetGroup", "targetHealth", "alarms", "metric">>

\* A result takes its places after the n observations before it.
Follows(result, n) ==
  \A i \in 1..Len(result) : n + i <= 6 /\ result[i].kind = AllKinds[n + i]

\* How many observations are persisted, and how many the port has so far.
Lengths(kept, gained) ==
  /\ at \in InventoryCalls \cup {"begin"} => kept = 0
  /\ at \in TelemetryCalls \cup {"between"} => kept = 4
  /\ at \in {"begin", "describeServices", "between", "describeAlarms", "complete"} =>
       gained = 0
  /\ at \in {"listRunning", "listStopped", "describeTasks", "getMetricData"} =>
       gained = 1
  /\ at = "describeTargetGroups" => gained = 2
  /\ at = "describeTargetHealth" => gained = 3
  /\ at = "persist" =>
       gained >= 1 /\ kept + gained = IF kept < 4 THEN 4 ELSE 6
  /\ at = "complete" \/ outcome = "succeeded" => kept = 6
  /\ outcome = "outOfScope" => kept = 0

Shape ==
  /\ Follows(evidence, 0)
  /\ at # "ended" => Follows(observations, Len(evidence))
  /\ Lengths(Len(evidence), Len(observations))

\* What an observation says of the account is so.
Honest(o) ==
  /\ o.kind = "targetHealth" /\ o.complete => Cardinality(groups) = 1
  /\ o.kind = "service" /\ o.complete => groups \subseteq OwnGroups
  /\ o.kind = "tasks" /\ o.complete =>
       \A a \in OldTasks : account[a] # "gone" => a \in described
  /\ o.kind = "alarms" /\ o.code = "none" =>
       (o.complete <=> alarmPages <= PageBound)

\* Until the target groups have been looked at, the service is not known to
\* be in scope.
ScopeKnown == TelemetryCalls \cup {"describeTargetGroups", "describeTargetHealth", "persist"}

Truth ==
  /\ \A i \in 1..Len(evidence) : Honest(evidence[i])
  /\ at \in ScopeKnown => \A i \in 1..Len(observations) : Honest(observations[i])

\* What an operation may answer.
Fitting(call, answer) ==
  /\ answer.more \in BOOLEAN
  /\ call = "describeServices" => answer.items \subseteq ServiceFound
  /\ call \in {"listRunning", "listStopped"} => answer.items \subseteq Tasks
  /\ call = "describeTasks" => answer.items \subseteq arns
  /\ answer.more /\ call # "describeTasks" => pages + 1 < MaxPages
  /\ call = "listRunning" /\ ~answer.more =>
       \A a \in OldTasks : account[a] = "RUNNING" => a \in arns \cup answer.items
  /\ call = "listStopped" /\ ~answer.more =>
       \A a \in OldTasks : account[a] # "gone" => a \in arns \cup answer.items
  /\ call = "describeAlarms" => (answer.more <=> pages + 1 < alarmPages)

\* The tasks that were there at first are listed before they stop.
NoneMissed ==
  /\ \A a \in OldTasks : account[a] # "absent"
  /\ at = "listStopped" => \A a \in OldTasks : account[a] = "RUNNING" => a \in arns
  /\ at = "describeTasks" => \A a \in OldTasks : account[a] # "gone" => a \in arns

Cursor ==
  /\ turn = "page" => Fitting(at, reply)
  /\ read \subseteq arns
  /\ at = "describeTargetHealth" => Cardinality(groups) = 1
  /\ at = "describeAlarms" => pages < PageBound
  /\ outcome # "open" <=> at = "ended"

\* A worker without its fence waits for the check that stops it.
Stopped ==
  at \in {"persist", "ended"} \/ (at \in Calls /\ turn \in {"page", "retry"})

LateOnce == /\ fence = "held" => late = 0
            /\ late # 0 => late = 1 /\ Stopped

Typed == TypeOK /\ observations \in Seq(Observation) /\ evidence \in Seq(Observation)

CInv == Typed /\ Shape /\ Truth /\ NoneMissed /\ Cursor /\ LateOnce
----------------------------------------------------------------------------
(* Observations.                                                           *)

(* What the adapter says of an answer, and of a refusal.                   *)
LEMMA ObservedFields ==
  /\ \A kind \in InventoryKinds \cup TelemetryKinds, c \in BOOLEAN :
       /\ Observed(kind, c) \in Observation
       /\ Observed(kind, c).kind = kind /\ Observed(kind, c).complete = c
       /\ Observed(kind, c).code = "none"
  /\ \A kind \in InventoryKinds \cup TelemetryKinds, code \in RefusalCodes \cup {"incomplete"} :
       /\ Inaccessible(kind, code) \in Observation
       /\ Inaccessible(kind, code).kind = kind
       /\ Inaccessible(kind, code).complete = FALSE
       /\ Inaccessible(kind, code).code # "none"
BY DEF Observed, Inaccessible, Observation, RefusalCodes, Codes

(* The order of the kinds, place by place.                                 *)
LEMMA KindsInOrder ==
  /\ AllKinds[1] = "service" /\ AllKinds[2] = "tasks"
  /\ AllKinds[3] = "targetGroup" /\ AllKinds[4] = "targetHealth"
  /\ AllKinds[5] = "alarms" /\ AllKinds[6] = "metric"
BY DEF AllKinds

(* A port that gives up returns its kinds, and says of none that it is     *)
(* complete.                                                               *)
LEMMA RefusalsFollow ==
  ASSUME NEW call \in Calls, NEW code \in RefusalCodes \cup {"incomplete"}
  PROVE  /\ AllInaccessible(call, code) \in Seq(Observation)
         /\ Len(AllInaccessible(call, code)) = IF call \in InventoryCalls THEN 4 ELSE 2
         /\ Follows(AllInaccessible(call, code), IF call \in InventoryCalls THEN 0 ELSE 4)
         /\ \A i \in 1..Len(AllInaccessible(call, code)) :
              /\ AllInaccessible(call, code)[i].complete = FALSE
              /\ AllInaccessible(call, code)[i].code # "none"
<1>1. \A kind \in InventoryKinds \cup TelemetryKinds :
        /\ Inaccessible(kind, code) \in Observation
        /\ Inaccessible(kind, code).kind = kind
        /\ Inaccessible(kind, code).complete = FALSE
        /\ Inaccessible(kind, code).code # "none"
  BY ObservedFields
<1>2. CASE call \in InventoryCalls
  <2> DEFINE s == Inaccessible("service", code)
             k == Inaccessible("tasks", code)
             g == Inaccessible("targetGroup", code)
             h == Inaccessible("targetHealth", code)
  <2>1. AllInaccessible(call, code) = <<s, k, g, h>>
    BY <1>2 DEF AllInaccessible
  <2>2. /\ s \in Observation /\ k \in Observation /\ g \in Observation /\ h \in Observation
        /\ s.kind = "service" /\ k.kind = "tasks"
        /\ g.kind = "targetGroup" /\ h.kind = "targetHealth"
        /\ \A o \in {s, k, g, h} : o.complete = FALSE /\ o.code # "none"
    BY <1>1 DEF InventoryKinds
  <2>. HIDE DEF s, k, g, h
  <2>3. /\ <<s, k, g, h>> \in Seq(Observation) /\ Len(<<s, k, g, h>>) = 4
    BY <2>2
  <2>4. Follows(<<s, k, g, h>>, 0)
    BY <2>2, KindsInOrder DEF Follows
  <2>5. \A i \in 1..4 : <<s, k, g, h>>[i] \in {s, k, g, h}
    OBVIOUS
  <2>. QED
    BY <1>2, <2>1, <2>2, <2>3, <2>4, <2>5
<1>3. CASE call \notin InventoryCalls
  <2> DEFINE m == Inaccessible("alarms", code)
             d == Inaccessible("metric", code)
  <2>1. AllInaccessible(call, code) = <<m, d>>
    BY <1>3 DEF AllInaccessible
  <2>2. /\ m \in Observation /\ d \in Observation
        /\ m.kind = "alarms" /\ d.kind = "metric"
        /\ \A o \in {m, d} : o.complete = FALSE /\ o.code # "none"
    BY <1>1 DEF TelemetryKinds
  <2>. HIDE DEF m, d
  <2>3. /\ <<m, d>> \in Seq(Observation) /\ Len(<<m, d>>) = 2
    BY <2>2
  <2>4. Follows(<<m, d>>, 4)
    BY <2>2, KindsInOrder DEF Follows
  <2>5. \A i \in 1..2 : <<m, d>>[i] \in {m, d}
    OBVIOUS
  <2>. QED
    BY <1>3, <2>1, <2>2, <2>3, <2>4, <2>5
<1>. QED
  BY <1>2, <1>3

(* One more observation.                                                   *)
LEMMA OneMore ==
  ASSUME NEW result \in Seq(Observation), NEW o \in Observation,
         NEW longer, longer = Append(result, o)
  PROVE  /\ longer \in Seq(Observation) /\ Len(longer) = Len(result) + 1
         /\ \A i \in 1..Len(result) : longer[i] = result[i]
         /\ longer[Len(result) + 1] = o
BY AppendProperties

(* A target group that was found, health that was read or not, a metric.   *)
LEMMA SomeObserved ==
  \A kind \in InventoryKinds \cup TelemetryKinds, c \in BOOLEAN :
    \E o \in Observation :
      /\ o = Observed(kind, c) /\ o.kind = kind /\ o.complete = c /\ o.code = "none"
BY ObservedFields

(* A batch is made of tasks that were listed.                              *)
LEMMA BatchIsListed ==
  ASSUME TypeOK
  PROVE  Batch \subseteq arns
<1> DEFINE left == arns \ read
<1>1. IsFiniteSet(left) /\ BatchSize \in Nat
  BY BoundsAssumption, FS_Subset DEF TypeOK
<1>. HIDE DEF left
<1>2. Cardinality(left) \in Nat /\ ExistsBijection(1..Cardinality(left), left)
  BY <1>1, FS_CardinalityType
<1>3. CASE Cardinality(left) <= BatchSize
  BY <1>3 DEF Batch, left
<1>4. CASE ~(Cardinality(left) <= BatchSize)
  <2>1. \E b \in SUBSET left : Cardinality(b) = BatchSize
    <3>1. PICK f \in Bijection(1..Cardinality(left), left) : TRUE
      BY <1>2 DEF ExistsBijection
    <3> DEFINE b == {f[i] : i \in 1..BatchSize}
               g == [i \in 1..BatchSize |-> f[i]]
    <3>2. 1..BatchSize \subseteq 1..Cardinality(left)
      BY <1>1, <1>2, <1>4
    <3>3. /\ \A i \in 1..Cardinality(left) : f[i] \in left
          /\ \A i, j \in 1..Cardinality(left) : f[i] = f[j] => i = j
      BY <3>1 DEF Bijection, Injection, Surjection, IsInjective
    <3>4. b \in SUBSET left
      BY <3>2, <3>3
    <3>5. g \in Bijection(1..BatchSize, b)
      BY <3>2, <3>3 DEF Bijection, Injection, Surjection, IsInjective
    <3>6. Cardinality(b) = BatchSize
      BY <1>1, <3>5, FS_CountingElements DEF ExistsBijection
    <3>. QED
      BY <3>4, <3>6
  <2>2. Batch = CHOOSE b \in SUBSET left : Cardinality(b) = BatchSize
    BY <1>4 DEF Batch, left
  <2>3. Batch \in SUBSET left
    BY <2>1, <2>2, Zenon
  <2>. QED
    BY <2>3 DEF left
<1>. QED
  BY <1>3, <1>4
----------------------------------------------------------------------------
(* The kinds of steps.                                                     *)

(* Whether a call is made with the fence lost is counted.                  *)
LEMMA LateCalls ==
  ASSUME CInv, at \in Calls, turn \in {"call", "again"}, CountLate
  PROVE  late' \in Nat /\ (fence = "held" => late' = 0) /\ late' \in {0, 1}
<1>1. late = 0
  BY DEF CInv, LateOnce, Stopped, Calls, InventoryCalls, TelemetryCalls
<1>. QED
  BY <1>1 DEF CountLate

(* An operation answers.                                                   *)
LEMMA AskKeeps ==
  ASSUME CInv, NEW call \in Calls, NEW answers, Ask(call, answers),
         \A r \in answers : Fitting(call, r)
  PROVE  CInv'
<1>1. /\ at = call /\ turn \in {"call", "again"} /\ turn' = "page"
      /\ Fitting(call, reply') /\ CountLate
      /\ UNCHANGED <<account, alarmPages, fence, at, pages, read, groups, arns,
                     described, observations, evidence, outcome>>
  BY DEF Ask, Calling, world, gathered
<1>2. late' \in Nat /\ (fence = "held" => late' = 0) /\ late' \in {0, 1}
  BY <1>1, LateCalls
<1>3. Typed'
  BY <1>1, <1>2 DEF CInv, Typed, TypeOK, Fitting
<1>4. Shape' /\ Truth'
  BY <1>1 DEF CInv, Shape, Follows, Lengths, Truth, Honest
<1>5. NoneMissed'
  BY <1>1 DEF CInv, NoneMissed
<1>6. Cursor'
  BY <1>1 DEF CInv, Cursor, Fitting
<1>7. LateOnce'
  BY <1>1, <1>2 DEF LateOnce, Stopped
<1>. QED
  BY <1>3, <1>4, <1>5, <1>6, <1>7 DEF CInv

(* An operation is due once more.                                          *)
LEMMA TurnKeeps ==
  ASSUME CInv, at \in Calls, NEW next \in {"retry", "again"}, turn' = next,
         UNCHANGED <<account, alarmPages, fence, at, reply, pages, read, groups, arns,
                     described, observations, evidence, outcome>>,
         \/ next = "retry" /\ turn \in {"call", "again"} /\ CountLate
         \/ next = "again" /\ fence = "held" /\ late' = late
  PROVE  CInv'
<1>1. /\ late' \in Nat /\ (fence = "held" => late' = 0) /\ late' \in {0, 1}
      /\ next = "again" => late' = 0
  BY LateCalls DEF CInv, LateOnce
<1>2. Typed'
  BY <1>1 DEF CInv, Typed, TypeOK
<1>3. Shape' /\ Truth'
  BY DEF CInv, Shape, Follows, Lengths, Truth, Honest
<1>4. NoneMissed' /\ Cursor'
  BY DEF CInv, NoneMissed, Cursor
<1>5. LateOnce'
  BY <1>1 DEF LateOnce, Stopped
<1>. QED
  BY <1>2, <1>3, <1>4, <1>5 DEF CInv

(* The next page is due.                                                   *)
LEMMA PageKeeps ==
  ASSUME CInv, at \in Calls, turn = "page", fence = "held", NextPage,
         UNCHANGED <<account, alarmPages, fence, groups, observations, evidence,
                     outcome, late>>,
         at # "describeTasks" => pages + 1 < MaxPages,
         at = "describeAlarms" => pages + 1 < PageBound,
         arns \subseteq arns', arns' \subseteq Tasks, read' \subseteq arns',
         described' = described \/ (at = "describeTasks" /\ described' \subseteq arns')
  PROVE  CInv'
<1>1. /\ turn' = "call" /\ reply' = NoReply /\ pages' = pages + 1 /\ at' = at
      /\ NoReply.more = FALSE /\ late = 0
  BY DEF NextPage, NoReply, CInv, LateOnce
<1>2. Typed'
  <2>1. Typed
    BY DEF CInv
  <2>2. pages' \in Nat /\ (at' # "describeTasks" => pages' < MaxPages)
    BY <1>1, <2>1 DEF Typed, TypeOK
  <2>3. read' \subseteq Tasks /\ arns' \subseteq Tasks /\ described' \subseteq arns'
    BY <2>1 DEF Typed, TypeOK
  <2>. QED
    BY <1>1, <2>1, <2>2, <2>3 DEF Typed, TypeOK
<1>3. Shape'
  BY <1>1 DEF CInv, Shape, Follows, Lengths
<1>4. Truth'
  <2>1. CASE described' = described
    BY <1>1, <2>1 DEF CInv, Truth, Honest
  <2>2. CASE at = "describeTasks"
    <3>1. Len(evidence) = 0 /\ at' \notin ScopeKnown
      BY <1>1, <2>2 DEF CInv, Shape, Lengths, InventoryCalls, ScopeKnown, TelemetryCalls
    <3>. QED
      BY <1>1, <3>1 DEF Truth
  <2>. QED
    BY <2>1, <2>2
<1>5. NoneMissed'
  BY <1>1 DEF CInv, NoneMissed
<1>6. Cursor'
  BY <1>1 DEF CInv, Cursor, Typed, TypeOK
<1>7. LateOnce'
  BY <1>1 DEF LateOnce
<1>. QED
  BY <1>2, <1>3, <1>4, <1>5, <1>6, <1>7 DEF CInv

(* The port returns.                                                       *)
LEMMA ReturnKeeps ==
  ASSUME CInv, at \in Calls, NEW result \in Seq(Observation), Return(result),
         UNCHANGED <<account, alarmPages, fence, groups, arns, evidence, outcome>>,
         late' \in {0, 1}, fence = "held" => late' = 0,
         Len(result) = IF at \in InventoryCalls THEN 4 ELSE 2,
         Follows(result, Len(evidence)),
         \A i \in 1..Len(result) : Honest(result[i])',
         described' = described \/ (at = "describeTasks" /\ described' \subseteq arns)
  PROVE  CInv'
<1>1. /\ observations' = result /\ at' = "persist" /\ turn' = "call"
      /\ reply' = NoReply /\ pages' = 0 /\ read' = {} /\ NoReply.more = FALSE
  BY DEF Return, GoTo, NoReply
<1>2. Typed'
  <2>1. Typed /\ 0 < MaxPages
    BY BoundsAssumption DEF CInv
  <2>2. described' \subseteq arns' /\ read' \subseteq Tasks
    BY <1>1, <2>1 DEF Typed, TypeOK
  <2>3. /\ observations' \in Seq(Observation)
        /\ \A i \in DOMAIN observations' : observations'[i] \in Observation
    BY <1>1, <2>1 DEF Typed, TypeOK
  <2>4. late' \in Nat /\ evidence' = evidence /\ outcome' = outcome
    OBVIOUS
  <2>. QED
    BY <1>1, <2>1, <2>2, <2>3, <2>4 DEF Typed, TypeOK
<1>3. Len(evidence) = IF at \in InventoryCalls THEN 0 ELSE 4
  BY DEF CInv, Shape, Lengths, Calls
<1>4. Shape'
  <2>1. Follows(evidence, 0)' /\ Follows(observations, Len(evidence))'
    BY <1>1 DEF CInv, Shape, Follows
  <2>2. outcome = "open"
    BY DEF CInv, Cursor, Typed, TypeOK, Calls, InventoryCalls, TelemetryCalls
  <2>3. /\ \/ Len(evidence') = 0 /\ Len(observations') = 4
           \/ Len(evidence') = 4 /\ Len(observations') = 2
        /\ outcome' = "open" /\ at' = "persist"
    BY <1>1, <1>3, <2>2
  <2>4. \A kept, gained :
          (kept = 0 /\ gained = 4) \/ (kept = 4 /\ gained = 2) => Lengths(kept, gained)'
    BY <2>3 DEF Lengths, InventoryCalls, TelemetryCalls
  <2>. QED
    BY <2>1, <2>3, <2>4 DEF Shape
<1>5. Truth'
  <2>1. \A i \in 1..Len(evidence) : Honest(evidence[i])'
    <3>1. CASE at \in InventoryCalls
      BY <1>3, <3>1
    <3>2. CASE at \notin InventoryCalls
      <4>1. described' = described
        BY <3>2 DEF InventoryCalls
      <4>. QED
        BY <4>1 DEF CInv, Truth, Honest
    <3>. QED
      BY <3>1, <3>2
  <2>. QED
    BY <1>1, <2>1 DEF Truth, Honest
<1>6. NoneMissed'
  BY <1>1 DEF CInv, NoneMissed
<1>7. Cursor'
  <2>1. outcome = "open"
    BY DEF CInv, Cursor, Typed, TypeOK, Calls, InventoryCalls, TelemetryCalls
  <2>. QED
    BY <1>1, <2>1 DEF Cursor
<1>8. LateOnce'
  BY <1>1 DEF LateOnce, Stopped
<1>. QED
  BY <1>2, <1>4, <1>5, <1>6, <1>7, <1>8 DEF CInv

(* The port goes on to its next operation.                                 *)
LEMMA GoesOnKeeps ==
  ASSUME CInv, at \in Calls, fence = "held", NEW call \in Calls, GoTo(call),
         UNCHANGED <<account, alarmPages, fence, evidence, outcome, late>>,
         at \in InventoryCalls <=> call \in InventoryCalls,
         call # "describeAlarms",
         Typed', Lengths(Len(evidence), Len(observations))',
         Follows(observations', Len(evidence)),
         call \in ScopeKnown => \A i \in 1..Len(observations') : Honest(observations[i])',
         NoneMissed',
         call = "describeTargetHealth" => Cardinality(groups') = 1,
         at \in TelemetryCalls => UNCHANGED <<groups, described>>
  PROVE  CInv'
<1>1. /\ at' = call /\ turn' = "call" /\ reply' = NoReply /\ pages' = 0 /\ read' = {}
      /\ late = 0
  BY DEF GoTo, CInv, LateOnce
<1>2. outcome = "open" /\ call # "ended"
  BY DEF CInv, Cursor, Typed, TypeOK, Calls, InventoryCalls, TelemetryCalls
<1>3. Len(evidence) = IF at \in InventoryCalls THEN 0 ELSE 4
  BY DEF CInv, Shape, Lengths, Calls
<1>4. Shape'
  <2>1. Follows(evidence, 0)' /\ Follows(observations, Len(evidence))'
    BY DEF CInv, Shape, Follows
  <2>. QED
    BY <1>1, <2>1 DEF Shape
<1>5. Truth'
  <2>1. \A i \in 1..Len(evidence) : Honest(evidence[i])'
    <3>1. CASE at \in InventoryCalls
      BY <1>3, <3>1
    <3>2. CASE at \in TelemetryCalls
      BY <3>2 DEF CInv, Truth, Honest
    <3>. QED
      BY <3>1, <3>2 DEF Calls
  <2>. QED
    BY <1>1, <2>1 DEF Truth, Honest
<1>6. Cursor'
  BY <1>1, <1>2 DEF Cursor
<1>7. LateOnce'
  BY <1>1 DEF LateOnce
<1>. QED
  BY <1>4, <1>5, <1>6, <1>7 DEF CInv

(* The step ends.                                                          *)
LEMMA EndKeeps ==
  ASSUME CInv, NEW result \in {"succeeded", "outOfScope", "fenceLost", "retryable"},
         outcome' = result, GoTo("ended"), at # "ended",
         UNCHANGED <<account, alarmPages, fence, groups, arns, observations, evidence, late>>,
         described' = described \/ (at = "describeTasks" /\ described' \subseteq arns),
         result = "succeeded" => at = "complete",
         result = "outOfScope" => at \in InventoryCalls
  PROVE  CInv'
<1>1. /\ at' = "ended" /\ turn' = "call" /\ reply' = NoReply /\ pages' = 0 /\ read' = {}
      /\ NoReply.more = FALSE
  BY DEF GoTo, NoReply
<1>2. Typed'
  <2>1. Typed /\ 0 < MaxPages
    BY BoundsAssumption DEF CInv
  <2>2. described' \subseteq arns' /\ read' \subseteq Tasks
    BY <1>1, <2>1 DEF Typed, TypeOK
  <2>3. /\ observations' \in Seq(Observation)
        /\ \A i \in DOMAIN observations' : observations'[i] \in Observation
    BY <1>1, <2>1 DEF Typed, TypeOK
  <2>. QED
    BY <1>1, <2>1, <2>2, <2>3 DEF Typed, TypeOK
<1>3. Shape'
  <2>1. Follows(evidence, 0)'
    BY DEF CInv, Shape, Follows
  <2>2. /\ result = "succeeded" => Len(evidence) = 6
        /\ result = "outOfScope" => Len(evidence) = 0
    BY DEF CInv, Shape, Lengths
  <2>. QED
    BY <1>1, <2>1, <2>2 DEF Shape, Lengths, InventoryCalls, TelemetryCalls
<1>4. Truth'
  <2>1. \A i \in 1..Len(evidence) : Honest(evidence[i])'
    <3>1. CASE described' = described
      BY <3>1 DEF CInv, Truth, Honest
    <3>2. CASE at = "describeTasks"
      <4>1. Len(evidence) = 0
        BY <3>2 DEF CInv, Shape, Lengths, InventoryCalls
      <4>. QED
        BY <4>1
    <3>. QED
      BY <3>1, <3>2
  <2>. QED
    BY <1>1, <2>1 DEF Truth, Honest, ScopeKnown, TelemetryCalls
<1>5. NoneMissed'
  BY <1>1 DEF CInv, NoneMissed
<1>6. Cursor'
  BY <1>1 DEF Cursor
<1>7. LateOnce'
  BY <1>1 DEF CInv, LateOnce, Stopped
<1>. QED
  BY <1>2, <1>3, <1>4, <1>5, <1>6, <1>7 DEF CInv
----------------------------------------------------------------------------
(* The operations.                                                         *)

(* A page holds what is left, or another one follows.                      *)
LEMMA ListPagesFit ==
  ASSUME CInv, NEW status, NEW r \in ListPages(status)
  PROVE  /\ r.more \in BOOLEAN /\ r.items \subseteq Tasks
         /\ r.more => pages + 1 # MaxPages
         /\ ~r.more => \A a \in Tasks : account[a] = status => a \in arns \cup r.items
<1> DEFINE left == {a \in Tasks : account[a] = status} \ read
<1>1. PICK some \in SUBSET left :
        /\ r = [items |-> some, more |-> some # left]
        /\ pages + 1 = MaxPages => some = left
  BY DEF ListPages
<1>2. r.items = some /\ (r.more <=> some # left) /\ r.more \in BOOLEAN
  BY <1>1, Zenon
<1>3. read \subseteq arns
  BY DEF CInv, Cursor
<1>. QED
  BY <1>1, <1>2, <1>3

(* Every answer fits its operation.                                        *)
LEMMA Asks ==
  ASSUME CInv,
         \/ DescribeServices \/ ListTasks \/ DescribeTasks \/ DescribeTargetGroups
         \/ DescribeTargetHealth \/ DescribeAlarms \/ GetMetricData
  PROVE  CInv'
<1>1. /\ pages \in Nat /\ MaxPages \in Nat
      /\ at # "describeTasks" => pages < MaxPages
      /\ alarmPages \in 0..MaxPages /\ account \in [Tasks -> {"absent", "RUNNING", "STOPPED", "gone"}]
      /\ OldTasks \subseteq Tasks
  BY BoundsAssumption DEF CInv, Typed, TypeOK
<1>2. at # "describeTasks" /\ pages + 1 # MaxPages => pages + 1 < MaxPages
  BY <1>1
<1>3. CASE DescribeServices
  <2> DEFINE answers == {[items |-> found, more |-> FALSE] :
                           found \in {{}} \cup {{s} : s \in ServiceFound}}
  <2>1. Ask("describeServices", answers)
    BY <1>3 DEF DescribeServices
  <2>2. \A r \in answers : r.items \subseteq ServiceFound /\ r.more = FALSE
    OBVIOUS
  <2>. HIDE DEF answers
  <2>3. \A r \in answers : Fitting("describeServices", r)
    BY <2>2 DEF Fitting
  <2>. QED
    BY <2>1, <2>3, AskKeeps DEF Calls, InventoryCalls
<1>4. CASE Ask("listRunning", ListPages("RUNNING"))
  <2>1. \A r \in ListPages("RUNNING") : Fitting("listRunning", r)
    BY <1>1, <1>2, <1>4, ListPagesFit DEF Fitting, Ask, Calling
  <2>. QED
    BY <1>4, <2>1, AskKeeps DEF Calls, InventoryCalls
<1>5. CASE Ask("listStopped", ListPages("STOPPED"))
  <2>1. at = "listStopped"
    BY <1>5 DEF Ask, Calling
  <2>2. \A a \in OldTasks : account[a] \in {"RUNNING", "STOPPED", "gone"}
                            /\ (account[a] = "RUNNING" => a \in arns)
    BY <1>1, <2>1 DEF CInv, NoneMissed
  <2>3. \A r \in ListPages("STOPPED") : Fitting("listStopped", r)
    BY <1>1, <1>2, <2>1, <2>2, ListPagesFit DEF Fitting
  <2>. QED
    BY <1>5, <2>3, AskKeeps DEF Calls, InventoryCalls
<1>6. CASE DescribeTasks
  <2> DEFINE answers == {[items |-> some, more |-> read \cup Batch # arns] :
                           some \in SUBSET {a \in Batch : account[a] # "gone"}}
  <2>1. Ask("describeTasks", answers)
    BY <1>6 DEF DescribeTasks
  <2>2. Batch \subseteq arns
    BY BatchIsListed DEF CInv, Typed
  <2>3. ASSUME NEW r \in answers PROVE Fitting("describeTasks", r)
    <3>1. PICK some \in SUBSET Batch : r = [items |-> some, more |-> read \cup Batch # arns]
      OBVIOUS
    <3>2. r.items \subseteq Batch /\ r.more \in BOOLEAN
      BY <3>1, Zenon
    <3>. QED
      BY <2>2, <3>2 DEF Fitting
  <2>. HIDE DEF answers
  <2>. QED
    BY <2>1, <2>3, AskKeeps DEF Calls, InventoryCalls
<1>7. CASE DescribeTargetGroups
  <2>1. \A r \in {NoReply} : r.more = FALSE
    BY DEF NoReply
  <2>2. \A r \in {NoReply} : Fitting("describeTargetGroups", r)
    BY <2>1 DEF Fitting
  <2>. QED
    BY <1>7, <2>2, AskKeeps DEF DescribeTargetGroups, Calls, InventoryCalls
<1>8. ASSUME NEW call \in {"describeTargetHealth", "getMetricData"},
             Ask(call, PagesOf(pages + 1 = MaxPages))
      PROVE  CInv'
  <2>1. at = call
    BY <1>8 DEF Ask, Calling
  <2>2. \A r \in PagesOf(pages + 1 = MaxPages) :
          r.more \in BOOLEAN /\ (r.more => pages + 1 # MaxPages)
    <3>1. CASE pages + 1 = MaxPages
      <4>1. \A r \in PagesOf(TRUE) : r.more = FALSE
        BY DEF PagesOf
      <4>2. PagesOf(pages + 1 = MaxPages) = PagesOf(TRUE)
        BY <3>1 DEF PagesOf
      <4>. QED
        BY <4>1, <4>2
    <3>2. CASE pages + 1 # MaxPages
      <4>1. \A r \in PagesOf(FALSE) : r.more \in BOOLEAN
        BY DEF PagesOf
      <4>2. PagesOf(pages + 1 = MaxPages) = PagesOf(FALSE)
        BY <3>2 DEF PagesOf
      <4>. QED
        BY <3>2, <4>1, <4>2
    <3>. QED
      BY <3>1, <3>2
  <2>3. \A r \in PagesOf(pages + 1 = MaxPages) : Fitting(call, r)
    BY <1>2, <1>8, <2>1, <2>2 DEF Fitting
  <2>. QED
    BY <1>8, <2>3, AskKeeps DEF Calls, InventoryCalls, TelemetryCalls
<1>9. CASE DescribeAlarms
  <2> DEFINE answers == {[items |-> {}, more |-> pages + 1 < alarmPages]}
  <2>1. Ask("describeAlarms", answers)
    BY <1>9 DEF DescribeAlarms
  <2>2. \A r \in answers : r.more \in BOOLEAN /\ (r.more <=> pages + 1 < alarmPages)
    <3>1. (pages + 1 < alarmPages) \in BOOLEAN
      OBVIOUS
    <3>2. PICK m \in BOOLEAN : m = (pages + 1 < alarmPages)
      BY <3>1, Zenon
    <3>3. answers = {[items |-> {}, more |-> m]}
      BY <3>2, Zenon
    <3>4. \A r \in answers : r.more = m
      <4>1. [items |-> {}, more |-> m].more = m
        OBVIOUS
      <4>. QED
        BY <3>3, <4>1, Zenon
    <3>5. m <=> pages + 1 < alarmPages
      BY <3>2, Zenon
    <3>. QED
      BY <3>4, <3>5, Zenon
  <2>. HIDE DEF answers
  <2>3. \A r \in answers : Fitting("describeAlarms", r)
    BY <1>1, <2>2 DEF Fitting
  <2>. QED
    BY <2>1, <2>3, AskKeeps DEF Calls, TelemetryCalls
<1>. QED
  BY <1>3, <1>4, <1>5, <1>6, <1>7, <1>8, <1>9
  DEF ListTasks, DescribeTargetHealth, GetMetricData

(* A refusal or a failed check makes the port give up.                     *)
LEMMA GivingUp ==
  ASSUME CInv, at \in Calls, NEW code \in RefusalCodes \cup {"incomplete"}, GiveUp(code),
         late' \in {0, 1}, fence = "held" => late' = 0
  PROVE  CInv'
<1>1. PICK call \in Calls : call = at
  OBVIOUS
<1>2. PICK result : result = AllInaccessible(call, code)
  OBVIOUS
<1>3. /\ Return(result) /\ result \in Seq(Observation)
      /\ UNCHANGED <<account, alarmPages, fence, groups, arns, described, evidence, outcome>>
  BY <1>1, <1>2, RefusalsFollow DEF GiveUp, world
<1>4. /\ Len(result) = IF at \in InventoryCalls THEN 4 ELSE 2
      /\ Follows(result, IF at \in InventoryCalls THEN 0 ELSE 4)
      /\ \A i \in 1..Len(result) : result[i].complete = FALSE /\ result[i].code # "none"
  BY <1>1, <1>2, RefusalsFollow
<1>5. Len(evidence) = IF at \in InventoryCalls THEN 0 ELSE 4
  BY DEF CInv, Shape, Lengths, Calls
<1>6. \A i \in 1..Len(result) : Honest(result[i])'
  BY <1>4 DEF Honest
<1>. QED
  BY <1>3, <1>4, <1>5, <1>6, ReturnKeeps

(* Refused, CheckpointFails, NoService.                                    *)
LEMMA GivesUp ==
  ASSUME CInv, Refused \/ CheckpointFails \/ NoService
  PROVE  CInv'
<1>1. late \in {0, 1} /\ (fence = "held" => late = 0)
  BY DEF CInv, LateOnce
<1>2. CASE Refused
  <2>1. PICK code \in RefusalCodes : GiveUp(code) /\ at \in Calls /\ Calling(at) /\ CountLate
    BY <1>2 DEF Refused
  <2>2. late' \in {0, 1} /\ (fence = "held" => late' = 0)
    BY <2>1, LateCalls DEF Calling
  <2>. QED
    BY <2>1, <2>2, GivingUp
<1>3. CASE CheckpointFails
  <2>1. at \in Calls /\ GiveUp("unavailable") /\ late' = late
    BY <1>3 DEF CheckpointFails, AtCheckpoint
  <2>. QED
    BY <1>1, <2>1, GivingUp DEF RefusalCodes
<1>4. CASE NoService
  <2>1. at \in Calls /\ GiveUp("incomplete") /\ late' = late
    BY <1>4 DEF NoService, Answered, Calls, InventoryCalls
  <2>. QED
    BY <1>1, <2>1, GivingUp
<1>. QED
  BY <1>2, <1>3, <1>4

(* Throttled, Retry.                                                       *)
LEMMA TriesAgain ==
  ASSUME CInv, Throttled \/ Retry
  PROVE  CInv'
<1>1. CASE Throttled
  BY <1>1, TurnKeeps DEF Throttled, Calling, world, gathered
<1>2. CASE Retry
  BY <1>2, TurnKeeps DEF Retry, PageChecked, world, gathered
<1>. QED
  BY <1>1, <1>2
----------------------------------------------------------------------------
(* What is done with an answer.                                            *)

(* An observation stays true while nothing it speaks of changes.           *)
LEMMA HonestStays ==
  ASSUME UNCHANGED <<account, alarmPages, groups, described>>, NEW o, Honest(o)
  PROVE  Honest(o)'
BY DEF Honest

(* The first two operations.                                               *)
LEMMA ServiceTaken ==
  ASSUME CInv, TakeService
  PROVE  CInv'
<1>1. /\ at = "describeServices" /\ at \in Calls /\ turn = "page" /\ fence = "held"
      /\ Len(evidence) = 0
  BY DEF TakeService, Answered, PageChecked, Calls, InventoryCalls, CInv, Shape, Lengths
<1>2. reply.items \subseteq ServiceFound
  BY <1>1 DEF CInv, Cursor, Fitting
<1>3. PICK service \in ServiceFound :
        IF ServiceInScope(service)
        THEN /\ groups' = service.groups
             /\ observations' = <<Observed("service", TRUE)>>
             /\ GoTo("listRunning")
             /\ UNCHANGED <<world, arns, described, evidence, outcome, late>>
        ELSE End("outOfScope")
  BY <1>2 DEF TakeService
<1>4. CASE ServiceInScope(service)
  <2> DEFINE o == Observed("service", TRUE)
  <2>1. /\ groups' = service.groups /\ observations' = <<o>> /\ GoTo("listRunning")
        /\ UNCHANGED <<account, alarmPages, fence, arns, described, evidence, outcome, late>>
        /\ service.groups \subseteq OwnGroups \cup ForeignGroups
    BY <1>3, <1>4 DEF world, ServiceFound
  <2>2. o \in Observation /\ o.kind = "service"
    BY ObservedFields DEF InventoryKinds
  <2>. HIDE DEF o
  <2>3. <<o>> \in Seq(Observation) /\ Len(<<o>>) = 1 /\ <<o>>[1] = o
    BY <2>2
  <2>4. /\ at' = "listRunning" /\ turn' = "call" /\ reply' = NoReply /\ pages' = 0
        /\ read' = {} /\ NoReply.more = FALSE
    BY <2>1 DEF GoTo, NoReply
  <2>5. Typed'
    <3>1. Typed /\ 0 < MaxPages
      BY BoundsAssumption DEF CInv
    <3>2. \A i \in DOMAIN observations' : observations'[i] \in Observation
      BY <2>1, <2>3
    <3>. QED
      BY <2>1, <2>3, <2>4, <3>1, <3>2 DEF Typed, TypeOK, Calls, InventoryCalls
  <2>6. Follows(observations', Len(evidence))
    BY <1>1, <2>1, <2>2, <2>3, KindsInOrder DEF Follows
  <2>7. Lengths(Len(evidence), Len(observations))'
    <3>1. Len(evidence') = 0 /\ Len(observations') = 1 /\ outcome' = "open"
      BY <1>1, <2>1, <2>3 DEF CInv, Cursor, Typed, TypeOK
    <3>2. Lengths(0, 1)'
      BY <2>4, <3>1 DEF Lengths, TelemetryCalls
    <3>. QED
      BY <3>1, <3>2
  <2>8. NoneMissed'
    BY <2>1, <2>4 DEF CInv, NoneMissed
  <2>. QED
    BY <1>1, <2>1, <2>5, <2>6, <2>7, <2>8, GoesOnKeeps
    DEF Calls, InventoryCalls, ScopeKnown, TelemetryCalls
<1>5. CASE ~ServiceInScope(service)
  <2>1. End("outOfScope")
    BY <1>3, <1>5
  <2>. QED
    BY <1>1, <2>1, EndKeeps DEF End, world, gathered, InventoryCalls
<1>. QED
  BY <1>4, <1>5

(* A page of tasks.                                                        *)
LEMMA TasksTaken ==
  ASSUME CInv, TakeTasks
  PROVE  CInv'
<1>1. PICK call \in {"listRunning", "listStopped"},
           next \in {"listStopped", "describeTasks"} :
        /\ TakeTaskPage(call, next)
        /\ call = "listRunning" <=> next = "listStopped"
  BY DEF TakeTasks
<1>2. /\ at = call /\ at \in Calls /\ turn = "page" /\ fence = "held"
      /\ arns' = arns \cup reply.items
      /\ UNCHANGED <<account, alarmPages, fence, groups, described, observations, evidence,
                     outcome, late>>
  BY <1>1 DEF TakeTaskPage, Answered, PageChecked, Calls, InventoryCalls, world
<1>3. Fitting(call, reply) /\ read \subseteq arns /\ reply.items \subseteq Tasks
  BY <1>2 DEF CInv, Cursor, Fitting
<1>4. arns \subseteq Tasks /\ Typed /\ 0 < MaxPages
  BY BoundsAssumption DEF CInv, Typed, TypeOK
<1>5. CASE reply.more
  <2>1. NextPage /\ read' = read \cup reply.items
    BY <1>1, <1>5 DEF TakeTaskPage
  <2>2. pages + 1 < MaxPages
    BY <1>3, <1>5 DEF Fitting
  <2>. QED
    BY <1>2, <1>3, <1>4, <2>1, <2>2, PageKeeps
<1>6. CASE ~reply.more
  <2>1. GoTo(next)
    BY <1>1, <1>6 DEF TakeTaskPage
  <2>2. /\ at' = next /\ turn' = "call" /\ reply' = NoReply /\ pages' = 0
        /\ read' = {} /\ NoReply.more = FALSE
    BY <2>1 DEF GoTo, NoReply
  <2>3. Typed'
    <3>1. described' \subseteq arns' /\ arns' \subseteq Tasks
      BY <1>2, <1>3, <1>4 DEF Typed, TypeOK
    <3>. QED
      BY <1>2, <1>4, <2>2, <3>1 DEF Typed, TypeOK, Calls, InventoryCalls
  <2>4. /\ Len(evidence) = 0 /\ Len(observations) = 1 /\ Follows(observations, Len(evidence))
        /\ outcome = "open"
    BY <1>2 DEF CInv, Shape, Lengths, InventoryCalls, Cursor, Typed, TypeOK
  <2>5. Lengths(Len(evidence), Len(observations))'
    <3>1. Len(evidence') = 0 /\ Len(observations') = 1 /\ outcome' = "open"
      BY <1>2, <2>4
    <3>2. Lengths(0, 1)'
      BY <2>2, <3>1 DEF Lengths, TelemetryCalls
    <3>. QED
      BY <3>1, <3>2
  <2>6. NoneMissed'
    <3>1. CASE call = "listRunning"
      <4>1. \A a \in OldTasks : account[a] = "RUNNING" => a \in arns \cup reply.items
        BY <1>3, <1>6, <3>1 DEF Fitting
      <4>. QED
        BY <1>1, <1>2, <2>2, <3>1, <4>1 DEF CInv, NoneMissed
    <3>2. CASE call = "listStopped"
      <4>1. \A a \in OldTasks : account[a] # "gone" => a \in arns \cup reply.items
        BY <1>3, <1>6, <3>2 DEF Fitting
      <4>2. next = "describeTasks"
        BY <1>1, <3>2
      <4>. QED
        BY <1>2, <2>2, <4>1, <4>2 DEF CInv, NoneMissed
    <3>. QED
      BY <3>1, <3>2
  <2>7. next \in InventoryCalls /\ at \in InventoryCalls /\ next \notin ScopeKnown
    BY <1>2 DEF InventoryCalls, ScopeKnown, TelemetryCalls
  <2>8. Follows(observations', Len(evidence))
    BY <1>2, <2>4
  <2>9. next \in Calls /\ at \notin TelemetryCalls
    BY <1>2, <2>7 DEF Calls, TelemetryCalls
  <2>. QED
    BY <1>2, <2>1, <2>3, <2>5, <2>6, <2>7, <2>8, <2>9, GoesOnKeeps
<1>. QED
  BY <1>5, <1>6

(* Two observations at once are one after the other.                       *)
LEMMA TwoMore ==
  ASSUME NEW result \in Seq(Observation), NEW a \in Observation, NEW b \in Observation
  PROVE  result \o <<a, b>> = Append(Append(result, a), b)
OBVIOUS

(* With one observation the port has that of the service, with two those   *)
(* of the service and the tasks.                                           *)
LEMMA TasksKnownKeeps ==
  ASSUME CInv, at = "describeTasks", fence = "held", TasksKnown,
         described' \subseteq arns
  PROVE  CInv'
<1>1. /\ Len(evidence) = 0 /\ Len(observations) = 1 /\ Follows(observations, 0)
      /\ observations \in Seq(Observation) /\ outcome = "open" /\ late = 0
      /\ at \in Calls /\ at \in InventoryCalls /\ Typed /\ 0 < MaxPages
      /\ observations[1].kind = "service"
  <2>1. at \in Calls /\ at \in InventoryCalls
    BY DEF Calls, InventoryCalls
  <2>2. /\ Len(evidence) = 0 /\ Len(observations) = 1
        /\ Follows(observations, Len(evidence))
    BY <2>1 DEF CInv, Shape, Lengths
  <2>3. observations[1].kind = "service"
    BY <2>2, KindsInOrder DEF Follows
  <2>4. Typed /\ outcome = "open" /\ late = 0
    BY DEF CInv, Cursor, Typed, TypeOK, LateOnce
  <2>. QED
    BY <2>1, <2>2, <2>3, <2>4, BoundsAssumption DEF Typed
<1>2. PICK c \in BOOLEAN : c = TasksComplete
  <2>1. TasksComplete \in BOOLEAN
    BY DEF TasksComplete
  <2>. QED
    BY <2>1, Zenon
<1>3. c => \A a \in OldTasks : account[a] # "gone" => a \in described'
  <2>1. c <=> arns \subseteq described'
    BY <1>2, Zenon DEF TasksComplete
  <2>. QED
    BY <2>1 DEF CInv, NoneMissed
<1>4. PICK o \in Observation : o = Observed("tasks", c)
  BY ObservedFields DEF InventoryKinds
<1>5. o.kind = "tasks" /\ (o.complete <=> c) /\ o.code = "none"
  BY <1>4, ObservedFields, Zenon DEF InventoryKinds
<1>6. PICK result : result = Append(observations, o)
  OBVIOUS
<1>7. /\ result \in Seq(Observation) /\ Len(result) = 2 /\ Follows(result, 0)
      /\ result[1] = observations[1] /\ result[2] = o
  <2>1. /\ result \in Seq(Observation) /\ Len(result) = 2
        /\ result[1] = observations[1] /\ result[2] = o
    BY <1>1, <1>6, OneMore
  <2>2. result[1].kind = "service" /\ result[2].kind = "tasks"
    BY <1>1, <1>5, <2>1, Zenon
  <2>3. Follows(result, 0)
    BY <2>1, <2>2, KindsInOrder DEF Follows
  <2>. QED
    BY <2>1, <2>3
<1>8. CASE ~GroupsInScope
  <2>1. /\ outcome' = "outOfScope" /\ GoTo("ended")
        /\ UNCHANGED <<account, alarmPages, fence, groups, arns, observations, evidence, late>>
    BY <1>8 DEF TasksKnown, world
  <2>. QED
    BY <1>1, <2>1, EndKeeps
<1>9. CASE GroupsInScope
  <2>1. /\ Inspect(result) /\ groups \subseteq OwnGroups
        /\ UNCHANGED <<account, alarmPages, fence, groups, arns, evidence, outcome, late>>
    BY <1>2, <1>4, <1>6, <1>9 DEF TasksKnown, world, GroupsInScope
  <2>2. Honest(result[1])' /\ Honest(result[2])'
    <3>1. PICK first : first = observations[1]
      OBVIOUS
    <3>2. groups' \subseteq OwnGroups /\ first.kind = "service"
      BY <1>1, <2>1, <3>1
    <3>3. Honest(first)'
      BY <3>2 DEF Honest
    <3>4. Honest(o)'
      BY <1>3, <1>5, <2>1 DEF Honest
    <3>. QED
      BY <1>7, <3>1, <3>3, <3>4
  <2>3. CASE groups = {}
    <3>1. PICK g \in Observation, h \in Observation :
            /\ g = Observed("targetGroup", TRUE) /\ g.kind = "targetGroup"
            /\ h = Observed("targetHealth", FALSE) /\ h.kind = "targetHealth"
            /\ h.complete = FALSE
      <4>1. "targetGroup" \in InventoryKinds /\ "targetHealth" \in InventoryKinds
        BY DEF InventoryKinds
      <4>2. PICK g \in Observation :
              g = Observed("targetGroup", TRUE) /\ g.kind = "targetGroup"
        BY <4>1, SomeObserved
      <4>3. PICK h \in Observation :
              /\ h = Observed("targetHealth", FALSE) /\ h.kind = "targetHealth"
              /\ h.complete = FALSE
        BY <4>1, SomeObserved
      <4>. QED
        BY <4>2, <4>3
    <3>2. PICK three : three = Append(result, g)
      OBVIOUS
    <3>3. /\ three \in Seq(Observation) /\ Len(three) = 3 /\ Follows(three, 0)
          /\ three[1] = result[1] /\ three[2] = result[2] /\ three[3] = g
      <4>1. /\ result \in Seq(Observation) /\ g \in Observation
            /\ three = Append(result, g) /\ g.kind = "targetGroup"
            /\ Len(result) = 2 /\ Follows(result, 0)
        BY <1>7, <3>1, <3>2
      <4>2. /\ three \in Seq(Observation) /\ Len(three) = 3
            /\ three[1] = result[1] /\ three[2] = result[2] /\ three[3] = g
        BY <4>1, OneMore
      <4>3. Follows(three, 0)
        BY <4>1, <4>2, KindsInOrder DEF Follows
      <4>. QED
        BY <4>2, <4>3
    <3>4. PICK four : four = Append(three, h)
      OBVIOUS
    <3>5. /\ four \in Seq(Observation) /\ Len(four) = 4 /\ Follows(four, 0)
          /\ four[1] = three[1] /\ four[2] = three[2] /\ four[3] = three[3] /\ four[4] = h
      <4>1. /\ three \in Seq(Observation) /\ h \in Observation
            /\ four = Append(three, h) /\ h.kind = "targetHealth"
            /\ Len(three) = 3 /\ Follows(three, 0)
        BY <3>1, <3>3, <3>4
      <4>2. /\ four \in Seq(Observation) /\ Len(four) = 4
            /\ four[1] = three[1] /\ four[2] = three[2] /\ four[3] = three[3] /\ four[4] = h
        BY <4>1, OneMore
      <4>3. Follows(four, 0)
        BY <4>1, <4>2, KindsInOrder DEF Follows
      <4>. QED
        BY <4>2, <4>3
    <3>6. Return(four)
      BY <1>7, <2>1, <2>3, <3>1, <3>2, <3>4, TwoMore DEF Inspect
    <3>7. \A i \in 1..4 : Honest(four[i])'
      <4>1. Honest(g)' /\ Honest(h)'
        BY <3>1 DEF Honest
      <4>2. \A i \in 1..4 : i \in {1, 2, 3, 4}
        OBVIOUS
      <4>. QED
        BY <2>2, <3>3, <3>5, <4>1, <4>2
    <3>. QED
      BY <1>1, <2>1, <3>5, <3>6, <3>7, ReturnKeeps
  <2>4. CASE groups # {}
    <3>1. observations' = result /\ GoTo("describeTargetGroups")
      BY <2>1, <2>4 DEF Inspect
    <3>2. /\ at' = "describeTargetGroups" /\ turn' = "call" /\ reply' = NoReply /\ pages' = 0
          /\ read' = {} /\ NoReply.more = FALSE
      BY <3>1 DEF GoTo, NoReply
    <3>3. Typed'
      <4>1. \A i \in DOMAIN result : result[i] \in Observation
        BY <1>7
      <4>. QED
        BY <1>1, <1>7, <2>1, <3>1, <3>2, <4>1 DEF Typed, TypeOK, Calls, InventoryCalls
    <3>4. Lengths(Len(evidence), Len(observations))'
      <4>1. Len(evidence') = 0 /\ Len(observations') = 2 /\ outcome' = "open"
        BY <1>1, <1>7, <2>1, <3>1
      <4>2. Lengths(0, 2)'
        BY <3>2, <4>1 DEF Lengths, TelemetryCalls
      <4>. QED
        BY <4>1, <4>2
    <3>5. NoneMissed'
      BY <2>1, <3>2 DEF CInv, NoneMissed
    <3>6. /\ Follows(observations', Len(evidence))
          /\ \A i \in 1..Len(observations') : Honest(observations[i])'
      <4>1. \A i \in 1..2 : i \in {1, 2}
        OBVIOUS
      <4>. QED
        BY <1>1, <1>7, <2>2, <3>1, <4>1
    <3>7. /\ "describeTargetGroups" \in Calls /\ "describeTargetGroups" \in InventoryCalls
          /\ at \notin TelemetryCalls
      BY DEF Calls, InventoryCalls, TelemetryCalls
    <3>. QED
      BY <1>1, <2>1, <3>1, <3>3, <3>4, <3>5, <3>6, <3>7, GoesOnKeeps
  <2>. QED
    BY <2>3, <2>4
<1>. QED
  BY <1>8, <1>9

(* The descriptions of the tasks.                                          *)
LEMMA DescriptionsTaken ==
  ASSUME CInv, TakeDescriptions \/ NoTasks
  PROVE  CInv'
<1>1. CASE NoTasks
  <2>1. at = "describeTasks" /\ fence = "held" /\ TasksKnown /\ described' = {}
    BY <1>1 DEF NoTasks, NothingToDescribe, PageChecked
  <2>. QED
    BY <2>1, TasksKnownKeeps
<1>2. CASE TakeDescriptions
  <2>1. /\ at = "describeTasks" /\ at \in Calls /\ turn = "page" /\ fence = "held"
        /\ described' = described \cup reply.items
    BY <1>2 DEF TakeDescriptions, Answered, PageChecked, Calls, InventoryCalls
  <2>2. /\ described' \subseteq arns /\ arns \subseteq Tasks /\ Batch \subseteq arns
        /\ read \subseteq arns
    BY <2>1, BatchIsListed DEF CInv, Cursor, Fitting, Typed, TypeOK
  <2>3. CASE reply.more
    <3>1. /\ NextPage /\ read' = read \cup Batch
          /\ UNCHANGED <<account, alarmPages, fence, groups, arns, observations, evidence,
                         outcome, late>>
      BY <1>2, <2>3 DEF TakeDescriptions, world
    <3>2. arns \subseteq arns' /\ arns' \subseteq Tasks /\ read' \subseteq arns'
          /\ described' \subseteq arns'
      BY <2>2, <3>1
    <3>. QED
      BY <2>1, <3>1, <3>2, PageKeeps
  <2>4. CASE ~reply.more
    BY <1>2, <2>1, <2>2, <2>4, TasksKnownKeeps DEF TakeDescriptions
  <2>. QED
    BY <2>3, <2>4
<1>. QED
  BY <1>1, <1>2
(* The target groups were found: their health is next if there is one.     *)
LEMMA GroupsTaken ==
  ASSUME CInv, TakeTargetGroups
  PROVE  CInv'
<1>1. /\ at = "describeTargetGroups" /\ at \in InventoryCalls /\ at \in Calls
      /\ at \notin TelemetryCalls /\ fence = "held"
      /\ UNCHANGED <<account, alarmPages, fence, groups, arns, described, evidence,
                     outcome, late>>
  BY DEF TakeTargetGroups, Answered, PageChecked, world, Calls, InventoryCalls, TelemetryCalls
<1>2. /\ Len(evidence) = 0 /\ Len(observations) = 2 /\ Follows(observations, 0)
      /\ observations \in Seq(Observation) /\ outcome = "open" /\ late = 0
      /\ Typed /\ 0 < MaxPages
  <2>1. Len(evidence) = 0 /\ Len(observations) = 2 /\ Follows(observations, Len(evidence))
    BY <1>1 DEF CInv, Shape, Lengths
  <2>2. Typed /\ outcome = "open" /\ late = 0
    BY <1>1 DEF CInv, Cursor, Typed, TypeOK, LateOnce
  <2>. QED
    BY <2>1, <2>2, BoundsAssumption DEF Typed
<1>3. PICK first \in Observation, second \in Observation :
        observations[1] = first /\ observations[2] = second
  BY <1>2
<1>4. Honest(first)' /\ Honest(second)'
  <2>1. Honest(observations[1]) /\ Honest(observations[2])
    BY <1>1, <1>2 DEF CInv, Truth, ScopeKnown
  <2>. QED
    BY <1>1, <1>3, <2>1, HonestStays
<1>5. PICK g \in Observation :
        g = Observed("targetGroup", TRUE) /\ g.kind = "targetGroup"
  BY SomeObserved DEF InventoryKinds
<1>6. PICK h \in Observation :
        /\ h = Observed("targetHealth", FALSE) /\ h.kind = "targetHealth"
        /\ h.complete = FALSE
  BY SomeObserved DEF InventoryKinds
<1>7. PICK three : three = Append(observations, g)
  OBVIOUS
<1>8. /\ three \in Seq(Observation) /\ Len(three) = 3 /\ Follows(three, 0)
      /\ three[1] = first /\ three[2] = second /\ three[3] = g
  <2>1. /\ observations \in Seq(Observation) /\ g \in Observation
        /\ three = Append(observations, g) /\ g.kind = "targetGroup"
        /\ Len(observations) = 2 /\ Follows(observations, 0)
    BY <1>2, <1>5, <1>7
  <2>2. /\ three \in Seq(Observation) /\ Len(three) = 3
        /\ three[1] = observations[1] /\ three[2] = observations[2] /\ three[3] = g
    BY <2>1, OneMore
  <2>3. Follows(three, 0)
    BY <2>1, <2>2, KindsInOrder DEF Follows
  <2>. QED
    BY <1>3, <2>2, <2>3
<1>9. Honest(g)' /\ Honest(h)'
  BY <1>5, <1>6 DEF Honest
<1>10. CASE Cardinality(groups) = 1
  <2>1. observations' = three /\ GoTo("describeTargetHealth")
    BY <1>5, <1>7, <1>10 DEF TakeTargetGroups
  <2>2. /\ at' = "describeTargetHealth" /\ turn' = "call" /\ reply' = NoReply /\ pages' = 0
        /\ read' = {} /\ NoReply.more = FALSE
    BY <2>1 DEF GoTo, NoReply
  <2>3. Typed'
    <3>1. \A i \in DOMAIN three : three[i] \in Observation
      BY <1>8
    <3>. QED
      BY <1>1, <1>2, <1>8, <2>1, <2>2, <3>1 DEF Typed, TypeOK, Calls, InventoryCalls
  <2>4. Lengths(Len(evidence), Len(observations))'
    <3>1. Len(evidence') = 0 /\ Len(observations') = 3 /\ outcome' = "open"
      BY <1>1, <1>2, <1>8, <2>1
    <3>2. Lengths(0, 3)'
      BY <2>2, <3>1 DEF Lengths, TelemetryCalls
    <3>. QED
      BY <3>1, <3>2
  <2>5. NoneMissed'
    BY <1>1, <2>2 DEF CInv, NoneMissed
  <2>6. /\ Follows(observations', Len(evidence))
        /\ \A i \in 1..Len(observations') : Honest(observations[i])'
    <3>1. \A i \in 1..3 : i \in {1, 2, 3}
      OBVIOUS
    <3>. QED
      BY <1>2, <1>4, <1>8, <1>9, <2>1, <3>1
  <2>7. "describeTargetHealth" \in Calls /\ "describeTargetHealth" \in InventoryCalls
    BY DEF Calls, InventoryCalls
  <2>. QED
    BY <1>1, <1>2, <1>10, <2>1, <2>3, <2>4, <2>5, <2>6, <2>7, GoesOnKeeps
<1>11. CASE Cardinality(groups) # 1
  <2>1. PICK four : four = Append(three, h)
    OBVIOUS
  <2>2. /\ four \in Seq(Observation) /\ Len(four) = 4 /\ Follows(four, 0)
        /\ four[1] = three[1] /\ four[2] = three[2] /\ four[3] = three[3] /\ four[4] = h
    <3>1. /\ three \in Seq(Observation) /\ h \in Observation
          /\ four = Append(three, h) /\ h.kind = "targetHealth"
          /\ Len(three) = 3 /\ Follows(three, 0)
      BY <1>6, <1>8, <2>1
    <3>2. /\ four \in Seq(Observation) /\ Len(four) = 4
          /\ four[1] = three[1] /\ four[2] = three[2] /\ four[3] = three[3] /\ four[4] = h
      BY <3>1, OneMore
    <3>3. Follows(four, 0)
      BY <3>1, <3>2, KindsInOrder DEF Follows
    <3>. QED
      BY <3>2, <3>3
  <2>3. Return(four)
    BY <1>5, <1>6, <1>7, <1>11, <2>1 DEF TakeTargetGroups
  <2>4. \A i \in 1..4 : Honest(four[i])'
    <3>1. \A i \in 1..4 : i \in {1, 2, 3, 4}
      OBVIOUS
    <3>. QED
      BY <1>4, <1>8, <1>9, <2>2, <3>1
  <2>. QED
    BY <1>1, <1>2, <2>2, <2>3, <2>4, ReturnKeeps
<1>. QED
  BY <1>10, <1>11

(* The health of the targets: the last of the inventory.                   *)
LEMMA HealthTaken ==
  ASSUME CInv, TakeTargetHealth
  PROVE  CInv'
<1>1. /\ at = "describeTargetHealth" /\ at \in InventoryCalls /\ at \in Calls
      /\ turn = "page" /\ fence = "held"
      /\ UNCHANGED <<account, alarmPages, fence, groups, arns, described, evidence,
                     outcome, late>>
  BY DEF TakeTargetHealth, TakePages, Answered, PageChecked, world, Calls, InventoryCalls
<1>2. CASE reply.more
  <2>1. NextPage /\ UNCHANGED <<read, observations>>
    BY <1>2 DEF TakeTargetHealth, TakePages
  <2>2. pages + 1 < MaxPages /\ read \subseteq arns /\ arns \subseteq Tasks
    BY <1>1, <1>2 DEF CInv, Cursor, Fitting, Typed, TypeOK
  <2>. QED
    BY <1>1, <2>1, <2>2, PageKeeps
<1>3. CASE ~reply.more
  <2>1. Return(Append(observations, Observed("targetHealth", TRUE)))
    BY <1>3 DEF TakeTargetHealth, TakePages
  <2>2. /\ Len(evidence) = 0 /\ Len(observations) = 3 /\ Follows(observations, 0)
        /\ observations \in Seq(Observation) /\ late = 0 /\ Cardinality(groups) = 1
    <3>1. Len(evidence) = 0 /\ Len(observations) = 3 /\ Follows(observations, Len(evidence))
      BY <1>1 DEF CInv, Shape, Lengths
    <3>2. observations \in Seq(Observation) /\ late = 0 /\ Cardinality(groups) = 1
      BY <1>1 DEF CInv, Cursor, Typed, LateOnce
    <3>. QED
      BY <3>1, <3>2
  <2>3. PICK h \in Observation :
          h = Observed("targetHealth", TRUE) /\ h.kind = "targetHealth"
    BY SomeObserved DEF InventoryKinds
  <2>4. PICK four : four = Append(observations, h)
    OBVIOUS
  <2>5. /\ four \in Seq(Observation) /\ Len(four) = 4 /\ Follows(four, 0)
        /\ four[1] = observations[1] /\ four[2] = observations[2]
        /\ four[3] = observations[3] /\ four[4] = h
    <3>1. /\ observations \in Seq(Observation) /\ h \in Observation
          /\ four = Append(observations, h) /\ h.kind = "targetHealth"
          /\ Len(observations) = 3 /\ Follows(observations, 0)
      BY <2>2, <2>3, <2>4
    <3>2. /\ four \in Seq(Observation) /\ Len(four) = 4
          /\ four[1] = observations[1] /\ four[2] = observations[2] /\ four[3] = observations[3] /\ four[4] = h
      BY <3>1, OneMore
    <3>3. Follows(four, 0)
      BY <3>1, <3>2, KindsInOrder DEF Follows
    <3>. QED
      BY <3>2, <3>3
  <2>6. \A i \in 1..4 : Honest(four[i])'
    <3>1. Honest(four[1]) /\ Honest(four[2]) /\ Honest(four[3])
      BY <1>1, <2>2, <2>5 DEF CInv, Truth, ScopeKnown
    <3>2. PICK first, second, third :
            four[1] = first /\ four[2] = second /\ four[3] = third
      OBVIOUS
    <3>3. Honest(first)' /\ Honest(second)' /\ Honest(third)'
      BY <1>1, <3>1, <3>2, HonestStays
    <3>4. Honest(h)'
      BY <1>1, <2>2, <2>3 DEF Honest
    <3>5. \A i \in 1..4 : i \in {1, 2, 3, 4}
      OBVIOUS
    <3>. QED
      BY <2>5, <3>2, <3>3, <3>4, <3>5
  <2>. QED
    BY <1>1, <2>1, <2>2, <2>3, <2>4, <2>5, <2>6, ReturnKeeps
<1>. QED
  BY <1>2, <1>3
(* The alarms: read to the last page, or up to the bound.                  *)
LEMMA AlarmsTaken ==
  ASSUME CInv, TakeAlarms
  PROVE  CInv'
<1>1. /\ at = "describeAlarms" /\ at \in TelemetryCalls /\ at \in Calls
      /\ at \notin InventoryCalls /\ turn = "page" /\ fence = "held"
      /\ UNCHANGED <<account, alarmPages, fence, groups, arns, described, evidence,
                     outcome, late>>
  BY DEF TakeAlarms, TakePages, Answered, PageChecked, world, Calls, InventoryCalls,
         TelemetryCalls
<1>2. /\ pages \in Nat /\ pages < PageBound /\ alarmPages \in Nat
      /\ reply.more \in BOOLEAN /\ (reply.more <=> pages + 1 < alarmPages)
      /\ reply.more => pages + 1 < MaxPages
      /\ read \subseteq arns /\ arns \subseteq Tasks
      /\ PageBound \in Nat
  BY <1>1, BoundsAssumption DEF CInv, Cursor, Fitting, Typed, TypeOK
<1>3. CASE ~AtLastPage
  <2>1. NextPage /\ UNCHANGED <<read, observations>>
    BY <1>3 DEF TakeAlarms, TakePages
  <2>2. pages + 1 < MaxPages /\ pages + 1 < PageBound
    BY <1>2, <1>3 DEF AtLastPage
  <2>. QED
    BY <1>1, <1>2, <2>1, <2>2, PageKeeps
<1>4. CASE AtLastPage
  <2>1. observations' = <<Observed("alarms", AlarmsRead)>> /\ GoTo("getMetricData")
    BY <1>4 DEF TakeAlarms, TakePages
  <2>2. PICK c \in BOOLEAN : c = AlarmsRead
    <3>1. AlarmsRead \in BOOLEAN
      BY DEF AlarmsRead
    <3>. QED
      BY <3>1, Zenon
  <2>3. c <=> alarmPages <= PageBound
    <3>1. c <=> ~reply.more
      BY <2>2, Zenon DEF AlarmsRead
    <3>2. ~reply.more <=> alarmPages <= PageBound
      BY <1>2, <1>4 DEF AtLastPage
    <3>. QED
      BY <3>1, <3>2
  <2>4. PICK o \in Observation :
          o = Observed("alarms", c) /\ o.kind = "alarms" /\ o.complete = c
    BY SomeObserved DEF TelemetryKinds
  <2>5. observations' = <<o>>
    BY <2>1, <2>2, <2>4, Zenon
  <2>6. <<o>> \in Seq(Observation) /\ Len(<<o>>) = 1 /\ <<o>>[1] = o
    BY <2>4
  <2>7. /\ Len(evidence) = 4 /\ outcome = "open" /\ Typed /\ 0 < MaxPages
    <3>1. Len(evidence) = 4
      BY <1>1 DEF CInv, Shape, Lengths
    <3>. QED
      BY <1>1, <3>1, BoundsAssumption DEF CInv, Cursor, Typed, TypeOK
  <2>8. /\ at' = "getMetricData" /\ turn' = "call" /\ reply' = NoReply /\ pages' = 0
        /\ read' = {} /\ NoReply.more = FALSE
    BY <2>1 DEF GoTo, NoReply
  <2>9. Typed'
    <3>1. \A i \in DOMAIN observations' : observations'[i] \in Observation
      BY <2>5, <2>6
    <3>. QED
      BY <1>1, <2>5, <2>6, <2>7, <2>8, <3>1 DEF Typed, TypeOK, Calls, TelemetryCalls
  <2>10. Lengths(Len(evidence), Len(observations))'
    <3>1. Len(evidence') = 4 /\ Len(observations') = 1 /\ outcome' = "open"
      BY <1>1, <2>5, <2>6, <2>7
    <3>2. Lengths(4, 1)'
      BY <2>8, <3>1 DEF Lengths, InventoryCalls
    <3>. QED
      BY <3>1, <3>2
  <2>11. NoneMissed'
    BY <1>1, <2>8 DEF CInv, NoneMissed
  <2>12. Follows(observations', Len(evidence))
    BY <2>4, <2>5, <2>6, <2>7, KindsInOrder DEF Follows
  <2>13. Honest(o)'
    BY <1>1, <2>3, <2>4 DEF Honest
  <2>14. \A i \in 1..Len(observations') : Honest(observations[i])'
    BY <2>5, <2>6, <2>13
  <2>15. /\ "getMetricData" \in Calls /\ "getMetricData" \notin InventoryCalls
    BY DEF Calls, InventoryCalls, TelemetryCalls
  <2>. QED
    BY <1>1, <2>1, <2>9, <2>10, <2>11, <2>12, <2>14, <2>15, GoesOnKeeps
<1>. QED
  BY <1>3, <1>4

(* The metrics: the last of all.                                           *)
LEMMA MetricsTaken ==
  ASSUME CInv, TakeMetricData
  PROVE  CInv'
<1>1. /\ at = "getMetricData" /\ at \notin InventoryCalls /\ at \in Calls
      /\ turn = "page" /\ fence = "held"
      /\ UNCHANGED <<account, alarmPages, fence, groups, arns, described, evidence,
                     outcome, late>>
  BY DEF TakeMetricData, TakePages, Answered, PageChecked, world, Calls, InventoryCalls,
         TelemetryCalls
<1>2. CASE reply.more
  <2>1. NextPage /\ UNCHANGED <<read, observations>>
    BY <1>2 DEF TakeMetricData, TakePages
  <2>2. pages + 1 < MaxPages /\ read \subseteq arns /\ arns \subseteq Tasks
    BY <1>1, <1>2 DEF CInv, Cursor, Fitting, Typed, TypeOK
  <2>. QED
    BY <1>1, <2>1, <2>2, PageKeeps
<1>3. CASE ~reply.more
  <2>1. Return(Append(observations, Observed("metric", TRUE)))
    BY <1>3 DEF TakeMetricData, TakePages
  <2>2. /\ Len(evidence) = 4 /\ Len(observations) = 1 /\ Follows(observations, 4)
        /\ observations \in Seq(Observation) /\ late = 0
    <3>1. Len(evidence) = 4 /\ Len(observations) = 1 /\ Follows(observations, Len(evidence))
      BY <1>1 DEF CInv, Shape, Lengths, TelemetryCalls
    <3>2. observations \in Seq(Observation) /\ late = 0
      BY <1>1 DEF CInv, Typed, LateOnce
    <3>. QED
      BY <3>1, <3>2
  <2>3. PICK m \in Observation : m = Observed("metric", TRUE) /\ m.kind = "metric"
    BY SomeObserved DEF TelemetryKinds
  <2>4. PICK two : two = Append(observations, m)
    OBVIOUS
  <2>5. two \in Seq(Observation) /\ Len(two) = 2 /\ two[1] = observations[1] /\ two[2] = m
    BY <2>2, <2>4, OneMore
  <2>6. Follows(two, 4)
    <3>1. observations[1].kind = "alarms"
      BY <2>2, KindsInOrder DEF Follows
    <3>2. two[1].kind = "alarms" /\ two[2].kind = "metric"
      BY <2>3, <2>5, <3>1, Zenon
    <3>3. \A i \in 1..2 : i \in {1, 2}
      OBVIOUS
    <3>. QED
      BY <2>5, <3>2, <3>3, KindsInOrder DEF Follows
  <2>7. \A i \in 1..2 : Honest(two[i])'
    <3>1. PICK first : first = observations[1]
      OBVIOUS
    <3>2. Honest(first)
      BY <1>1, <2>2, <3>1 DEF CInv, Truth, ScopeKnown, TelemetryCalls
    <3>3. Honest(first)' /\ Honest(m)'
      BY <1>1, <2>3, <3>2, HonestStays DEF Honest
    <3>4. \A i \in 1..2 : i \in {1, 2}
      OBVIOUS
    <3>. QED
      BY <2>5, <3>1, <3>3, <3>4
  <2>. QED
    BY <1>1, <2>1, <2>2, <2>3, <2>4, <2>5, <2>6, <2>7, ReturnKeeps
<1>. QED
  BY <1>2, <1>3
----------------------------------------------------------------------------
(* The collect step and the account.                                       *)

(* What is known of a port that has just been asked for the first time.    *)
LEMMA BeginKeeps ==
  ASSUME CInv, NEW call, GoTo(call), fence = "held",
         \/ at = "begin" /\ call = "describeServices" /\ alarmPages' = alarmPages
         \/ at = "between" /\ call = "describeAlarms" /\ alarmPages' \in 1..MaxPages,
         UNCHANGED <<account, fence, gathered, evidence, outcome, late>>
  PROVE  CInv'
<1>1. /\ at' = call /\ turn' = "call" /\ reply' = NoReply /\ pages' = 0 /\ read' = {}
      /\ NoReply.more = FALSE
      /\ UNCHANGED <<groups, arns, described, observations>>
  BY DEF GoTo, NoReply, gathered
<1>2. /\ Len(observations) = 0 /\ outcome = "open" /\ call # "ended"
      /\ Len(evidence) = IF at = "begin" THEN 0 ELSE 4
      /\ 0 < PageBound /\ 0 < MaxPages
  BY BoundsAssumption DEF CInv, Shape, Lengths, Cursor, Typed, TypeOK
<1>3. Typed'
  <2>1. alarmPages' \in 0..MaxPages
    BY BoundsAssumption DEF CInv, Typed, TypeOK
  <2>. QED
    BY <1>1, <1>2, <2>1 DEF CInv, Typed, TypeOK, Calls, InventoryCalls, TelemetryCalls
<1>4. Shape'
  <2>1. Follows(evidence, 0)' /\ Follows(observations, Len(evidence))'
    BY <1>1, <1>2 DEF CInv, Shape, Follows
  <2>2. /\ Len(observations') = 0 /\ Len(evidence') = IF at = "begin" THEN 0 ELSE 4
        /\ outcome' = "open"
    BY <1>1, <1>2
  <2>3. \A kept, gained : gained = 0 /\ (kept = IF at = "begin" THEN 0 ELSE 4) =>
          Lengths(kept, gained)'
    BY <1>1, <2>2 DEF Lengths, InventoryCalls, TelemetryCalls
  <2>. QED
    BY <2>1, <2>2, <2>3 DEF Shape
<1>5. Truth'
  <2>1. \A i \in 1..Len(evidence) : evidence[i].kind # "alarms"
    BY <1>2, KindsInOrder DEF CInv, Shape, Follows
  <2>2. \A i \in 1..Len(evidence') : Honest(evidence[i])'
    BY <1>1, <2>1 DEF CInv, Truth, Honest
  <2>3. Len(observations') = 0
    BY <1>1, <1>2
  <2>4. \A i \in 1..Len(observations') : Honest(observations[i])'
    BY <2>3
  <2>. QED
    BY <2>2, <2>4 DEF Truth
<1>6. NoneMissed'
  BY <1>1 DEF CInv, NoneMissed
<1>7. Cursor'
  BY <1>1, <1>2 DEF Cursor
<1>8. LateOnce'
  BY <1>1 DEF CInv, LateOnce
<1>. QED
  BY <1>3, <1>4, <1>5, <1>6, <1>7, <1>8 DEF CInv

(* A port is asked.                                                        *)
LEMMA Begins ==
  ASSUME CInv, BeginInventory \/ BeginTelemetry
  PROVE  CInv'
<1>1. CASE BeginInventory
  BY <1>1, BeginKeeps DEF BeginInventory, EnsureStillLeased
<1>2. CASE BeginTelemetry
  BY <1>2, BeginKeeps DEF BeginTelemetry, EnsureStillLeased
<1>. QED
  BY <1>1, <1>2

(* CompleteCollect, LosesFence, Fails.                                     *)
LEMMA Ends ==
  ASSUME CInv, CompleteCollect \/ LosesFence \/ Fails
  PROVE  CInv'
<1>1. PICK result \in {"succeeded", "fenceLost", "retryable"} :
        /\ End(result) /\ at # "ended"
        /\ result = "succeeded" => at = "complete"
  BY DEF CompleteCollect, LosesFence, Fails, OwnTransaction
<1>. QED
  BY <1>1, EndKeeps DEF End, world, gathered
(* The first of the observations to persist takes the next place of the    *)
(* evidence, and the others follow it.                                     *)
LEMMA PersistKeeps ==
  ASSUME CInv, Persist
  PROVE  CInv'
<1>1. /\ at = "persist" /\ fence = "held" /\ outcome = "open"
      /\ evidence' = Append(evidence, Head(observations))
      /\ observations' = Tail(observations)
      /\ UNCHANGED <<account, alarmPages, fence, turn, reply, pages, read, groups, arns,
                     described, outcome, late>>
  BY DEF Persist, world, CInv, Cursor, Typed, TypeOK
<1>2. /\ observations \in Seq(Observation) /\ evidence \in Seq(Observation) /\ Typed
      /\ Len(observations) \in Nat /\ Len(evidence) \in Nat
      /\ Len(observations) >= 1
      /\ Len(evidence) + Len(observations) = IF Len(evidence) < 4 THEN 4 ELSE 6
      /\ Follows(evidence, 0) /\ Follows(observations, Len(evidence))
      /\ \A i \in 1..Len(evidence) : Honest(evidence[i])
      /\ \A i \in 1..Len(observations) : Honest(observations[i])
  BY <1>1 DEF CInv, Typed, Shape, Lengths, Truth, ScopeKnown
<1>3. PICK o \in Observation : o = Head(observations) /\ o = observations[1]
  BY <1>2, HeadTailProperties, EmptySeq
<1>4. PICK n \in Nat, k \in Nat : n = Len(evidence) /\ k = Len(observations)
  BY <1>2
<1>5. /\ evidence' \in Seq(Observation) /\ Len(evidence') = n + 1
      /\ \A i \in 1..n : evidence'[i] = evidence[i]
      /\ evidence'[n + 1] = o
  BY <1>1, <1>2, <1>3, <1>4, OneMore
<1>6. /\ observations' \in Seq(Observation) /\ Len(observations') = k - 1
      /\ \A i \in 1..(k - 1) : observations'[i] = observations[i + 1]
  BY <1>1, <1>2, <1>4, HeadTailProperties, EmptySeq
<1>7. /\ k >= 1 /\ (n < 4 => n + k = 4) /\ (~(n < 4) => n + k = 6)
      /\ \A i \in 1..n : i <= 6 /\ evidence[i].kind = AllKinds[i]
      /\ \A i \in 1..k : n + i <= 6 /\ observations[i].kind = AllKinds[n + i]
  <2>1. /\ k >= 1 /\ (n < 4 => n + k = 4) /\ (~(n < 4) => n + k = 6)
    BY <1>2, <1>4
  <2>2. \A i \in 1..n : i <= 6 /\ evidence[i].kind = AllKinds[i]
    BY <1>2, <1>4 DEF Follows
  <2>3. \A i \in 1..k : n + i <= 6 /\ observations[i].kind = AllKinds[n + i]
    BY <1>2, <1>4 DEF Follows
  <2>. QED
    BY <2>1, <2>2, <2>3
<1>8. o.kind = AllKinds[n + 1] /\ n + 1 <= 6
  BY <1>3, <1>7
<1>9. Follows(evidence', 0)
  <2>1. \A i \in 1..(n + 1) : i \in 1..n \/ i = n + 1
    OBVIOUS
  <2>2. \A i \in 1..(n + 1) : i <= 6 /\ evidence'[i].kind = AllKinds[i]
    BY <1>5, <1>7, <1>8, <2>1
  <2>. QED
    BY <1>5, <2>2 DEF Follows
<1>10. Follows(observations', n + 1)
  <2>1. ASSUME NEW i \in 1..(k - 1)
        PROVE  /\ (n + 1) + i <= 6
               /\ observations'[i].kind = AllKinds[(n + 1) + i]
    <3>1. i + 1 \in 1..k /\ n + (i + 1) = (n + 1) + i
      OBVIOUS
    <3>. QED
      BY <1>6, <1>7, <3>1
  <2>. QED
    BY <1>6, <2>1 DEF Follows
<1>11. \/ at' = "persist" /\ k > 1
       \/ at' = "between" /\ k = 1 /\ n = 3
       \/ at' = "complete" /\ k = 1 /\ n = 5
  <2>1. CASE k > 1
    BY <1>1, <1>4, <2>1 DEF Persist
  <2>2. CASE k = 1
    <3>1. at' = IF o.kind \in InventoryKinds THEN "between" ELSE "complete"
      BY <1>3, <1>4, <2>2 DEF Persist
    <3>2. n = 3 \/ n = 5
      BY <1>7, <2>2
    <3>3. /\ n = 3 => o.kind = "targetHealth"
          /\ n = 5 => o.kind = "metric"
      BY <1>8, KindsInOrder
    <3>. QED
      BY <2>2, <3>1, <3>2, <3>3 DEF InventoryKinds
  <2>. QED
    BY <1>7, <2>1, <2>2
<1>12. Typed'
  <2>1. \A i \in DOMAIN evidence' : evidence'[i] \in Observation
    BY <1>5
  <2>2. \A i \in DOMAIN observations' : observations'[i] \in Observation
    BY <1>6
  <2>. QED
    BY <1>1, <1>2, <1>5, <1>6, <1>11, <2>1, <2>2 DEF Typed, TypeOK
<1>13. Shape'
  <2>1. Lengths(Len(evidence), Len(observations))'
    <3>1. \A kept, gained :
            \/ /\ at' = "persist" /\ gained >= 1
               /\ kept + gained = IF kept < 4 THEN 4 ELSE 6
            \/ at' = "between" /\ kept = 4 /\ gained = 0
            \/ at' = "complete" /\ kept = 6 /\ gained = 0
            => Lengths(kept, gained)'
      BY <1>1 DEF Lengths, InventoryCalls, TelemetryCalls
    <3>2. \/ /\ at' = "persist" /\ Len(observations') >= 1
             /\ Len(evidence') + Len(observations') = IF Len(evidence') < 4 THEN 4 ELSE 6
          \/ at' = "between" /\ Len(evidence') = 4 /\ Len(observations') = 0
          \/ at' = "complete" /\ Len(evidence') = 6 /\ Len(observations') = 0
      BY <1>5, <1>6, <1>7, <1>11
    <3>. QED
      BY <3>1, <3>2
  <2>. QED
    BY <1>5, <1>9, <1>10, <2>1 DEF Shape
<1>14. Truth'
  <2>1. \A x : Honest(x) => Honest(x)'
    BY <1>1, HonestStays
  <2>2. ASSUME NEW i \in 1..Len(evidence') PROVE Honest(evidence[i])'
    <3>1. PICK x : x = evidence'[i]
      OBVIOUS
    <3>2. Honest(x)
      BY <1>2, <1>3, <1>4, <1>5, <1>7, <3>1
    <3>. QED
      BY <2>1, <3>1, <3>2
  <2>3. ASSUME NEW i \in 1..Len(observations') PROVE Honest(observations[i])'
    <3>1. PICK x : x = observations'[i]
      OBVIOUS
    <3>2. i + 1 \in 1..Len(observations) /\ x = observations[i + 1]
      BY <1>4, <1>6, <1>7, <3>1
    <3>3. Honest(x)
      BY <1>2, <3>2
    <3>. QED
      BY <2>1, <3>1, <3>3
  <2>. QED
    BY <2>2, <2>3 DEF Truth
<1>15. NoneMissed'
  BY <1>1, <1>11 DEF CInv, NoneMissed
<1>16. Cursor'
  <2>1. turn = "page" => Fitting(at, reply)'
    BY <1>1, <1>11 DEF CInv, Cursor, Fitting
  <2>. QED
    BY <1>1, <1>11, <2>1 DEF CInv, Cursor
<1>17. LateOnce'
  BY <1>1 DEF CInv, LateOnce
<1>. QED
  BY <1>12, <1>13, <1>14, <1>15, <1>16, <1>17 DEF CInv

(* A task moves while the inventory is read: there is no evidence yet that *)
(* speaks of it.                                                           *)
LEMMA ChangeKeeps ==
  ASSUME CInv, NEW t \in Tasks, Change(t)
  PROVE  CInv'
<1>1. PICK before \in {"absent", "RUNNING", "STOPPED"}, after \in {"RUNNING", "STOPPED", "gone"} :
        /\ Move(t, before, after)
        /\ after = "RUNNING" <=> before = "absent"
        /\ after = "gone" <=> before = "STOPPED"
  BY DEF Change
<1>2. /\ account[t] = before /\ account' = [account EXCEPT ![t] = after]
      /\ at \in InventoryCalls
      /\ UNCHANGED <<alarmPages, fence, at, turn, reply, pages, read, groups, arns,
                     described, observations, evidence, outcome, late>>
  BY <1>1 DEF Move, cursor, gathered
<1>3. /\ account \in [Tasks -> {"absent", "RUNNING", "STOPPED", "gone"}]
      /\ OldTasks \subseteq Tasks
  BY BoundsAssumption DEF CInv, Typed, TypeOK
<1>4. \A a \in Tasks : account'[a] = IF a = t THEN after ELSE account[a]
  BY <1>2, <1>3
<1>5. \A a \in OldTasks :
        /\ account'[a] # "absent"
        /\ account'[a] = "RUNNING" => account[a] = "RUNNING"
        /\ account'[a] # "gone" => account[a] # "gone"
  BY <1>1, <1>2, <1>3, <1>4 DEF CInv, NoneMissed
<1>6. Typed'
  <2>1. account' \in [Tasks -> {"absent", "RUNNING", "STOPPED", "gone"}]
    BY <1>1, <1>2, <1>3
  <2>. QED
    BY <1>2, <2>1 DEF CInv, Typed, TypeOK
<1>7. Shape'
  BY <1>2 DEF CInv, Shape, Follows, Lengths
<1>8. Truth'
  <2>1. Len(evidence) = 0
    BY <1>2 DEF CInv, Shape, Lengths
  <2>2. ASSUME at \in ScopeKnown, NEW i \in 1..Len(observations)
        PROVE  Honest(observations[i])'
    <3>1. PICK x : x = observations[i] /\ Honest(x)
      BY <2>2 DEF CInv, Truth
    <3>2. Honest(x)'
      BY <1>2, <1>5, <3>1 DEF Honest
    <3>. QED
      BY <1>2, <3>1, <3>2
  <2>. QED
    BY <1>2, <2>1, <2>2 DEF Truth
<1>9. NoneMissed'
  BY <1>2, <1>5 DEF CInv, NoneMissed
<1>10. Cursor'
  <2>1. turn = "page" => Fitting(at, reply)'
    BY <1>2, <1>5 DEF CInv, Cursor, Fitting
  <2>. QED
    BY <1>2, <2>1 DEF CInv, Cursor
<1>11. LateOnce'
  BY <1>2 DEF CInv, LateOnce, Stopped
<1>. QED
  BY <1>6, <1>7, <1>8, <1>9, <1>10, <1>11 DEF CInv

(* The lease lapses.                                                       *)
LEMMA LoseKeeps ==
  ASSUME CInv, LoseFence
  PROVE  CInv'
<1>1. /\ fence = "held" /\ fence' = "lost"
      /\ UNCHANGED <<account, alarmPages, at, turn, reply, pages, read, groups, arns,
                     described, observations, evidence, outcome, late>>
  BY DEF LoseFence, cursor, gathered
<1>2. Typed' /\ Shape'
  BY <1>1 DEF CInv, Typed, TypeOK, Shape, Follows, Lengths
<1>3. Truth'
  <2>1. \A x : Honest(x) => Honest(x)'
    BY <1>1, HonestStays
  <2>. QED
    BY <1>1, <2>1 DEF CInv, Truth, Honest
<1>4. NoneMissed' /\ Cursor'
  BY <1>1 DEF CInv, NoneMissed, Cursor, Fitting
<1>5. LateOnce'
  BY <1>1 DEF CInv, LateOnce
<1>. QED
  BY <1>2, <1>3, <1>4, <1>5 DEF CInv

(* Nothing has been asked yet.                                             *)
LEMMA InitCInv == Init => CInv
<1>. SUFFICES ASSUME Init PROVE CInv
  OBVIOUS
<1>1. /\ account \in [Tasks -> {"absent", "RUNNING", "STOPPED"}]
      /\ \A a \in Tasks : account[a] = "absent" <=> a \notin OldTasks
      /\ alarmPages = 0 /\ fence = "held" /\ at = "begin" /\ turn = "call"
      /\ reply.more = FALSE /\ pages = 0 /\ read = {} /\ groups = {} /\ arns = {}
      /\ described = {} /\ observations = <<>> /\ evidence = <<>>
      /\ outcome = "open" /\ late = 0 /\ OldTasks \subseteq Tasks /\ 0 < MaxPages
      /\ MaxPages \in Nat
  BY BoundsAssumption DEF Init, NoReply
<1>2. Typed
  <2>1. <<>> \in Seq(Observation) /\ DOMAIN <<>> = {}
    OBVIOUS
  <2>2. account \in [Tasks -> {"absent", "RUNNING", "STOPPED", "gone"}]
    BY <1>1
  <2>3. alarmPages \in 0..MaxPages /\ pages \in Nat /\ late \in Nat /\ pages < MaxPages
    BY <1>1
  <2>4. \A i \in DOMAIN evidence : evidence[i] \in Observation
    BY <1>1, <2>1
  <2>5. \A i \in DOMAIN observations : observations[i] \in Observation
    BY <1>1, <2>1
  <2>. QED
    BY <1>1, <2>1, <2>2, <2>3, <2>4, <2>5 DEF Typed, TypeOK
<1>3. Shape /\ Truth
  BY <1>1 DEF Shape, Follows, Lengths, Truth, InventoryCalls, TelemetryCalls
<1>4. NoneMissed /\ Cursor /\ LateOnce
  BY <1>1 DEF NoneMissed, Cursor, LateOnce
<1>. QED
  BY <1>2, <1>3, <1>4 DEF CInv

(* No step of the worker or of the account breaks what is known.           *)
LEMMA NextCInv == CInv /\ [Next]_vars => CInv'
<1>. SUFFICES ASSUME CInv, [Next]_vars PROVE CInv'
  OBVIOUS
<1>1. CASE UNCHANGED vars
  BY <1>1 DEF CInv, Typed, TypeOK, Shape, Follows, Lengths, Truth, Honest, NoneMissed, Cursor,
              Fitting, LateOnce, Stopped, vars, world, cursor, gathered
<1>2. CASE Work
  BY <1>2, Asks, TriesAgain, GivesUp, ServiceTaken, TasksTaken, DescriptionsTaken, GroupsTaken,
     HealthTaken, AlarmsTaken, MetricsTaken, Begins, PersistKeeps, Ends, Zenon DEF Work
<1>3. CASE LoseFence
  BY <1>3, LoseKeeps
<1>4. CASE \E a \in Tasks : Change(a)
  BY <1>4, ChangeKeeps
<1>. QED
  BY <1>1, <1>2, <1>3, <1>4 DEF Next

(* What is known of a collect step at every moment.                        *)
THEOREM CollectInvariant == Spec => []CInv
BY InitCInv, NextCInv, PTL DEF Spec
----------------------------------------------------------------------------
(* What follows for the properties.                                        *)

(* Every variable keeps to its type.                                       *)
THEOREM TypeCorrect == Spec => []TypeOK
<1>1. CInv => TypeOK
  BY DEF CInv, Typed
<1>. QED
  BY CollectInvariant, <1>1, PTL

(* A collect step that succeeds leaves one observation of each kind.       *)
THEOREM KindsAreKeptOnce == Spec => []EveryKindOnce
<1>1. CInv => EveryKindOnce
  <2>. SUFFICES ASSUME CInv, outcome = "succeeded",
                       NEW kind \in InventoryKinds \cup TelemetryKinds
                PROVE  Cardinality(Kept(kind)) = 1
    BY DEF EveryKindOnce
  <2>1. evidence \in Seq(Observation) /\ Len(evidence) = 6 /\ Follows(evidence, 0)
    BY DEF CInv, Typed, Shape, Lengths
  <2>2. /\ evidence[1].kind = "service" /\ evidence[2].kind = "tasks"
        /\ evidence[3].kind = "targetGroup" /\ evidence[4].kind = "targetHealth"
        /\ evidence[5].kind = "alarms" /\ evidence[6].kind = "metric"
    BY <2>1, KindsInOrder DEF Follows
  <2>3. DOMAIN evidence = {1, 2, 3, 4, 5, 6}
    BY <2>1
  <2>4. PICK place \in {1, 2, 3, 4, 5, 6} : Kept(kind) = {place}
    <3>1. PICK place \in {1, 2, 3, 4, 5, 6} : evidence[place].kind = kind
      BY <2>2 DEF InventoryKinds, TelemetryKinds
    <3>2. \A i \in DOMAIN evidence : evidence[i].kind = kind => i = place
      BY <2>2, <2>3, <3>1
    <3>. QED
      BY <2>3, <3>1, <3>2 DEF Kept
  <2>. QED
    BY <2>4, FS_Singleton
<1>. QED
  BY CollectInvariant, <1>1, PTL

(* What the evidence says of itself is so.                                 *)
LEMMA EvidenceIsHonest ==
  ASSUME CInv
  PROVE  \A i \in DOMAIN evidence : Honest(evidence[i])
<1>1. evidence \in Seq(Observation)
  BY DEF CInv, Typed
<1>2. DOMAIN evidence = 1..Len(evidence)
  BY <1>1
<1>. QED
  BY <1>2 DEF CInv, Truth

(* Complete task evidence has all tasks that were there, complete alarm    *)
(* evidence all pages.                                                     *)
THEOREM NothingIsMissed == Spec => []CompleteMissesNothing
<1>1. CInv => CompleteMissesNothing
  BY EvidenceIsHonest
  DEF Honest, CompleteMissesNothing, CompleteTasksMissNone, CompleteAlarmsAreAll, Complete, Kept
<1>. QED
  BY CollectInvariant, <1>1, PTL

(* What lies outside the scope of the run is not evidence.                 *)
THEOREM ScopeIsKept == Spec => []EvidenceStaysInScope
<1>1. CInv => EvidenceStaysInScope
  <2>. SUFFICES ASSUME CInv PROVE EvidenceStaysInScope
    OBVIOUS
  <2>1. outcome = "outOfScope" => evidence = <<>>
    BY EmptySeq DEF CInv, Typed, Shape, Lengths
  <2>. QED
    BY <2>1, EvidenceIsHonest DEF Honest, EvidenceStaysInScope, Complete
<1>. QED
  BY CollectInvariant, <1>1, PTL

(* Evidence is written under the fence only.                               *)
LEMMA WritesUnderFence ==
  ASSUME [Next]_vars, fence = "lost"
  PROVE  evidence' = evidence
<1>1. CASE \/ DescribeServices \/ ListTasks \/ DescribeTasks \/ DescribeTargetGroups
           \/ DescribeTargetHealth \/ DescribeAlarms \/ GetMetricData
  BY <1>1 DEF DescribeServices, ListTasks, DescribeTasks, DescribeTargetGroups,
              DescribeTargetHealth, DescribeAlarms, GetMetricData, Ask
<1>2. CASE Throttled \/ Refused \/ CheckpointFails \/ Retry \/ NoService
  BY <1>2 DEF Throttled, Refused, CheckpointFails, Retry, NoService, GiveUp
<1>3. CASE TakeService
  BY <1>3 DEF TakeService, Answered, PageChecked
<1>4. CASE TakeTasks \/ NoTasks \/ TakeDescriptions \/ TakeTargetGroups \/ TakeTargetHealth
           \/ TakeAlarms \/ TakeMetricData
  BY <1>4 DEF TakeTasks, TakeTaskPage, NoTasks, TakeDescriptions, TakeTargetGroups,
              TakeTargetHealth, TakeAlarms, TakeMetricData, TakePages, Answered, PageChecked
<1>5. CASE BeginInventory \/ BeginTelemetry \/ Persist \/ CompleteCollect
  BY <1>5 DEF BeginInventory, BeginTelemetry, EnsureStillLeased, Persist, CompleteCollect
<1>6. CASE LosesFence \/ Fails
  BY <1>6 DEF LosesFence, Fails, End
<1>7. CASE LoseFence \/ \E a \in Tasks : Change(a)
  BY <1>7 DEF LoseFence, Change, Move
<1>8. CASE UNCHANGED vars
  BY <1>8 DEF vars
<1>. QED
  BY <1>1, <1>2, <1>3, <1>4, <1>5, <1>6, <1>7, <1>8 DEF Next, Work

(* A worker without its fence writes nothing and calls AWS at most once.   *)
THEOREM LostFencesStopTheWork == Spec => LostFenceStopsWork
<1>1. CInv /\ CInv' /\ [Next]_vars => [fence = "lost" => evidence' = evidence /\ late' <= 1]_vars
  <2>. SUFFICES ASSUME CInv', [Next]_vars, fence = "lost"
                PROVE  evidence' = evidence /\ late' <= 1
    OBVIOUS
  <2>1. late' \in {0, 1}
    BY DEF CInv, LateOnce
  <2>. QED
    BY <2>1, WritesUnderFence
<1>. QED
  BY CollectInvariant, <1>1, PTL DEF Spec, LostFenceStopsWork
============================================================================

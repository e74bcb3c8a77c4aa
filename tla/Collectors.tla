----------------------------- MODULE Collectors -----------------------------
(***************************************************************************)
(* One execution of the collect step, call by call: the AWS operations of  *)
(* both ports, the fence check after every answer, the observations they   *)
(* return and their way into the store.  Orchestration takes what a port   *)
(* returns as given; here is how it comes about.                           *)
(*                                                                         *)
(* The account changes while it is read.  A task is asked to RUN, later to *)
(* STOP, and some time after that is gone.  The service names its target   *)
(* groups in a list that is never rid of duplicates: `groups` holds its    *)
(* entries, so that an ARN named twice is two of them.                     *)
(***************************************************************************)
EXTENDS Naturals, Sequences, FiniteSets

CONSTANTS
  Tasks,          \* tasks of the service, those to come included
  OldTasks,       \* the ones that exist when the step begins
  OwnGroups,      \* entries that name a group in the run's account and region
  ForeignGroups,  \* entries that name a group elsewhere
  BatchSize,      \* ECS_DESCRIBE_TASKS_BATCH
  PageBound,      \* ALARM_PAGE_BOUND
  MaxPages        \* bound: pages AWS makes of a paged answer

ASSUME BoundsAssumption ==
  /\ IsFiniteSet(Tasks) /\ OldTasks \subseteq Tasks
  /\ OwnGroups \cap ForeignGroups = {}
  /\ BatchSize \in Nat \ {0} /\ PageBound \in Nat \ {0}
  /\ MaxPages \in Nat /\ PageBound < MaxPages

VARIABLES
  account,      \* what ECS wants of each task
  alarmPages,   \* pages the account's alarms fill, once they are asked for
  fence,        \* whether the worker still holds the step of a live run
  at,           \* the operation under way, or the statement of CollectStep
  turn,         \* call: to be made; page, retry: onPage is due; again
  reply,        \* what the operation has answered
  pages,        \* answers of this operation that were taken in
  read,         \* tasks this operation has read or asked about
  groups,       \* entries of the service's list of target groups
  arns,         \* tasks that were listed
  described,    \* tasks that were described
  observations, \* of the port under way, then those not yet persisted
  evidence,     \* observations persisted
  outcome,      \* how the step ended
  late          \* AWS calls made with the fence lost

world == <<account, alarmPages, fence>>
cursor == <<at, turn, reply, pages, read>>
gathered == <<groups, arns, described, observations>>
vars == <<world, cursor, gathered, evidence, outcome, late>>

InventoryKinds == {"service", "tasks", "targetGroup", "targetHealth"}

TelemetryKinds == {"alarms", "metric"}

InventoryCalls == {"describeServices", "listRunning", "listStopped",
                   "describeTasks", "describeTargetGroups",
                   "describeTargetHealth"}

TelemetryCalls == {"describeAlarms", "getMetricData"}

Calls == InventoryCalls \cup TelemetryCalls

\* INACCESSIBLE_ERROR_CODES, as far as the adapter tells them apart.
RefusalCodes == {"throttled", "denied", "unavailable"}

Codes == RefusalCodes \cup {"none", "incomplete"}

Observation == [kind : InventoryKinds \cup TelemetryKinds,
                complete : BOOLEAN, code : Codes]

Observed(kind, complete) ==
  [kind |-> kind, complete |-> complete, code |-> "none"]

Inaccessible(kind, code) ==
  [kind |-> kind, complete |-> FALSE, code |-> code]

AllInaccessible(call, code) ==
  IF call \in InventoryCalls
  THEN <<Inaccessible("service", code), Inaccessible("tasks", code),
         Inaccessible("targetGroup", code), Inaccessible("targetHealth", code)>>
  ELSE <<Inaccessible("alarms", code), Inaccessible("metric", code)>>

NoReply == [items |-> {}, more |-> FALSE]

Init ==
  /\ account \in [Tasks -> {"absent", "RUNNING", "STOPPED"}]
  /\ \A a \in Tasks : account[a] = "absent" <=> a \notin OldTasks
  /\ alarmPages = 0
  /\ fence = "held"
  /\ at = "begin" /\ turn = "call" /\ reply = NoReply
  /\ pages = 0 /\ read = {}
  /\ groups = {} /\ arns = {} /\ described = {}
  /\ observations = <<>> /\ evidence = <<>>
  /\ outcome = "open" /\ late = 0
----------------------------------------------------------------------------
(* The account and the lease change by themselves.                         *)

Move(a, before, after) ==
  /\ account[a] = before
  /\ account' = [account EXCEPT ![a] = after]
  /\ at \in InventoryCalls
  /\ UNCHANGED <<alarmPages, fence, cursor, gathered, evidence, outcome, late>>

Change(a) == \/ Move(a, "absent", "RUNNING")
             \/ Move(a, "RUNNING", "STOPPED")
             \/ Move(a, "STOPPED", "gone")

LoseFence ==
  /\ fence = "held" /\ outcome = "open"
  /\ fence' = "lost"
  /\ UNCHANGED <<account, alarmPages, cursor, gathered, evidence, outcome, late>>
----------------------------------------------------------------------------
(* The nine allowed commands as the ports call them: an operation answers, *)
(* or it throws.                                                           *)

\* With no task listed there is nothing to call.
Calling(call) ==
  /\ at = call /\ turn \in {"call", "again"}
  /\ call = "describeTasks" => arns # {}

CountLate == late' = IF fence = "lost" THEN late + 1 ELSE late

Ask(call, answers) ==
  /\ Calling(call)
  /\ reply' \in answers
  /\ turn' = "page"
  /\ CountLate
  /\ UNCHANGED <<world, at, pages, read, gathered, evidence, outcome>>

\* pageOf: another page follows if the answer has a token.
PagesOf(last) ==
  {[items |-> {}, more |-> m] : m \in IF last THEN {FALSE} ELSE BOOLEAN}

ServiceFound ==
  [scope : {"own", "foreign"}, groups : SUBSET (OwnGroups \cup ForeignGroups)]

DescribeServices ==
  Ask("describeServices",
      {[items |-> found, more |-> FALSE] :
         found \in {{}} \cup {{s} : s \in ServiceFound}})

\* A page holds some of the tasks not given yet, the last page all of them.
ListPages(status) ==
  LET left == {a \in Tasks : account[a] = status} \ read
  IN  {[items |-> some, more |-> some # left] :
         some \in IF pages + 1 = MaxPages THEN {left} ELSE SUBSET left}

ListStoppedFirst == \/ Ask("listRunning", ListPages("STOPPED"))
                    \/ Ask("listStopped", ListPages("RUNNING"))

ListTasks == \/ Ask("listRunning", ListPages("RUNNING"))
             \/ Ask("listStopped", ListPages("STOPPED"))

\* The next batch of ARNs: full, or all that are left.
Batch ==
  LET left == arns \ read
  IN  IF Cardinality(left) <= BatchSize THEN left
      ELSE CHOOSE b \in SUBSET left : Cardinality(b) = BatchSize

\* ECS may report any of them as a failure, and one that is gone always.
DescribeTasks ==
  Ask("describeTasks",
      {[items |-> some, more |-> read \cup Batch # arns] :
         some \in SUBSET {a \in Batch : account[a] # "gone"}})

DescribeTargetGroups == Ask("describeTargetGroups", {NoReply})

DescribeTargetHealth ==
  Ask("describeTargetHealth", PagesOf(pages + 1 = MaxPages))

DescribeAlarms ==
  Ask("describeAlarms", {[items |-> {}, more |-> pages + 1 < alarmPages]})

GetMetricData == Ask("getMetricData", PagesOf(pages + 1 = MaxPages))
----------------------------------------------------------------------------
(* What becomes of a call.                                                 *)

GoToKeepingPages(call) ==
  /\ at' = call
  /\ turn' = "call" /\ reply' = NoReply /\ read' = {}
  /\ UNCHANGED pages

GoTo(call) ==
  /\ at' = call
  /\ turn' = "call" /\ reply' = NoReply /\ pages' = 0 /\ read' = {}

NextPage ==
  /\ turn' = "call" /\ reply' = NoReply /\ pages' = pages + 1
  /\ UNCHANGED at

\* The port returns to CollectStep.
Return(result) == observations' = result /\ GoTo("persist")

End(result) ==
  /\ outcome' = result
  /\ GoTo("ended")
  /\ UNCHANGED <<world, gathered, evidence, late>>

AddInaccessible(code) ==
  /\ Return(observations \o AllInaccessible(at, code))
  /\ UNCHANGED <<world, groups, arns, described, evidence, outcome>>

\* handleCollectError: what the port has gathered is thrown away.
GiveUp(code) ==
  /\ Return(AllInaccessible(at, code))
  /\ UNCHANGED <<world, groups, arns, described, evidence, outcome>>

MayAlwaysRetry == turn \in {"call", "again"}

MayRetry == turn = "call"

\* retryOp: an operation that is throttled is called once more.
Throttled ==
  /\ at \in Calls /\ Calling(at) /\ MayRetry
  /\ turn' = "retry"
  /\ CountLate
  /\ UNCHANGED <<world, at, reply, pages, read, gathered, evidence, outcome>>

Refused ==
  /\ at \in Calls /\ Calling(at)
  /\ \E code \in RefusalCodes :
       /\ code = "throttled" => ~MayRetry
       /\ GiveUp(code)
  /\ CountLate

\* onPage is due after every answer, before a retry, and once if there is
\* no task to describe.
NothingToDescribe == at = "describeTasks" /\ arns = {}

AtCheckpoint == at \in Calls /\ (turn \in {"page", "retry"} \/ NothingToDescribe)

PageUnchecked == TRUE

PageChecked == fence = "held"

\* requireFence throws, or the database fails: to the port either is an
\* error like that of an operation.
CheckpointFails ==
  /\ AtCheckpoint
  /\ GiveUp("unavailable")
  /\ UNCHANGED late

Retry ==
  /\ at \in Calls /\ turn = "retry" /\ PageChecked
  /\ turn' = "again"
  /\ UNCHANGED <<world, at, reply, pages, read, gathered, evidence, outcome, late>>

Answered(call) == at = call /\ turn = "page" /\ PageChecked
----------------------------------------------------------------------------
(* collectInventory takes an answer in.                                    *)

NoService ==
  /\ Answered("describeServices") /\ reply.items = {}
  /\ GiveUp("incomplete")
  /\ UNCHANGED late

ServiceInScope(service) == service.scope = "own"

TakeService ==
  /\ Answered("describeServices")
  /\ \E service \in reply.items :
       IF ServiceInScope(service)
       THEN /\ groups' = service.groups
            /\ observations' = <<Observed("service", TRUE)>>
            /\ GoTo("listRunning")
            /\ UNCHANGED <<world, arns, described, evidence, outcome, late>>
       ELSE End("outOfScope")

TakeTaskPage(call, next) ==
  /\ Answered(call)
  /\ arns' = arns \cup reply.items
  /\ IF reply.more THEN NextPage /\ read' = read \cup reply.items
                   ELSE GoTo(next)
  /\ UNCHANGED <<world, groups, described, observations, evidence, outcome, late>>

TakeTasks == \/ TakeTaskPage("listRunning", "listStopped")
             \/ TakeTaskPage("listStopped", "describeTasks")

\* normaliseTasks: every task that was asked for is there.
TasksComplete == arns \subseteq described'

\* A service with no target group has none to inspect.
Inspect(result) ==
  IF groups = {}
  THEN Return(result \o <<Observed("targetGroup", TRUE),
                          Observed("targetHealth", FALSE)>>)
  ELSE observations' = result /\ GoTo("describeTargetGroups")

SomeGroupInScope == groups # {} => groups \cap OwnGroups # {}

GroupsInScope == groups \subseteq OwnGroups

TasksKnown ==
  IF GroupsInScope
  THEN /\ Inspect(Append(observations, Observed("tasks", TasksComplete)))
       /\ UNCHANGED <<world, groups, arns, evidence, outcome, late>>
  ELSE /\ outcome' = "outOfScope" /\ GoTo("ended")
       /\ UNCHANGED <<world, groups, arns, observations, evidence, late>>

NoTasks ==
  /\ NothingToDescribe /\ PageChecked
  /\ described' = {}
  /\ TasksKnown

TakeDescriptions ==
  /\ Answered("describeTasks")
  /\ described' = described \cup reply.items
  /\ IF reply.more
     THEN /\ NextPage /\ read' = read \cup Batch
          /\ UNCHANGED <<world, groups, arns, observations, evidence, outcome, late>>
     ELSE TasksKnown

\* The health of the targets is read for a list of one target group only.
TakeTargetGroups ==
  /\ Answered("describeTargetGroups")
  /\ LET result == Append(observations, Observed("targetGroup", TRUE))
     IN  IF Cardinality(groups) = 1
         THEN observations' = result /\ GoTo("describeTargetHealth")
         ELSE Return(Append(result, Observed("targetHealth", FALSE)))
  /\ UNCHANGED <<world, groups, arns, described, evidence, outcome, late>>

\* A paged operation: the next page, or Last and the step it leads to.
TakePages(call, last, Last) ==
  /\ Answered(call)
  /\ IF last THEN Last ELSE NextPage /\ UNCHANGED <<read, observations>>
  /\ UNCHANGED <<world, groups, arns, described, evidence, outcome, late>>

TakeTargetHealth ==
  TakePages("describeTargetHealth", ~reply.more,
            Return(Append(observations, Observed("targetHealth", TRUE))))
----------------------------------------------------------------------------
(* collectTelemetry takes an answer in.                                    *)

AtLastPage == ~reply.more \/ pages + 1 >= PageBound

AlarmsRead == ~reply.more

TakeAlarms ==
  TakePages("describeAlarms", AtLastPage,
            /\ observations' = <<Observed("alarms", AlarmsRead)>>
            /\ GoTo("getMetricData"))

TakeMetricData ==
  TakePages("getMetricData", ~reply.more,
            Return(Append(observations, Observed("metric", TRUE))))
----------------------------------------------------------------------------
(* CollectStep.                                                            *)

\* ensureStillLeased before a port is called.
EnsureStillLeased(here, call) ==
  /\ at = here /\ fence = "held"
  /\ GoTo(call)
  /\ UNCHANGED <<account, fence, gathered, evidence, outcome, late>>

BeginInventory == /\ EnsureStillLeased("begin", "describeServices")
                  /\ UNCHANGED alarmPages

BeginTelemetry == /\ EnsureStillLeased("between", "describeAlarms")
                  /\ alarmPages' \in 1..MaxPages

Persist ==
  /\ at = "persist" /\ fence = "held"
  /\ evidence' = Append(evidence, Head(observations))
  /\ observations' = Tail(observations)
  /\ IF Len(observations) > 1 THEN UNCHANGED at
     ELSE at' = IF Head(observations).kind \in InventoryKinds
                THEN "between" ELSE "complete"
  /\ UNCHANGED <<world, turn, reply, pages, read, groups, arns, described,
                 outcome, late>>

CompleteCollect ==
  /\ at = "complete" /\ fence = "held"
  /\ End("succeeded")

OwnTransaction == at \in {"begin", "persist", "between", "complete"}

LosesFence == OwnTransaction /\ fence = "lost" /\ End("fenceLost")

\* The transaction fails: the loop takes the error for a retryable one.
Fails == OwnTransaction /\ End("retryable")

Work ==
  \/ DescribeServices \/ ListTasks \/ DescribeTasks \/ DescribeTargetGroups
  \/ DescribeTargetHealth \/ DescribeAlarms \/ GetMetricData
  \/ Throttled \/ Refused \/ CheckpointFails \/ Retry
  \/ NoService \/ TakeService \/ TakeTasks \/ NoTasks \/ TakeDescriptions
  \/ TakeTargetGroups \/ TakeTargetHealth \/ TakeAlarms \/ TakeMetricData
  \/ BeginInventory \/ BeginTelemetry
  \/ Persist \/ CompleteCollect \/ LosesFence \/ Fails

Next == Work \/ LoseFence \/ \E a \in Tasks : Change(a)

Spec == Init /\ [][Next]_vars

\* AWS and the database answer every call, if only with an error.
FairSpec == Spec /\ WF_vars(Work)
============================================================================

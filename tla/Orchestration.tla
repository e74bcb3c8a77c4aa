--------------------------- MODULE Orchestration ---------------------------
(***************************************************************************)
(* How runs are executed: the Postgres store, the worker processes that    *)
(* claim steps under a fenced lease, and the clients that cancel runs.     *)
(*                                                                         *)
(* A transaction of the store is one action: every write path locks the    *)
(* run row and then both step rows before it decides, so transactions on   *)
(* one run are serialised.  Two things escape that serialisation and are   *)
(* modelled.  Whatever a process reads outside a transaction (the claimed  *)
(* step, the observations of an evaluation, the run state of a cancel)     *)
(* stays in its memory and may be stale when it is used.  And now() is the *)
(* time at which a transaction BEGAN: a transaction that waited for a lock *)
(* judges a lease by the clock of its beginning.                           *)
(*                                                                         *)
(* Time is kept as two flags of a step.  lapsed: lease_expires_at is past. *)
(* waiting: next_attempt_at is still to come.                              *)
(***************************************************************************)
EXTENDS Verdicts, Naturals, FiniteSets

CONSTANTS
  Runs,              \* runs that have been enqueued
  Workers,           \* worker processes
  WorkerIds,         \* what GROUNDS_WORKER_ID may be
  WorkerId,          \* the id of each process; two processes may share one
  Registered,        \* the detectors each worker process has registered
  Unfit,             \* runs whose scope or pins the collect step refuses
  InventoryBatches,  \* what one call of the inventory port may return
  TelemetryBatches,  \* what one call of the telemetry port may return
  Clients,           \* cancel requests, one Idempotency-Key each
  Target,            \* the run each of them names
  MaxStepAttempts,   \* MAX_STEP_ATTEMPTS, 5 in the source
  Nobody,            \* lease_owner IS NULL
  NoClaim            \* a worker outside runOnce

ASSUME WorkersAssumption ==
  /\ WorkerId \in [Workers -> WorkerIds]
  /\ Registered \in [Workers -> SUBSET Detectors]
  /\ Nobody \notin WorkerIds

ASSUME RunsAssumption ==
  /\ Unfit \subseteq Runs
  /\ Target \in [Clients -> Runs]
  /\ InventoryBatches \subseteq Seq(Observation)
  /\ TelemetryBatches \subseteq Seq(Observation)

ASSUME AttemptsAssumption == MaxStepAttempts \in Nat \ {0}

VARIABLES
  run,           \* assurance_runs
  step,          \* run_steps
  observations,  \* observations of each run, oldest first
  findings,      \* findings and citations of each run
  events,        \* the (type, operation_id) pairs logged for each run
  pc,            \* where each worker is in runOnce
  claim,         \* the claimed work it holds in memory
  batch,         \* observations a port returned and not yet persisted
  drawn,         \* the findings an evaluation computed in memory
  opened,        \* transactions of the worker that began before the lapse
  cancel,        \* each cancel request: where it is, the run state it saw
  receipts       \* the requests http_idempotency holds an answer for

store == <<run, step, observations, findings, events>>
workers == <<pc, claim, batch, drawn, opened>>
clients == <<cancel, receipts>>
vars == <<store, workers, clients>>

\* Nothing in the code fails a step with persist_failure.
ErrorClass == {"none", "attempts_exhausted", "persist_failure",
               "invariant_violation", "cancelled"}

EventType == {"run_state_changed", "step_leased", "step_recovered",
              "step_retry_scheduled", "step_succeeded", "step_failed",
              "step_cancelled", "run_cancelled", "cancel_requested",
              "observation_persisted"}

\* operation_id is built from the step and a lease epoch, or is one per run
\* (0); an observation's is its content identity, here its position.
Event(type, t, n) == [type |-> type, step |-> t, n |-> n]

Points == {"idle", "verify", "inventory", "persistInventory", "recheck",
           "telemetry", "persistTelemetry", "complete",
           "read", "conclude", "fail", "retry"}

\* Where a worker opens a transaction that starts with requireFence; a port
\* does so too, from its onPage callback.
Fenced == Points \ {"idle", "read"}

Claim == [run : Runs, step : StepType,
          epoch : Nat \ {0}, attempt : Nat \ {0}]

Init ==
  /\ run = [r \in Runs |->
              [state |-> "queued", started |-> FALSE, ended |-> FALSE,
               result |-> "none", cancelRequested |-> FALSE]]
  /\ step = [r \in Runs |-> [t \in StepType |->
              [state |-> IF t = "collect" THEN "ready" ELSE "blocked",
               attempt |-> 0, epoch |-> 0, owner |-> Nobody,
               waiting |-> FALSE, lapsed |-> FALSE, error |-> "none"]]]
  /\ observations = [r \in Runs |-> << >>]
  /\ findings = [r \in Runs |-> {}]
  /\ events = [r \in Runs |-> {}]
  /\ pc = [w \in Workers |-> "idle"]
  /\ claim = [w \in Workers |-> NoClaim]
  /\ batch = [w \in Workers |-> << >>]
  /\ drawn = [w \in Workers |-> {}]
  /\ opened = [w \in Workers |-> {}]
  /\ cancel = [c \in Clients |-> [at |-> "idle", saw |-> "queued"]]
  /\ receipts = {}

-----------------------------------------------------------------------------
(* Moving a worker, and what its transactions check. *)

Release(w) ==
  /\ pc' = [pc EXCEPT ![w] = "idle"]
  /\ claim' = [claim EXCEPT ![w] = NoClaim]
  /\ batch' = [batch EXCEPT ![w] = << >>]
  /\ drawn' = [drawn EXCEPT ![w] = {}]
  /\ opened' = [opened EXCEPT ![w] = {}]

\* Go to the next point of the handler with these observations and findings
\* in memory.
Proceed(w, point, items, outputs) ==
  /\ pc' = [pc EXCEPT ![w] = point]
  /\ batch' = [batch EXCEPT ![w] = items]
  /\ drawn' = [drawn EXCEPT ![w] = outputs]
  /\ opened' = [opened EXCEPT ![w] = @ \ {"fence"}]
  /\ UNCHANGED claim

Advance(w, point) == Proceed(w, point, << >>, {})

Busy(w) == pc[w] # "idle"

\* Fault variant: the fence compares owner and state, not the epoch.
HoldsLeaseOfAnyEpoch(w, r, t) ==
  /\ Busy(w) /\ claim[w].run = r /\ claim[w].step = t
  /\ step[r][t].state = "leased" /\ step[r][t].owner = WorkerId[w]

\* Fault variant: the fence finds a lease of that owner and epoch in any row.
HoldsLeaseInAnyRow(w, r, t) ==
  /\ Busy(w) /\ claim[w].run = r /\ claim[w].step = t
  /\ \E q \in Runs, u \in StepType :
       /\ step[q][u].state = "leased" /\ step[q][u].owner = WorkerId[w]
       /\ step[q][u].epoch = claim[w].epoch

\* The row still carries the lease that the worker was given.
HoldsLease(w, r, t) ==
  /\ Busy(w)
  /\ claim[w].run = r
  /\ claim[w].step = t
  /\ step[r][t].state = "leased"
  /\ step[r][t].owner = WorkerId[w]
  /\ step[r][t].epoch = claim[w].epoch

ExpectedRunState(t) == IF t = "collect" THEN "collecting" ELSE "evaluating"

\* Fault variant: a write only checks that the run has not ended.
FenceIsRunNotOver(w) == run[claim[w].run].state \notin TerminalRunState

FenceHolds(w) ==
  LET r == claim[w].run
      t == claim[w].step
  IN  /\ HoldsLease(w, r, t)
      /\ run[r].state = ExpectedRunState(t)
      /\ ~step[r][t].lapsed \/ "fence" \in opened[w]

\* Fault variant: owner and expiry stay in the row.
StillOwned(s) == s

\* lease_owner = NULL, lease_expires_at = NULL
Unowned(s) == [s EXCEPT !.owner = Nobody, !.lapsed = FALSE]

\* finished_at is set with every final state.
Over(a, state) == [a EXCEPT !.state = state, !.ended = TRUE]

Log(r, new) == events' = [events EXCEPT ![r] = @ \cup new]

-----------------------------------------------------------------------------
(* ClaimWork *)

\* Fault variant: lapsed leases are not recovered.
StepIsReady(r, t) ==
  /\ ~step[r][t].waiting /\ step[r][t].state = "ready"
  /\ run[r].state \in IF t = "collect" THEN {"queued", "collecting"}
                                        ELSE {"evaluating"}

StepIsClaimable(r, t) ==
  /\ ~step[r][t].waiting
  /\ \/ step[r][t].state = "ready"
     \/ step[r][t].state = "leased" /\ step[r][t].lapsed
  /\ IF t = "collect"
       THEN run[r].state \in {"queued", "collecting"} /\ ~run[r].cancelRequested
       ELSE run[r].state = "evaluating"

Claimable(r, t) ==
  /\ StepIsClaimable(r, t)
  /\ t = "evaluate" => ~StepIsClaimable(r, "collect")

\* Fault variant: one attempt too many.
OneMoreAttemptLeft(r, t) == step[r][t].attempt <= MaxStepAttempts

AttemptsLeft(r, t) == step[r][t].attempt < MaxStepAttempts

\* The first claim of a run starts it.
IsFirstClaim(r, t) == run[r].state = "queued" /\ t = "collect"

\* Fault variant: one operation_id for all retries.
SameRetryOperation(w) == 0

\* The operation_id of a lease or a retry names the epoch it is about, so that
\* the log does not take the next one for a replay.
LeaseOperation(epoch) == epoch
RetryOperation(w) == claim[w].epoch

\* The candidate query takes the oldest claimable run that nobody has locked;
\* since any older one may be locked at that moment, it may be any run.
Lease(w, r, t) ==
  /\ pc[w] = "idle"
  /\ Claimable(r, t)
  /\ AttemptsLeft(r, t)
  /\ LET old   == step[r][t]
         epoch == old.epoch + 1
         first == IsFirstClaim(r, t)
         type  == IF old.state = "leased" THEN "step_recovered" ELSE "step_leased"
     IN  /\ step' = [step EXCEPT ![r][t] =
                       [state |-> "leased", attempt |-> old.attempt + 1,
                        epoch |-> epoch, owner |-> WorkerId[w],
                        waiting |-> FALSE, lapsed |-> FALSE, error |-> "none"]]
         /\ run' = IF first
                     THEN [run EXCEPT ![r] = [@ EXCEPT !.state = "collecting",
                                                       !.started = TRUE]]
                     ELSE run
         /\ Log(r, {Event(type, t, LeaseOperation(epoch))} \cup
                   IF first THEN {Event("run_state_changed", t, epoch)} ELSE {})
         /\ claim' = [claim EXCEPT ![w] =
                        [run |-> r, step |-> t,
                         epoch |-> epoch, attempt |-> old.attempt + 1]]
         /\ pc' = [pc EXCEPT ![w] = IF t = "collect" THEN "verify" ELSE "read"]
  /\ UNCHANGED <<observations, findings, batch, drawn, opened, clients>>

Exhaust(w, r, t) ==
  /\ pc[w] = "idle"
  /\ Claimable(r, t)
  /\ ~AttemptsLeft(r, t)
  /\ step' = [step EXCEPT ![r][t] =
                [Unowned(@) EXCEPT !.state = "failed",
                                   !.error = "attempts_exhausted"]]
  /\ run' = IF run[r].state \in {"queued", "collecting", "evaluating"}
              THEN [run EXCEPT ![r] = Over(@, "failed")]
              ELSE run
  /\ Log(r, {Event("step_failed", t, 0)})
  /\ UNCHANGED <<observations, findings, workers, clients>>

Poll(w) == \E r \in Runs, t \in StepType : Lease(w, r, t) \/ Exhaust(w, r, t)

-----------------------------------------------------------------------------
(* CollectStep *)

VerifyScope(w) ==
  /\ pc[w] = "verify"
  /\ FenceHolds(w)
  /\ Advance(w, IF claim[w].run \in Unfit THEN "fail" ELSE "inventory")
  /\ UNCHANGED <<store, clients>>

AfterPersist(point) ==
  IF point = "persistInventory" THEN "recheck" ELSE "complete"

\* A port returns observations; with none of them there is nothing to persist.
Collected(w, items, point) ==
  Proceed(w, IF items = << >> THEN AfterPersist(point) ELSE point, items, {})

CollectInventory(w) ==
  /\ pc[w] = "inventory"
  /\ \E items \in InventoryBatches : Collected(w, items, "persistInventory")
  /\ UNCHANGED <<store, clients>>

CollectTelemetry(w) ==
  /\ pc[w] = "telemetry"
  /\ \E items \in TelemetryBatches : Collected(w, items, "persistTelemetry")
  /\ UNCHANGED <<store, clients>>

\* One observation, one fenced transaction.  The commit may succeed and its
\* acknowledgement be lost: the worker then takes the retry path.
PersistObservation(w) ==
  LET r    == claim[w].run
      o    == Head(batch[w])
      rest == Tail(batch[w])
      next == IF rest = << >> THEN AfterPersist(pc[w]) ELSE pc[w]
  IN  /\ pc[w] \in {"persistInventory", "persistTelemetry"}
      /\ FenceHolds(w)
      /\ IF Recorded(o, observations[r])
           THEN UNCHANGED <<observations, events>>
           ELSE /\ observations' = [observations EXCEPT ![r] = Append(@, o)]
                /\ Log(r, {Event("observation_persisted", "collect",
                                 Len(observations[r]) + 1)})
      /\ Proceed(w, next, rest, {}) \/ Advance(w, "retry")
      /\ UNCHANGED <<run, step, findings, clients>>

EnsureStillLeased(w) ==
  /\ pc[w] = "recheck"
  /\ FenceHolds(w)
  /\ Advance(w, "telemetry")
  /\ UNCHANGED <<store, clients>>

CompleteCollect(w) ==
  LET r == claim[w].run
  IN  /\ pc[w] = "complete"
      /\ FenceHolds(w)
      /\ step[r]["evaluate"].state = "blocked"
      /\ step' = [step EXCEPT
                    ![r]["collect"] =
                      [Unowned(@) EXCEPT !.state = "succeeded"],
                    ![r]["evaluate"] = [@ EXCEPT !.state = "ready"]]
      /\ run' = [run EXCEPT ![r].state = "evaluating"]
      /\ Log(r, {Event("step_succeeded", "collect", 0)})
      /\ Release(w) \/ Advance(w, "retry")
      /\ UNCHANGED <<observations, findings, clients>>

\* A port that finds the account or the resource outside the allowed scope
\* throws OutOfScopeError.
PortOutOfScope(w) ==
  /\ pc[w] \in {"inventory", "telemetry"}
  /\ Advance(w, "fail")
  /\ UNCHANGED <<store, clients>>

-----------------------------------------------------------------------------
(* EvaluateStep *)

\* Fault variant: only the first page of the observations is read.
FirstPageRead(w) == SubSeq(observations[claim[w].run], 1, 1)

\* The observations are read outside any transaction and without the fence.
EvidenceRead(w) == observations[claim[w].run]

ReadAndEvaluate(w) ==
  LET evidence == EvidenceRead(w)
  IN  /\ pc[w] = "read"
      /\ \/ /\ ~(Detectors \subseteq Registered[w])
            /\ Advance(w, "fail")
         \/ /\ Detectors \subseteq Registered[w]
            /\ evidence = << >>
            /\ Advance(w, "retry")
         \/ /\ Detectors \subseteq Registered[w]
            /\ evidence # << >>
            /\ Proceed(w, "conclude", << >>, Verdict(evidence))
      /\ UNCHANGED <<store, clients>>

Conclude(w) ==
  LET r       == claim[w].run
      results == Results(drawn[w])
  IN  /\ pc[w] = "conclude"
      /\ FenceHolds(w)
      /\ findings' = [findings EXCEPT ![r] = @ \cup drawn[w]]
      /\ step' = [step EXCEPT ![r]["evaluate"] =
                    [Unowned(@) EXCEPT !.state = "succeeded"]]
      /\ run' = [run EXCEPT ![r] =
                   [Over(@, TerminalStateForResults(results)) EXCEPT
                      !.result = SummariseResults(results)]]
      /\ Log(r, {Event("step_succeeded", "evaluate", 0)})
      /\ Release(w) \/ Advance(w, "retry")
      /\ UNCHANGED <<observations, clients>>

-----------------------------------------------------------------------------
(* FailClaimedStep, RetryClaimedStep, and the ways runOnce gets there *)

FailStep(w, error) ==
  LET r == claim[w].run
      t == claim[w].step
  IN  /\ FenceHolds(w)
      /\ step' = [step EXCEPT ![r][t] =
                    [Unowned(@) EXCEPT !.state = "failed", !.error = error]]
      /\ run' = [run EXCEPT ![r] = Over(@, "failed")]
      /\ Log(r, {Event("step_failed", t, 0)})
      /\ Release(w)
      /\ UNCHANGED <<observations, findings, clients>>

FailClaimedStep(w) == pc[w] = "fail" /\ FailStep(w, "invariant_violation")

GiveUp(w) ==
  /\ pc[w] = "retry"
  /\ claim[w].attempt >= MaxStepAttempts
  /\ FailStep(w, "attempts_exhausted")

ScheduleRetry(w) ==
  LET r == claim[w].run
      t == claim[w].step
  IN  /\ pc[w] = "retry"
      /\ claim[w].attempt < MaxStepAttempts
      /\ FenceHolds(w)
      /\ step' = [step EXCEPT ![r][t] =
                    [Unowned(@) EXCEPT !.state = "ready", !.waiting = TRUE]]
      /\ Log(r, {Event("step_retry_scheduled", t, RetryOperation(w))})
      /\ Release(w)
      /\ UNCHANGED <<run, observations, findings, clients>>

\* FenceLostError: the transaction rolls back and runOnce returns.
LoseFence(w) ==
  /\ pc[w] \in Fenced
  /\ ~FenceHolds(w)
  /\ Release(w)
  /\ UNCHANGED <<store, clients>>

\* Any other error of a query, a port or a detector.
Fault(w) ==
  /\ Busy(w)
  /\ pc[w] \notin {"fail", "retry"}
  /\ Advance(w, "retry")
  /\ UNCHANGED <<store, clients>>

\* The process dies: it is killed, or an error escapes runOnce, as one of
\* the fail and retry transactions does.  Its memory is lost.
Crash(w) ==
  /\ Busy(w)
  /\ Release(w)
  /\ UNCHANGED <<store, clients>>

WorkerStep(w) ==
  \/ VerifyScope(w) \/ CollectInventory(w) \/ CollectTelemetry(w)
  \/ PersistObservation(w) \/ EnsureStillLeased(w) \/ CompleteCollect(w)
  \/ ReadAndEvaluate(w) \/ Conclude(w)
  \/ FailClaimedStep(w) \/ GiveUp(w) \/ ScheduleRetry(w) \/ LoseFence(w)

-----------------------------------------------------------------------------
(* Time *)

\* The lease of a step runs out.  A fenced transaction of its holder, or a
\* heartbeat of it, may have begun before that and still be in flight.
LeaseLapses(r, t) ==
  /\ step[r][t].state = "leased"
  /\ ~step[r][t].lapsed
  /\ step' = [step EXCEPT ![r][t].lapsed = TRUE]
  /\ \E begun \in SUBSET {"fence", "heartbeat"} :
       opened' = [w \in Workers |->
                    IF HoldsLease(w, r, t) THEN begun ELSE opened[w]]
  /\ UNCHANGED <<run, observations, findings, events,
                 pc, claim, batch, drawn, clients>>

\* A heartbeat renews the lease of a row that still carries its epoch.  While
\* the lease has not lapsed that only postpones LeaseLapses; one that began
\* in time and is executed late revives the lease.
LateHeartbeat(w, r, t) ==
  /\ HoldsLease(w, r, t)
  /\ step[r][t].lapsed
  /\ "heartbeat" \in opened[w]
  /\ step' = [step EXCEPT ![r][t].lapsed = FALSE]
  /\ opened' = [opened EXCEPT ![w] = {}]
  /\ UNCHANGED <<run, observations, findings, events,
                 pc, claim, batch, drawn, clients>>

\* With nobody renewing it a lease does run out.
LeaseRunsOut(r, t) ==
  /\ \A w \in Workers : ~HoldsLease(w, r, t)
  /\ LeaseLapses(r, t)

BackoffElapses(r, t) ==
  /\ step[r][t].waiting
  /\ step' = [step EXCEPT ![r][t].waiting = FALSE]
  /\ UNCHANGED <<run, observations, findings, events, workers, clients>>

-----------------------------------------------------------------------------
(* CancelRun *)

Unanswered == {"refused", "unavailable"}

\* A request that ends without an answer forgets what it read of the run.
Settle(c, at) ==
  cancel' = [cancel EXCEPT ![c] =
               [at  |-> at,
                saw |-> IF at \in Unanswered THEN "queued" ELSE @.saw]]

\* The request arrives, for the first time or again with the same key: it is
\* answered from http_idempotency, or decided by what was read of the run
\* without a lock.  The two reads are one step because only the request
\* itself writes its answer.
SubmitCancel(c) ==
  /\ cancel[c].at \in {"idle", "answered"} \cup Unanswered
  /\ cancel' = [cancel EXCEPT ![c] =
                  [at  |-> IF c \in receipts THEN "answered" ELSE "decided",
                   saw |-> run[Target[c]].state]]
  /\ UNCHANGED <<store, workers, receipts>>

\* Fault variant: a collecting run is treated like an evaluating one.
SawQueued(c) == cancel[c].saw = "queued"

SawCancellable(c) == cancel[c].saw \in {"queued", "collecting"}

\* The run was seen evaluating or ended: the request is put on record.
RecordCancelRequested(c) ==
  LET r == Target[c]
  IN  /\ cancel[c].at = "decided"
      /\ ~SawCancellable(c)
      /\ run' = [run EXCEPT ![r].cancelRequested = TRUE]
      /\ Log(r, {Event("cancel_requested", "collect", 0)})
      /\ receipts' = receipts \cup {c}
      /\ \E at \in {"answered", "unavailable"} : Settle(c, at)
      /\ UNCHANGED <<step, observations, findings, workers>>

\* Fault variants: an evaluating run is cancelled too, any end of the run
\* passes for the cancellation, a leased collect step is left alone.
NotOver(r) == run[r].state \in {"queued", "collecting", "evaluating"}
AnyEndStands(r) == run[r].state \in TerminalRunState
CollectIsReady(r) == step[r]["collect"].state = "ready"

Cancellable(r) == run[r].state \in {"queued", "collecting"}

CancelStands(r) == run[r].state = "cancelled"

CollectCanStop(r) == step[r]["collect"].state \in {"ready", "leased"}

CancelEvents == {Event("run_cancelled", "collect", 0),
                 Event("step_cancelled", "collect", 0)}

CancelCollect(c) ==
  LET r == Target[c]
  IN  /\ cancel[c].at = "decided"
      /\ SawCancellable(c)
      /\ \/ /\ CancelStands(r)
            /\ UNCHANGED <<run, step>>
         \/ /\ Cancellable(r)
            /\ run' = [run EXCEPT ![r] =
                         [Over(@, "cancelled") EXCEPT !.cancelRequested = TRUE]]
            /\ step' = IF CollectCanStop(r)
                         THEN [step EXCEPT ![r]["collect"] =
                                 [Unowned(@) EXCEPT
                                    !.state = "cancelled",
                                    !.epoch = step[r]["collect"].epoch + 1,
                                    !.error = "cancelled"]]
                         ELSE step
      /\ Log(r, CancelEvents)
      /\ receipts' = receipts \cup {c}
      /\ \E at \in {"answered", "unsure"} : Settle(c, at)
      /\ UNCHANGED <<observations, findings, workers>>

\* Between the read and the lock the run left the cancellable states.
CancelConflict(c) ==
  /\ cancel[c].at = "decided"
  /\ SawCancellable(c)
  /\ ~Cancellable(Target[c])
  /\ ~CancelStands(Target[c])
  /\ Settle(c, "conflicted")
  /\ UNCHANGED <<store, workers, receipts>>

\* After an error of the cancel transaction the run is read again, and if it
\* is cancelled the answer is recorded in a transaction of its own.
RereadAfterError(c) ==
  /\ cancel[c].at \in {"conflicted", "unsure"}
  /\ \/ /\ CancelStands(Target[c])
        /\ receipts' = receipts \cup {c}
        /\ \E at \in {"answered", "unavailable"} : Settle(c, at)
     \/ /\ ~CancelStands(Target[c])
        /\ UNCHANGED receipts
        /\ Settle(c, IF cancel[c].at = "conflicted" THEN "refused"
                                                    ELSE "unavailable")
  /\ UNCHANGED <<store, workers>>

CancelFault(c) ==
  /\ \/ cancel[c].at = "decided" /\ SawCancellable(c) /\ Settle(c, "unsure")
     \/ cancel[c].at = "decided" /\ ~SawCancellable(c) /\ Settle(c, "unavailable")
     \/ cancel[c].at \in {"conflicted", "unsure"} /\ Settle(c, "unavailable")
  /\ UNCHANGED <<store, workers, receipts>>

ClientStep(c) ==
  \/ SubmitCancel(c) \/ RecordCancelRequested(c) \/ CancelCollect(c)
  \/ CancelConflict(c) \/ RereadAfterError(c) \/ CancelFault(c)

-----------------------------------------------------------------------------
Next ==
  \/ \E w \in Workers : Poll(w) \/ WorkerStep(w)
  \/ \E w \in Workers : PortOutOfScope(w) \/ Fault(w) \/ Crash(w)
  \/ \E r \in Runs, t \in StepType :
       \/ LeaseLapses(r, t)
       \/ BackoffElapses(r, t)
       \/ \E w \in Workers : LateHeartbeat(w, r, t)
  \/ \E c \in Clients : ClientStep(c)

\* Every worker keeps polling and every call it makes returns; a lease nobody
\* renews runs out and a backoff elapses.  Faults, crashes, lapses under a
\* working worker and cancel requests are never obliged to happen.
Fairness ==
  /\ \A w \in Workers : WF_vars(Poll(w)) /\ WF_vars(WorkerStep(w))
  /\ \A r \in Runs, t \in StepType :
       WF_vars(LeaseRunsOut(r, t)) /\ WF_vars(BackoffElapses(r, t))

Spec == Init /\ [][Next]_vars
FairSpec == Spec /\ Fairness
=============================================================================

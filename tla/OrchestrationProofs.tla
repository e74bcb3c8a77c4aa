-------------------------- MODULE OrchestrationProofs --------------------------
(***************************************************************************)
(* Proofs about Orchestration, for any number of runs, workers and cancel  *)
(* requests, any limit of attempts and whatever the ports return: types,   *)
(* what a step does to the rows and the log of one run, and what is true   *)
(* of the rows.                                                            *)
(***************************************************************************)
EXTENDS OrchestrationProperties, TLAPS

\* What a worker in runOnce remembers: the claim it was given, of the kind of
\* step that its place in the code belongs to, and something to persist where
\* it is about to persist.
MemoryOK ==
  \A w \in Workers :
    Busy(w) =>
      /\ claim[w] \in Claim
      /\ pc[w] \in {"read", "conclude"} => claim[w].step = "evaluate"
      /\ pc[w] \notin {"read", "conclude", "fail", "retry"} =>
           claim[w].step = "collect"
      /\ pc[w] \in {"persistInventory", "persistTelemetry"} => batch[w] # << >>

TypeInv == TypeOK /\ MemoryOK

-----------------------------------------------------------------------------
(* Verdicts *)

\* Any evidence has a verdict made of findings of the pinned detectors.
LEMMA VerdictType ==
  ASSUME NEW evidence \in Seq(Observation)
  PROVE  Verdict(evidence) \in SUBSET Finding
<1> SUFFICES ASSUME NEW d \in Detectors
             PROVE  FindingOf(d, evidence) \in Finding
  BY DEF Verdict
<1>1. DetectorResult(d, evidence) \in AssuranceResult
  BY DEF DetectorResult, AssuranceResult
<1>2. Cited(d, evidence) \in SUBSET Observation
  BY DEF Cited, Needed
<1> QED
  BY <1>1, <1>2 DEF FindingOf, Finding

\* A set of results always has a summary, and a run a state to end in.
LEMMA OutcomeType ==
  ASSUME NEW results
  PROVE  /\ SummariseResults(results) \in AssuranceResult
         /\ TerminalStateForResults(results) \in {"healthy", "findings"}
BY DEF SummariseResults, TerminalStateForResults, AssuranceResult

-----------------------------------------------------------------------------
(* How the parts of an action keep the types *)

LEMMA InitType == Init => TypeInv
BY WorkersAssumption, AttemptsAssumption
DEF Init, TypeInv, TypeOK, StoreTypeOK, WorkersTypeOK, ClientsTypeOK, MemoryOK,
    RunRow, StepRow, CancelRow, RunState, StepState, ErrorClass, Points,
    Busy, StepType

\* A row may be overwritten with a row.
LEMMA RowUpdate ==
  ASSUME StoreTypeOK, NEW r \in Runs
  PROVE  /\ \A row \in RunRow : [run EXCEPT ![r] = row] \in [Runs -> RunRow]
         /\ \A t \in StepType, row \in StepRow :
              [step EXCEPT ![r][t] = row] \in [Runs -> [StepType -> StepRow]]
BY DEF StoreTypeOK

\* What the updates of a run row leave of it.
LEMMA RunRowFields ==
  ASSUME NEW a \in RunRow, NEW s \in RunState,
         NEW result \in AssuranceResult
  PROVE  LET started   == [a EXCEPT !.state = s, !.started = TRUE]
             over      == Over(a, s)
             judged    == [over EXCEPT !.result = result]
             cancelled == [over EXCEPT !.cancelRequested = TRUE]
         IN  /\ started \in RunRow
             /\ over \in RunRow /\ over.state = s
             /\ judged \in RunRow /\ judged.state = s
             /\ cancelled \in RunRow /\ cancelled.state = s
BY Zenon DEF RunRow, Over

\* What the updates of a step row leave of it.
LEMMA StepRowFields ==
  ASSUME NEW a \in StepRow, NEW s \in StepState, NEW error \in ErrorClass
  PROVE  LET done      == [Unowned(a) EXCEPT !.state = s]
             failed    == [Unowned(a) EXCEPT !.state = s, !.error = error]
             deferred  == [Unowned(a) EXCEPT !.state = s, !.waiting = TRUE]
             cancelled == [Unowned(a) EXCEPT !.state = s, !.epoch = a.epoch + 1,
                                             !.error = error]
         IN  /\ done \in StepRow /\ done.state = s /\ done.epoch = a.epoch
             /\ failed \in StepRow /\ failed.state = s /\ failed.epoch = a.epoch
             /\ deferred \in StepRow /\ deferred.state = s
             /\ deferred.epoch = a.epoch
             /\ cancelled \in StepRow /\ cancelled.state = s
             /\ cancelled.epoch = a.epoch + 1
<1>1. Nobody \in WorkerIds \cup {Nobody} /\ TRUE \in BOOLEAN /\ FALSE \in BOOLEAN
  OBVIOUS
<1>2. a.epoch + 1 \in Nat
  BY DEF StepRow
<1> QED
  BY <1>1, <1>2, Zenon DEF StepRow, Unowned

\* Logging keeps the log a set of events.
LEMMA LogType ==
  ASSUME StoreTypeOK, NEW r \in Runs, NEW new \in SUBSET EventRow, Log(r, new)
  PROVE  events' \in [Runs -> SUBSET EventRow]
BY DEF StoreTypeOK, Log

LEMMA EventIsRow ==
  ASSUME NEW type \in EventType, NEW t \in StepType, NEW n \in Nat
  PROVE  Event(type, t, n) \in EventRow
BY DEF Event, EventRow

\* An action that overwrites one step row, and perhaps its run row, and logs.
LEMMA StoreUpdateType ==
  ASSUME TypeInv, NEW r \in Runs, NEW t \in StepType,
         NEW row \in StepRow, NEW a \in RunRow, NEW new \in SUBSET EventRow,
         step' = [step EXCEPT ![r][t] = row],
         run' \in {run, [run EXCEPT ![r] = a]},
         Log(r, new),
         UNCHANGED <<observations, findings>>
  PROVE  StoreTypeOK'
<1>1. StoreTypeOK
  BY DEF TypeInv, TypeOK
<1>2. run' \in [Runs -> RunRow] /\ step' \in [Runs -> [StepType -> StepRow]]
  BY <1>1, RowUpdate, ZenonT(60) DEF StoreTypeOK
<1>3. events' \in [Runs -> SUBSET EventRow]
  BY <1>1, LogType
<1> QED
  BY <1>1, <1>2, <1>3 DEF StoreTypeOK

\* A worker that leaves runOnce forgets everything.
LEMMA ReleaseType ==
  ASSUME TypeInv, NEW w \in Workers, Release(w)
  PROVE  WorkersTypeOK' /\ MemoryOK'
BY DEF TypeInv, TypeOK, WorkersTypeOK, MemoryOK, Release, Busy, Points

\* A worker keeps its claim while it moves through the code of its step.
LEMMA ProceedType ==
  ASSUME TypeInv, NEW w \in Workers, Busy(w),
         NEW point \in Points, NEW items \in Seq(Observation),
         NEW outputs \in SUBSET Finding,
         point \in {"read", "conclude"} => claim[w].step = "evaluate",
         point \notin {"idle", "read", "conclude", "fail", "retry"} =>
           claim[w].step = "collect",
         point \in {"persistInventory", "persistTelemetry"} => items # << >>,
         Proceed(w, point, items, outputs)
  PROVE  WorkersTypeOK' /\ MemoryOK'
<1>1. WorkersTypeOK'
  BY DEF TypeInv, TypeOK, WorkersTypeOK, Proceed
<1>2. MemoryOK'
  BY DEF TypeInv, TypeOK, WorkersTypeOK, MemoryOK, Proceed, Busy
<1> QED
  BY <1>1, <1>2

\* The same, with nothing in memory but the claim.
LEMMA AdvanceType ==
  ASSUME TypeInv, NEW w \in Workers, Busy(w), NEW point \in Points,
         point \notin {"persistInventory", "persistTelemetry", "conclude", "read"},
         point \notin {"idle", "fail", "retry"} => claim[w].step = "collect",
         Advance(w, point)
  PROVE  WorkersTypeOK' /\ MemoryOK'
<1>1. << >> \in Seq(Observation) /\ {} \in SUBSET Finding
  OBVIOUS
<1> QED
  BY <1>1, ProceedType DEF Advance

\* Nothing a worker remembers depends on the store.
LEMMA SameWorkersType ==
  ASSUME TypeInv, UNCHANGED workers
  PROVE  WorkersTypeOK' /\ MemoryOK'
BY DEF TypeInv, TypeOK, WorkersTypeOK, MemoryOK, workers, Busy

LEMMA SameStoreType == TypeInv /\ UNCHANGED store => StoreTypeOK'
BY DEF TypeInv, TypeOK, StoreTypeOK, store

LEMMA SameClientsType == TypeInv /\ UNCHANGED clients => ClientsTypeOK'
BY DEF TypeInv, TypeOK, ClientsTypeOK, clients

\* An action that touches only the memory of one worker.
LEMMA MemoryStepType ==
  ASSUME TypeInv, UNCHANGED <<store, clients>>, WorkersTypeOK' /\ MemoryOK'
  PROVE  TypeInv'
<1>1. UNCHANGED store /\ UNCHANGED clients
  OBVIOUS
<1> QED
  BY <1>1, SameStoreType, SameClientsType DEF TypeInv, TypeOK

-----------------------------------------------------------------------------
(* Each action keeps the types *)

LEMMA LeaseType ==
  ASSUME TypeInv, NEW w \in Workers, NEW r \in Runs, NEW t \in StepType,
         Lease(w, r, t)
  PROVE  TypeInv'
<1> DEFINE epoch == step[r][t].epoch + 1
           row == [state |-> "leased", attempt |-> step[r][t].attempt + 1,
                   epoch |-> epoch, owner |-> WorkerId[w],
                   waiting |-> FALSE, lapsed |-> FALSE, error |-> "none"]
           a == [run[r] EXCEPT !.state = "collecting", !.started = TRUE]
           work == [run |-> r, step |-> t, epoch |-> epoch,
                    attempt |-> step[r][t].attempt + 1]
<1>1. step[r][t].attempt \in 0 .. MaxStepAttempts /\ step[r][t].epoch \in Nat
  BY DEF TypeInv, TypeOK, StoreTypeOK, StepRow
<1>2. row \in StepRow
  BY <1>1, AttemptsAssumption, WorkersAssumption
  DEF Lease, AttemptsLeft, StepRow, StepState, ErrorClass
<1>3. a \in RunRow
  <2>1. run[r] \in RunRow /\ "collecting" \in RunState /\ "PASS" \in AssuranceResult
    BY DEF TypeInv, TypeOK, StoreTypeOK, RunState, AssuranceResult
  <2> QED
    BY <2>1, RunRowFields
<1>4. PICK new \in SUBSET EventRow : Log(r, new)
  <2>1. \A type \in EventType : Event(type, t, epoch) \in EventRow
    BY <1>1, EventIsRow
  <2> QED
    BY <2>1 DEF Lease, LeaseOperation, EventType
<1>5. /\ step' = [step EXCEPT ![r][t] = row]
      /\ run' \in {run, [run EXCEPT ![r] = a]}
      /\ UNCHANGED <<observations, findings>>
      /\ UNCHANGED clients
  BY DEF Lease
<1>6. StoreTypeOK'
  <2> HIDE DEF row, a
  <2> QED
    BY <1>2, <1>3, <1>4, <1>5, StoreUpdateType
<1>7. work \in Claim
  BY <1>1 DEF Claim
<1>8. pc' = [pc EXCEPT ![w] = IF t = "collect" THEN "verify" ELSE "read"]
      /\ claim' = [claim EXCEPT ![w] = work]
      /\ batch' = batch /\ drawn' = drawn /\ opened' = opened
  BY DEF Lease
<1>9. WorkersTypeOK' /\ MemoryOK'
  BY <1>7, <1>8
  DEF TypeInv, TypeOK, WorkersTypeOK, MemoryOK, Busy, Points, StepType
<1> QED
  BY <1>5, <1>6, <1>9, SameClientsType DEF TypeInv, TypeOK

LEMMA ExhaustType ==
  ASSUME TypeInv, NEW w \in Workers, NEW r \in Runs, NEW t \in StepType,
         Exhaust(w, r, t)
  PROVE  TypeInv'
<1> DEFINE row == [Unowned(step[r][t]) EXCEPT !.state = "failed",
                                              !.error = "attempts_exhausted"]
           a == Over(run[r], "failed")
           new == {Event("step_failed", t, 0)}
<1>1. row \in StepRow /\ a \in RunRow /\ new \in SUBSET EventRow
  <2>1. /\ step[r][t] \in StepRow /\ "failed" \in StepState
        /\ "attempts_exhausted" \in ErrorClass
        /\ run[r] \in RunRow /\ "failed" \in RunState /\ "PASS" \in AssuranceResult
        /\ "step_failed" \in EventType /\ 0 \in Nat
    BY SMTT(60) DEF TypeInv, TypeOK, StoreTypeOK, StepState, ErrorClass, RunState,
           AssuranceResult, EventType
  <2>2. row \in StepRow
    BY <2>1, StepRowFields
  <2>3. a \in RunRow
    BY <2>1, RunRowFields
  <2> QED
    BY <2>1, <2>2, <2>3, EventIsRow
<1>2. /\ step' = [step EXCEPT ![r][t] = row]
      /\ run' \in {run, [run EXCEPT ![r] = a]}
      /\ Log(r, new)
      /\ UNCHANGED <<observations, findings>>
      /\ UNCHANGED workers /\ UNCHANGED clients
  BY DEF Exhaust, TypeInv, TypeOK, StoreTypeOK
<1>3. StoreTypeOK'
  <2> HIDE DEF row, a, new
  <2> QED
    BY <1>1, <1>2, StoreUpdateType
<1> QED
  BY <1>2, <1>3, SameWorkersType, SameClientsType DEF TypeInv, TypeOK

\* What a worker that holds the fence knows of its claim.
LEMMA FenceMeansClaim ==
  ASSUME TypeInv, NEW w \in Workers, FenceHolds(w)
  PROVE  /\ Busy(w)
         /\ claim[w] \in Claim
         /\ claim[w].run \in Runs
         /\ claim[w].step \in StepType
         /\ step[claim[w].run][claim[w].step].state = "leased"
         /\ run[claim[w].run].state = ExpectedRunState(claim[w].step)
BY DEF FenceHolds, HoldsLease, TypeInv, MemoryOK, Claim

LEMMA VerifyScopeType ==
  ASSUME TypeInv, NEW w \in Workers, VerifyScope(w)
  PROVE  TypeInv'
<1>1. claim[w].step = "collect" /\ Busy(w)
  BY DEF VerifyScope, TypeInv, MemoryOK, Busy
<1>2. \E point \in {"fail", "inventory"} : Advance(w, point)
  BY DEF VerifyScope
<1>3. UNCHANGED <<store, clients>>
  BY DEF VerifyScope
<1> QED
  BY <1>1, <1>2, <1>3, AdvanceType, MemoryStepType DEF Points

LEMMA CollectedType ==
  ASSUME TypeInv, NEW w \in Workers, Busy(w), claim[w].step = "collect",
         NEW items \in Seq(Observation),
         NEW point \in {"persistInventory", "persistTelemetry"},
         Collected(w, items, point), UNCHANGED <<store, clients>>
  PROVE  TypeInv'
<1>1. CASE items = << >>
  <2>1. Proceed(w, AfterPersist(point), items, {})
    BY <1>1 DEF Collected
  <2>2. AfterPersist(point) \in {"recheck", "complete"}
    BY DEF AfterPersist
  <2>3. WorkersTypeOK' /\ MemoryOK'
    BY <2>1, <2>2, ProceedType DEF Points
  <2> QED
    BY <2>3, MemoryStepType
<1>2. CASE items # << >>
  <2>1. Proceed(w, point, items, {})
    BY <1>2 DEF Collected
  <2>2. WorkersTypeOK' /\ MemoryOK'
    BY <2>1, <1>2, ProceedType DEF Points
  <2> QED
    BY <2>2, MemoryStepType
<1> QED
  BY <1>1, <1>2

LEMMA CollectInventoryType ==
  ASSUME TypeInv, NEW w \in Workers, CollectInventory(w)
  PROVE  TypeInv'
<1>1. Busy(w) /\ claim[w].step = "collect"
  BY DEF CollectInventory, TypeInv, MemoryOK, Busy
<1>2. PICK items \in InventoryBatches : Collected(w, items, "persistInventory")
  BY DEF CollectInventory
<1> QED
  BY <1>1, <1>2, RunsAssumption, CollectedType DEF CollectInventory

LEMMA CollectTelemetryType ==
  ASSUME TypeInv, NEW w \in Workers, CollectTelemetry(w)
  PROVE  TypeInv'
<1>1. Busy(w) /\ claim[w].step = "collect"
  BY DEF CollectTelemetry, TypeInv, MemoryOK, Busy
<1>2. PICK items \in TelemetryBatches : Collected(w, items, "persistTelemetry")
  BY DEF CollectTelemetry
<1> QED
  BY <1>1, <1>2, RunsAssumption, CollectedType DEF CollectTelemetry

LEMMA PersistObservationType ==
  ASSUME TypeInv, NEW w \in Workers, PersistObservation(w)
  PROVE  TypeInv'
<1> DEFINE r    == claim[w].run
           o    == Head(batch[w])
           rest == Tail(batch[w])
           next == IF rest = << >> THEN AfterPersist(pc[w]) ELSE pc[w]
           new  == {Event("observation_persisted", "collect",
                          Len(observations[r]) + 1)}
<1>1. /\ FenceHolds(w)
      /\ pc[w] \in {"persistInventory", "persistTelemetry"}
      /\ UNCHANGED <<run, step, findings>>
      /\ UNCHANGED clients
  BY DEF PersistObservation
<1>2. Busy(w) /\ r \in Runs /\ claim[w].step = "collect" /\ batch[w] # << >>
  BY <1>1, FenceMeansClaim DEF TypeInv, MemoryOK
<1>3. o \in Observation /\ rest \in Seq(Observation)
  BY <1>2 DEF TypeInv, TypeOK, WorkersTypeOK
<1>4. observations' \in [Runs -> Seq(Observation)]
      /\ events' \in [Runs -> SUBSET EventRow]
  <2>1. CASE Recorded(o, observations[r])
    BY <2>1 DEF PersistObservation, TypeInv, TypeOK, StoreTypeOK
  <2>2. CASE ~Recorded(o, observations[r])
    <3>1. observations' = [observations EXCEPT ![r] = Append(@, o)] /\ Log(r, new)
      BY <2>2 DEF PersistObservation
    <3>2. observations[r] \in Seq(Observation)
      BY <1>2 DEF TypeInv, TypeOK, StoreTypeOK
    <3>3. Append(observations[r], o) \in Seq(Observation)
          /\ Len(observations[r]) + 1 \in Nat
      BY <3>2, <1>3
    <3>4. new \in SUBSET EventRow
      BY <3>3, EventIsRow DEF EventType, StepType
    <3> QED
      BY <1>2, <3>1, <3>3, <3>4, LogType DEF TypeInv, TypeOK, StoreTypeOK
  <2> QED
    BY <2>1, <2>2
<1>5. StoreTypeOK'
  BY <1>1, <1>4 DEF TypeInv, TypeOK, StoreTypeOK
<1>6. WorkersTypeOK' /\ MemoryOK'
  <2>1. next \in Points
        /\ next \notin {"idle", "read", "conclude", "fail", "retry"}
        /\ (next \in {"persistInventory", "persistTelemetry"} => rest # << >>)
    BY <1>1 DEF AfterPersist, Points
  <2>2. CASE Proceed(w, next, rest, {})
    <3> HIDE DEF next, rest
    <3> QED
      BY <1>2, <1>3, <2>1, <2>2, ProceedType
  <2>3. CASE Advance(w, "retry")
    BY <1>2, <2>3, AdvanceType DEF Points
  <2> QED
    BY <2>2, <2>3 DEF PersistObservation
<1> QED
  BY <1>1, <1>5, <1>6, SameClientsType DEF TypeInv, TypeOK

LEMMA EnsureStillLeasedType ==
  ASSUME TypeInv, NEW w \in Workers, EnsureStillLeased(w)
  PROVE  TypeInv'
<1>1. /\ Busy(w) /\ claim[w].step = "collect"
      /\ Advance(w, "telemetry")
      /\ UNCHANGED <<store, clients>>
  BY DEF EnsureStillLeased, TypeInv, MemoryOK, Busy
<1> QED
  BY <1>1, AdvanceType, MemoryStepType DEF Points

\* Leaving the handler, or taking its retry path.
LEMMA LeaveType ==
  ASSUME TypeInv, NEW w \in Workers, Busy(w), Release(w) \/ Advance(w, "retry")
  PROVE  WorkersTypeOK' /\ MemoryOK'
BY ReleaseType, AdvanceType DEF Points

LEMMA CompleteCollectType ==
  ASSUME TypeInv, NEW w \in Workers, CompleteCollect(w)
  PROVE  TypeInv'
<1> DEFINE r   == claim[w].run
           c   == [Unowned(step[r]["collect"]) EXCEPT !.state = "succeeded"]
           e   == [step[r]["evaluate"] EXCEPT !.state = "ready"]
           a   == [run[r] EXCEPT !.state = "evaluating"]
           new == {Event("step_succeeded", "collect", 0)}
<1>1. Busy(w) /\ r \in Runs
  BY FenceMeansClaim DEF CompleteCollect
<1>2. /\ step[r]["collect"] \in StepRow /\ step[r]["evaluate"] \in StepRow
      /\ "succeeded" \in StepState /\ "ready" \in StepState /\ "none" \in ErrorClass
      /\ run[r] \in RunRow /\ "evaluating" \in RunState
      /\ "step_succeeded" \in EventType /\ "collect" \in StepType /\ 0 \in Nat
  BY <1>1, SMTT(60) DEF TypeInv, TypeOK, StoreTypeOK, StepState, ErrorClass, RunState,
              EventType, StepType
<1>3. c \in StepRow
  BY <1>2, StepRowFields
<1>4. e \in StepRow
  BY <1>2, Zenon DEF StepRow
<1>5. a \in RunRow
  BY <1>2, Zenon DEF RunRow
<1>6. new \in SUBSET EventRow
  BY <1>2, EventIsRow
<1>7. /\ step' = [step EXCEPT ![r]["collect"] = c, ![r]["evaluate"] = e]
      /\ run' = [run EXCEPT ![r] = a]
      /\ Log(r, new)
      /\ UNCHANGED <<observations, findings>>
      /\ UNCHANGED clients
      /\ Release(w) \/ Advance(w, "retry")
  BY <1>1 DEF CompleteCollect, TypeInv, TypeOK, StoreTypeOK, StepType
<1>8. StoreTypeOK'
  <2> HIDE DEF c, e, a, new
  <2>1. step' \in [Runs -> [StepType -> StepRow]] /\ run' \in [Runs -> RunRow]
    BY <1>1, <1>3, <1>4, <1>5, <1>7 DEF TypeInv, TypeOK, StoreTypeOK, StepType
  <2> QED
    BY <1>1, <1>6, <1>7, <2>1, LogType DEF TypeInv, TypeOK, StoreTypeOK
<1> QED
  BY <1>1, <1>7, <1>8, LeaveType, SameClientsType DEF TypeInv, TypeOK

LEMMA PortOutOfScopeType ==
  ASSUME TypeInv, NEW w \in Workers, PortOutOfScope(w)
  PROVE  TypeInv'
<1>1. Busy(w) /\ Advance(w, "fail") /\ UNCHANGED <<store, clients>>
  BY DEF PortOutOfScope, Busy
<1> QED
  BY <1>1, AdvanceType, MemoryStepType DEF Points

LEMMA ReadAndEvaluateType ==
  ASSUME TypeInv, NEW w \in Workers, ReadAndEvaluate(w)
  PROVE  TypeInv'
<1> DEFINE evidence == EvidenceRead(w)
<1>1. /\ Busy(w) /\ claim[w].step = "evaluate" /\ claim[w].run \in Runs
      /\ UNCHANGED <<store, clients>>
  BY DEF ReadAndEvaluate, TypeInv, MemoryOK, Busy, Claim
<1>2. Verdict(evidence) \in SUBSET Finding
  BY <1>1, VerdictType DEF TypeInv, TypeOK, StoreTypeOK, EvidenceRead
<1>3. CASE Proceed(w, "conclude", << >>, Verdict(evidence))
  <2>1. << >> \in Seq(Observation)
    OBVIOUS
  <2>2. WorkersTypeOK' /\ MemoryOK'
    <3> HIDE DEF evidence
    <3> QED
      BY <1>1, <1>2, <1>3, <2>1, ProceedType DEF Points
  <2> QED
    BY <1>1, <2>2, MemoryStepType
<1>4. CASE \E point \in {"fail", "retry"} : Advance(w, point)
  BY <1>1, <1>4, AdvanceType, MemoryStepType DEF Points
<1> QED
  BY <1>3, <1>4 DEF ReadAndEvaluate

LEMMA ConcludeType ==
  ASSUME TypeInv, NEW w \in Workers, Conclude(w)
  PROVE  TypeInv'
<1> DEFINE r       == claim[w].run
           results == Results(drawn[w])
           state   == TerminalStateForResults(results)
           result  == SummariseResults(results)
           row == [Unowned(step[r]["evaluate"]) EXCEPT !.state = "succeeded"]
           a   == [Over(run[r], state) EXCEPT !.result = result]
           new == {Event("step_succeeded", "evaluate", 0)}
<1>1. Busy(w) /\ r \in Runs
  BY FenceMeansClaim DEF Conclude
<1>2. /\ step[r]["evaluate"] \in StepRow
      /\ "succeeded" \in StepState /\ "none" \in ErrorClass
      /\ run[r] \in RunRow
      /\ "step_succeeded" \in EventType /\ "evaluate" \in StepType /\ 0 \in Nat
  BY <1>1, SMTT(60) DEF TypeInv, TypeOK, StoreTypeOK, StepState, ErrorClass, EventType, StepType
<1>3. row \in StepRow
  BY <1>2, StepRowFields
<1>4. a \in RunRow
  <2>1. state \in RunState /\ result \in AssuranceResult
    BY OutcomeType DEF RunState
  <2> HIDE DEF state, result
  <2> QED
    BY <1>2, <2>1, RunRowFields
<1>5. new \in SUBSET EventRow
  BY <1>2, EventIsRow
<1>6. findings' \in [Runs -> SUBSET Finding]
  BY <1>1 DEF Conclude, TypeInv, TypeOK, StoreTypeOK, WorkersTypeOK
<1>7. /\ step' = [step EXCEPT ![r]["evaluate"] = row]
      /\ run' = [run EXCEPT ![r] = a]
      /\ Log(r, new)
      /\ UNCHANGED observations
      /\ UNCHANGED clients
      /\ Release(w) \/ Advance(w, "retry")
  BY <1>1 DEF Conclude, TypeInv, TypeOK, StoreTypeOK
<1>8. StoreTypeOK'
  <2> HIDE DEF row, a, new
  <2>1. step' \in [Runs -> [StepType -> StepRow]] /\ run' \in [Runs -> RunRow]
    BY <1>1, <1>2, <1>3, <1>4, <1>7, RowUpdate DEF TypeInv, TypeOK
  <2> QED
    BY <1>1, <1>5, <1>6, <1>7, <2>1, LogType DEF TypeInv, TypeOK, StoreTypeOK
<1> QED
  BY <1>1, <1>7, <1>8, LeaveType, SameClientsType DEF TypeInv, TypeOK

LEMMA FailStepType ==
  ASSUME TypeInv, NEW w \in Workers, NEW error \in ErrorClass, FailStep(w, error)
  PROVE  TypeInv'
<1> DEFINE r   == claim[w].run
           t   == claim[w].step
           row == [Unowned(step[r][t]) EXCEPT !.state = "failed", !.error = error]
           a   == Over(run[r], "failed")
           new == {Event("step_failed", t, 0)}
<1>1. Busy(w) /\ r \in Runs /\ t \in StepType
  BY FenceMeansClaim DEF FailStep
<1>2. /\ step[r][t] \in StepRow /\ "failed" \in StepState
      /\ run[r] \in RunRow /\ "failed" \in RunState /\ "PASS" \in AssuranceResult
      /\ "step_failed" \in EventType /\ 0 \in Nat
  BY <1>1, SMTT(60) DEF TypeInv, TypeOK, StoreTypeOK, StepState, RunState,
              AssuranceResult, EventType
<1>3. row \in StepRow
  BY <1>2, StepRowFields
<1>4. a \in RunRow
  BY <1>2, RunRowFields
<1>5. new \in SUBSET EventRow
  BY <1>1, <1>2, EventIsRow
<1>6. /\ step' = [step EXCEPT ![r][t] = row]
      /\ run' \in {run, [run EXCEPT ![r] = a]}
      /\ Log(r, new)
      /\ UNCHANGED <<observations, findings>>
      /\ UNCHANGED clients
      /\ Release(w)
  BY <1>1 DEF FailStep, TypeInv, TypeOK, StoreTypeOK
<1>7. StoreTypeOK'
  <2> HIDE DEF row, a, new, r, t
  <2> QED
    BY <1>1, <1>3, <1>4, <1>5, <1>6, StoreUpdateType
<1> QED
  BY <1>6, <1>7, ReleaseType, SameClientsType DEF TypeInv, TypeOK

LEMMA ScheduleRetryType ==
  ASSUME TypeInv, NEW w \in Workers, ScheduleRetry(w)
  PROVE  TypeInv'
<1> DEFINE r   == claim[w].run
           t   == claim[w].step
           row == [Unowned(step[r][t]) EXCEPT !.state = "ready", !.waiting = TRUE]
           new == {Event("step_retry_scheduled", t, RetryOperation(w))}
<1>1. Busy(w) /\ r \in Runs /\ t \in StepType /\ claim[w] \in Claim
  BY FenceMeansClaim DEF ScheduleRetry
<1>2. /\ step[r][t] \in StepRow /\ "ready" \in StepState /\ "none" \in ErrorClass
      /\ run[r] \in RunRow
      /\ "step_retry_scheduled" \in EventType /\ RetryOperation(w) \in Nat
  BY <1>1, SMTT(60) DEF TypeInv, TypeOK, StoreTypeOK, StepState, ErrorClass, EventType,
              Claim, RetryOperation
<1>3. row \in StepRow
  BY <1>2, StepRowFields
<1>4. new \in SUBSET EventRow
  BY <1>1, <1>2, EventIsRow
<1>5. /\ step' = [step EXCEPT ![r][t] = row]
      /\ run' \in {run, [run EXCEPT ![r] = run[r]]}
      /\ Log(r, new)
      /\ UNCHANGED <<observations, findings>>
      /\ UNCHANGED clients
      /\ Release(w)
  BY <1>1 DEF ScheduleRetry, TypeInv, TypeOK, StoreTypeOK
<1>6. StoreTypeOK'
  <2> HIDE DEF row, new, r, t
  <2> QED
    BY <1>1, <1>2, <1>3, <1>4, <1>5, StoreUpdateType
<1> QED
  BY <1>5, <1>6, ReleaseType, SameClientsType DEF TypeInv, TypeOK

\* Losing the fence and crashing forget; a fault takes the retry path.
LEMMA LeavingType ==
  ASSUME TypeInv, NEW w \in Workers, LoseFence(w) \/ Fault(w) \/ Crash(w)
  PROVE  TypeInv'
<1>1. CASE Release(w) /\ UNCHANGED <<store, clients>>
  BY <1>1, ReleaseType, MemoryStepType
<1>2. CASE Fault(w)
  BY <1>2, AdvanceType, MemoryStepType DEF Fault, Points
<1> QED
  BY <1>1, <1>2 DEF LoseFence, Crash

\* Flags of a step row that time changes.
LEMMA StepFlagFields ==
  ASSUME NEW a \in StepRow, NEW b \in BOOLEAN
  PROVE  LET lapse == [a EXCEPT !.lapsed = b]
             wait  == [a EXCEPT !.waiting = b]
         IN  /\ lapse \in StepRow /\ lapse.state = a.state /\ lapse.epoch = a.epoch
             /\ wait \in StepRow /\ wait.state = a.state /\ wait.epoch = a.epoch
BY Zenon DEF StepRow

\* A step row is overwritten and nothing else in the store.
LEMMA FlagStepType ==
  ASSUME TypeInv, NEW r \in Runs, NEW t \in StepType, NEW row \in StepRow,
         step' = [step EXCEPT ![r][t] = row],
         UNCHANGED <<run, observations, findings, events>>,
         UNCHANGED <<pc, claim, batch, drawn, clients>>,
         opened' \in [Workers -> SUBSET {"fence", "heartbeat"}]
  PROVE  TypeInv'
<1>1. StoreTypeOK'
  BY RowUpdate DEF TypeInv, TypeOK, StoreTypeOK
<1>2. WorkersTypeOK' /\ MemoryOK'
  BY DEF TypeInv, TypeOK, WorkersTypeOK, MemoryOK, Busy
<1> QED
  BY <1>1, <1>2, SameClientsType DEF TypeInv, TypeOK

LEMMA LeaseLapsesType ==
  ASSUME TypeInv, NEW r \in Runs, NEW t \in StepType, LeaseLapses(r, t)
  PROVE  TypeInv'
<1> DEFINE row == [step[r][t] EXCEPT !.lapsed = TRUE]
<1>1. row \in StepRow
  <2>1. step[r][t] \in StepRow
    BY DEF TypeInv, TypeOK, StoreTypeOK
  <2> QED
    BY <2>1, StepFlagFields
<1>2. step' = [step EXCEPT ![r][t] = row]
      /\ UNCHANGED <<run, observations, findings, events>>
      /\ UNCHANGED <<pc, claim, batch, drawn, clients>>
  BY DEF LeaseLapses, TypeInv, TypeOK, StoreTypeOK
<1>3. opened' \in [Workers -> SUBSET {"fence", "heartbeat"}]
  BY DEF LeaseLapses, TypeInv, TypeOK, WorkersTypeOK
<1> HIDE DEF row
<1> QED
  BY <1>1, <1>2, <1>3, FlagStepType

LEMMA LateHeartbeatType ==
  ASSUME TypeInv, NEW w \in Workers, NEW r \in Runs, NEW t \in StepType,
         LateHeartbeat(w, r, t)
  PROVE  TypeInv'
<1> DEFINE row == [step[r][t] EXCEPT !.lapsed = FALSE]
<1>1. row \in StepRow
  <2>1. step[r][t] \in StepRow
    BY DEF TypeInv, TypeOK, StoreTypeOK
  <2> QED
    BY <2>1, StepFlagFields
<1>2. step' = [step EXCEPT ![r][t] = row]
      /\ UNCHANGED <<run, observations, findings, events>>
      /\ UNCHANGED <<pc, claim, batch, drawn, clients>>
  BY DEF LateHeartbeat, TypeInv, TypeOK, StoreTypeOK
<1>3. opened' \in [Workers -> SUBSET {"fence", "heartbeat"}]
  BY DEF LateHeartbeat, TypeInv, TypeOK, WorkersTypeOK
<1> HIDE DEF row
<1> QED
  BY <1>1, <1>2, <1>3, FlagStepType

LEMMA BackoffElapsesType ==
  ASSUME TypeInv, NEW r \in Runs, NEW t \in StepType, BackoffElapses(r, t)
  PROVE  TypeInv'
<1> DEFINE row == [step[r][t] EXCEPT !.waiting = FALSE]
<1>1. row \in StepRow
  <2>1. step[r][t] \in StepRow
    BY DEF TypeInv, TypeOK, StoreTypeOK
  <2> QED
    BY <2>1, StepFlagFields
<1>2. step' = [step EXCEPT ![r][t] = row]
      /\ UNCHANGED <<run, observations, findings, events>>
      /\ UNCHANGED <<pc, claim, batch, drawn, clients>>
      /\ opened' = opened
  BY DEF BackoffElapses, TypeInv, TypeOK, StoreTypeOK, workers
<1>3. opened' \in [Workers -> SUBSET {"fence", "heartbeat"}]
  BY <1>2 DEF TypeInv, TypeOK, WorkersTypeOK
<1> HIDE DEF row
<1> QED
  BY <1>1, <1>2, <1>3, FlagStepType

\* Where a request goes is a place a request can be at.
LEMMA SettleType ==
  ASSUME TypeInv, NEW c \in Clients,
         NEW at \in {"answered", "unavailable", "unsure", "conflicted", "refused"},
         Settle(c, at), receipts' \in {receipts, receipts \cup {c}}
  PROVE  ClientsTypeOK'
<1> DEFINE row == [at  |-> at,
                   saw |-> IF at \in Unanswered THEN "queued"
                                                ELSE cancel[c].saw]
<1>1. cancel[c] \in CancelRow
  BY DEF TypeInv, TypeOK, ClientsTypeOK
<1>2. row \in CancelRow
  BY <1>1 DEF CancelRow, RunState
<1>3. cancel' = [cancel EXCEPT ![c] = row]
  BY DEF Settle, TypeInv, TypeOK, ClientsTypeOK
<1> HIDE DEF row
<1> QED
  BY <1>2, <1>3 DEF TypeInv, TypeOK, ClientsTypeOK

\* A client's step leaves the workers alone.
LEMMA SubmitCancelType ==
  ASSUME TypeInv, NEW c \in Clients, SubmitCancel(c)
  PROVE  TypeInv'
<1>1. ClientsTypeOK'
  BY RunsAssumption
  DEF SubmitCancel, TypeInv, TypeOK, StoreTypeOK, ClientsTypeOK, RunRow, CancelRow
<1>2. UNCHANGED store /\ UNCHANGED workers
  BY DEF SubmitCancel
<1> QED
  BY <1>1, <1>2, SameStoreType, SameWorkersType DEF TypeInv, TypeOK

LEMMA RecordCancelRequestedType ==
  ASSUME TypeInv, NEW c \in Clients, RecordCancelRequested(c)
  PROVE  TypeInv'
<1> DEFINE r == Target[c]
           a == [run[r] EXCEPT !.cancelRequested = TRUE]
           new == {Event("cancel_requested", "collect", 0)}
<1>1. r \in Runs /\ run[r] \in RunRow
  BY RunsAssumption DEF TypeInv, TypeOK, StoreTypeOK
<1>2. a \in RunRow
  BY <1>1 DEF RunRow
<1>3. new \in SUBSET EventRow
  BY EventIsRow DEF EventType, StepType
<1>4. run' = [run EXCEPT ![r] = a] /\ Log(r, new)
      /\ UNCHANGED <<step, observations, findings>> /\ UNCHANGED workers
      /\ receipts' = receipts \cup {c}
  BY DEF RecordCancelRequested, TypeInv, TypeOK, StoreTypeOK
<1>5. ClientsTypeOK'
  BY <1>4, SettleType DEF RecordCancelRequested
<1>6. StoreTypeOK'
  <2> HIDE DEF a, new
  <2> QED
    BY <1>1, <1>2, <1>3, <1>4, RowUpdate, LogType DEF TypeInv, TypeOK, StoreTypeOK
<1> QED
  BY <1>4, <1>5, <1>6, SameWorkersType DEF TypeInv, TypeOK

LEMMA CancelCollectType ==
  ASSUME TypeInv, NEW c \in Clients, CancelCollect(c)
  PROVE  TypeInv'
<1> DEFINE r == Target[c]
           a == [Over(run[r], "cancelled") EXCEPT !.cancelRequested = TRUE]
           row == [Unowned(step[r]["collect"]) EXCEPT !.state = "cancelled",
                         !.epoch = step[r]["collect"].epoch + 1,
                                                      !.error = "cancelled"]
<1>1. /\ r \in Runs /\ run[r] \in RunRow
      /\ "cancelled" \in RunState /\ "PASS" \in AssuranceResult
      /\ step[r]["collect"] \in StepRow
      /\ "cancelled" \in StepState /\ "cancelled" \in ErrorClass
      /\ "collect" \in StepType
  BY RunsAssumption DEF TypeInv, TypeOK, StoreTypeOK, RunState, AssuranceResult,
                        StepState, ErrorClass, StepType
<1>2. a \in RunRow
  BY <1>1, RunRowFields, ZenonT(60)
<1>3. row \in StepRow
  BY <1>1, StepRowFields
<1>4. CancelEvents \in SUBSET EventRow
  BY EventIsRow DEF CancelEvents, EventType, StepType
<1>5. /\ run' \in {run, [run EXCEPT ![r] = a]}
      /\ step' \in {step, [step EXCEPT ![r]["collect"] = row]}
      /\ Log(r, CancelEvents)
      /\ receipts' = receipts \cup {c}
      /\ UNCHANGED <<observations, findings>> /\ UNCHANGED workers
  BY <1>1 DEF CancelCollect, TypeInv, TypeOK, StoreTypeOK
<1>6. ClientsTypeOK'
  BY <1>5, SettleType DEF CancelCollect
<1>7. StoreTypeOK'
  <2> HIDE DEF a, row
  <2> HIDE DEF r
  <2>1. step' \in [Runs -> [StepType -> StepRow]]
    <3>1. step \in [Runs -> [StepType -> StepRow]]
      BY DEF TypeInv, TypeOK, StoreTypeOK
    <3>2. [step EXCEPT ![r]["collect"] = row] \in [Runs -> [StepType -> StepRow]]
      BY <1>1, <1>3, RowUpdate DEF TypeInv, TypeOK
    <3> QED
      BY <1>5, <3>1, <3>2
  <2>2. run' \in [Runs -> RunRow]
    BY <1>1, <1>2, <1>5, RowUpdate DEF TypeInv, TypeOK, StoreTypeOK
  <2> QED
    BY <1>1, <1>4, <1>5, <2>1, <2>2, LogType DEF TypeInv, TypeOK, StoreTypeOK
<1> QED
  BY <1>5, <1>6, <1>7, SameWorkersType DEF TypeInv, TypeOK

LEMMA CancelRestType ==
  ASSUME TypeInv, NEW c \in Clients,
         CancelConflict(c) \/ RereadAfterError(c) \/ CancelFault(c)
  PROVE  TypeInv'
<1>1. UNCHANGED store /\ UNCHANGED workers
  BY DEF CancelConflict, RereadAfterError, CancelFault
<1>2. ClientsTypeOK'
  BY SettleType DEF CancelConflict, RereadAfterError, CancelFault
<1> QED
  BY <1>1, <1>2, SameStoreType, SameWorkersType DEF TypeInv, TypeOK

-----------------------------------------------------------------------------
(* Type correctness *)

LEMMA NextType == TypeInv /\ [Next]_vars => TypeInv'
<1> SUFFICES ASSUME TypeInv, [Next]_vars
             PROVE  TypeInv'
  OBVIOUS
<1>1. ASSUME NEW w \in Workers, Poll(w) PROVE TypeInv'
  BY <1>1, LeaseType, ExhaustType DEF Poll
<1>2. ASSUME NEW w \in Workers, WorkerStep(w) PROVE TypeInv'
  <2>1. "invariant_violation" \in ErrorClass /\ "attempts_exhausted" \in ErrorClass
    BY DEF ErrorClass
  <2>2. CASE FailClaimedStep(w) \/ GiveUp(w)
    BY <2>1, <2>2, FailStepType DEF FailClaimedStep, GiveUp
  <2>3. CASE LoseFence(w)
    BY <2>3, LeavingType
  <2> QED
    BY <1>2, <2>2, <2>3, VerifyScopeType, CollectInventoryType,
       CollectTelemetryType, PersistObservationType, EnsureStillLeasedType,
       CompleteCollectType, ReadAndEvaluateType, ConcludeType, ScheduleRetryType
    DEF WorkerStep
<1>3. ASSUME NEW w \in Workers, PortOutOfScope(w) \/ Fault(w) \/ Crash(w)
      PROVE  TypeInv'
  BY <1>3, PortOutOfScopeType, LeavingType
<1>4. ASSUME NEW r \in Runs, NEW t \in StepType,
             LeaseLapses(r, t) \/ BackoffElapses(r, t)
               \/ \E w \in Workers : LateHeartbeat(w, r, t)
      PROVE  TypeInv'
  BY <1>4, LeaseLapsesType, BackoffElapsesType, LateHeartbeatType
<1>5. ASSUME NEW c \in Clients, ClientStep(c) PROVE TypeInv'
  BY <1>5, SubmitCancelType, RecordCancelRequestedType, CancelCollectType,
     CancelRestType DEF ClientStep
<1>6. CASE UNCHANGED vars
  <2>1. UNCHANGED store /\ UNCHANGED workers /\ UNCHANGED clients
    BY <1>6 DEF vars
  <2> QED
    BY <2>1, SameStoreType, SameWorkersType, SameClientsType DEF TypeInv, TypeOK
<1> QED
  BY <1>1, <1>2, <1>3, <1>4, <1>5, <1>6 DEF Next

\* Every variable keeps its type and every worker remembers the claim that its
\* place in the code needs; in particular no step row ever counts more than
\* MAX_STEP_ATTEMPTS attempts, the CHECK of run_steps.
THEOREM TypeInvariant == Spec => []TypeInv
BY InitType, NextType, PTL DEF Spec

\* What the runs check of it.
THEOREM TypeCorrect == Spec => []TypeOK
BY TypeInvariant, PTL DEF TypeInv

-----------------------------------------------------------------------------
(* Every step seen from one run: what it does to the row of the run, to its *)
(* two step rows, to its evidence and to its log, whoever takes it.  The    *)
(* flags of time are left out.  An invariant of the store is preserved by   *)
(* every step if the moves below preserve it.                               *)

SameStep(s, s2) ==
  s2.state = s.state /\ s2.attempt = s.attempt /\ s2.epoch = s.epoch
    /\ s2.owner = s.owner

\* The lease is given up and the step is in another state.
GivenUp(s, s2, state) ==
  s2.state = state /\ s2.attempt = s.attempt /\ s2.epoch = s.epoch
    /\ s2.owner = Nobody

\* The run is in another state, and in which one is all that changed.
InState(a, a2, state) ==
  a2.state = state /\ a2.started = a.started /\ a2.ended = a.ended
    /\ a2.result = a.result /\ a2.cancelRequested = a.cancelRequested

\* The run is over.
EndsIn(a, a2, state) ==
  a2.state = state /\ a2.started = a.started /\ a2.ended = TRUE

\* A cancel request is put on the record of the run, and nothing else.
Marked(a, a2) ==
  a2.state = a.state /\ a2.started = a.started /\ a2.ended = a.ended
    /\ a2.result = a.result /\ a2.cancelRequested = TRUE

SameSteps(r) == \A t \in StepType : SameStep(step[r][t], step'[r][t])
OtherStepSame(r, t) ==
  \A u \in StepType \ {t} : SameStep(step[r][u], step'[r][u])
SameEvidence(r) ==
  findings'[r] = findings[r] /\ observations'[r] = observations[r]

\* What a move adds to the log of its run.
Logs(r, new) == events'[r] = events[r] \cup new

\* A cancel request that finds the run cancelled logs the cancellation again.
LogsNothingNew(r) ==
  events'[r] = events[r] \/ (CancelStands(r) /\ Logs(r, CancelEvents))

Kept(r) ==
  run'[r] = run[r] /\ SameSteps(r) /\ SameEvidence(r) /\ LogsNothingNew(r)

\* The events of a lease.
LeaseEvents(r, t) ==
  LET epoch == step[r][t].epoch + 1
      type  == IF step[r][t].state = "leased" THEN "step_recovered"
                                              ELSE "step_leased"
  IN  {Event(type, t, epoch)} \cup
        IF IsFirstClaim(r, t) THEN {Event("run_state_changed", t, epoch)} ELSE {}

Leased(r) ==
  /\ \E w \in Workers, t \in StepType :
       /\ Claimable(r, t) /\ AttemptsLeft(r, t)
       /\ Logs(r, LeaseEvents(r, t))
       /\ step'[r][t].state = "leased"
       /\ step'[r][t].attempt = step[r][t].attempt + 1
       /\ step'[r][t].epoch = step[r][t].epoch + 1
       /\ step'[r][t].owner = WorkerId[w]
       /\ OtherStepSame(r, t)
       /\ \/ /\ IsFirstClaim(r, t)
             /\ run'[r].state = "collecting" /\ run'[r].started = TRUE
             /\ run'[r].ended = run[r].ended /\ run'[r].result = run[r].result
             /\ run'[r].cancelRequested = run[r].cancelRequested
          \/ ~IsFirstClaim(r, t) /\ run'[r] = run[r]
  /\ SameEvidence(r)

Observed(r) ==
  /\ run[r].state = "collecting"
  /\ run'[r] = run[r] /\ SameSteps(r)
  /\ findings'[r] = findings[r]
  /\ \E o \in Observation :
       /\ ~Recorded(o, observations[r])
       /\ observations'[r] = Append(observations[r], o)
  /\ Logs(r, {Event("observation_persisted", "collect",
                    Len(observations[r]) + 1)})

Completed(r) ==
  /\ run[r].state = "collecting"
  /\ step[r]["collect"].state = "leased"
  /\ step[r]["evaluate"].state = "blocked"
  /\ GivenUp(step[r]["collect"], step'[r]["collect"], "succeeded")
  /\ step'[r]["evaluate"].state = "ready"
  /\ step'[r]["evaluate"].attempt = step[r]["evaluate"].attempt
  /\ step'[r]["evaluate"].epoch = step[r]["evaluate"].epoch
  /\ step'[r]["evaluate"].owner = step[r]["evaluate"].owner
  /\ InState(run[r], run'[r], "evaluating")
  /\ SameEvidence(r)
  /\ Logs(r, {Event("step_succeeded", "collect", 0)})

Concluded(r) ==
  \E w \in Workers :
    LET results == Results(drawn[w])
    IN  /\ pc[w] = "conclude" /\ FenceHolds(w) /\ claim[w].run = r
        /\ run[r].state = "evaluating"
        /\ step[r]["evaluate"].state = "leased"
        /\ GivenUp(step[r]["evaluate"], step'[r]["evaluate"], "succeeded")
        /\ OtherStepSame(r, "evaluate")
        /\ EndsIn(run[r], run'[r], TerminalStateForResults(results))
        /\ run'[r].result = SummariseResults(results)
        /\ run'[r].cancelRequested = run[r].cancelRequested
        /\ findings'[r] = findings[r] \cup drawn[w]
        /\ observations'[r] = observations[r]
        /\ Logs(r, {Event("step_succeeded", "evaluate", 0)})

Failed(r) ==
  /\ \E t \in StepType :
       /\ \/ step[r][t].state = "leased" /\ run[r].state = ExpectedRunState(t)
          \/ Claimable(r, t) /\ ~AttemptsLeft(r, t)
       /\ GivenUp(step[r][t], step'[r][t], "failed")
       /\ OtherStepSame(r, t)
       /\ Logs(r, {Event("step_failed", t, 0)})
  /\ EndsIn(run[r], run'[r], "failed")
  /\ run'[r].result = run[r].result
  /\ run'[r].cancelRequested = run[r].cancelRequested
  /\ SameEvidence(r)

Retried(r) ==
  /\ \E w \in Workers, t \in StepType :
       /\ step[r][t].state = "leased" /\ run[r].state = ExpectedRunState(t)
       /\ HoldsLease(w, r, t) /\ claim[w].attempt < MaxStepAttempts
       /\ GivenUp(step[r][t], step'[r][t], "ready")
       /\ OtherStepSame(r, t)
       /\ Logs(r, {Event("step_retry_scheduled", t, step[r][t].epoch)})
  /\ run'[r] = run[r]
  /\ SameEvidence(r)

CancelRequested(r) ==
  /\ \E c \in Clients :
       Target[c] = r /\ cancel[c].at = "decided" /\ ~SawCancellable(c)
  /\ Marked(run[r], run'[r])
  /\ SameSteps(r) /\ SameEvidence(r)
  /\ Logs(r, {Event("cancel_requested", "collect", 0)})

Cancelled(r) ==
  /\ Cancellable(r)
  /\ EndsIn(run[r], run'[r], "cancelled")
  /\ run'[r].result = run[r].result /\ run'[r].cancelRequested = TRUE
  /\ \/ /\ CollectCanStop(r)
        /\ step'[r]["collect"].state = "cancelled"
        /\ step'[r]["collect"].attempt = step[r]["collect"].attempt
        /\ step'[r]["collect"].epoch = step[r]["collect"].epoch + 1
        /\ step'[r]["collect"].owner = Nobody
     \/ ~CollectCanStop(r) /\ SameStep(step[r]["collect"], step'[r]["collect"])
  /\ OtherStepSame(r, "collect")
  /\ SameEvidence(r)
  /\ Logs(r, CancelEvents)

Moved(r) ==
  \/ Leased(r) \/ Observed(r) \/ Completed(r) \/ Concluded(r) \/ Failed(r)
  \/ Retried(r) \/ CancelRequested(r) \/ Cancelled(r)

\* At most one run moves in a step.
Moves ==
  \/ \A r \in Runs : Kept(r)
  \/ \E r \in Runs : Moved(r) /\ \A q \in Runs \ {r} : Kept(q)

-----------------------------------------------------------------------------
(* What the updates of the rows leave in their fields *)

LEMMA RunRowUpdates ==
  ASSUME NEW a \in RunRow, NEW s \in RunState
  PROVE  LET started   == [a EXCEPT !.state = s, !.started = TRUE]
             moved     == [a EXCEPT !.state = s]
             requested == [a EXCEPT !.cancelRequested = TRUE]
         IN  /\ started.state = s /\ started.started = TRUE
             /\ started.ended = a.ended /\ started.result = a.result
             /\ started.cancelRequested = a.cancelRequested
             /\ InState(a, moved, s)
             /\ Marked(a, requested)
BY Zenon DEF RunRow, InState, Marked

LEMMA RunRowEnds ==
  ASSUME NEW a \in RunRow, NEW s \in RunState, NEW result \in AssuranceResult
  PROVE  LET over      == Over(a, s)
             judged    == [Over(a, s) EXCEPT !.result = result]
             cancelled == [Over(a, s) EXCEPT !.cancelRequested = TRUE]
         IN  /\ EndsIn(a, over, s) /\ over.result = a.result
             /\ over.cancelRequested = a.cancelRequested
             /\ EndsIn(a, judged, s) /\ judged.result = result
             /\ judged.cancelRequested = a.cancelRequested
             /\ EndsIn(a, cancelled, s) /\ cancelled.result = a.result
             /\ cancelled.cancelRequested = TRUE
BY Zenon DEF RunRow, Over, EndsIn

LEMMA StepRowGivenUp ==
  ASSUME NEW a \in StepRow, NEW s \in StepState, NEW error \in ErrorClass
  PROVE  /\ GivenUp(a, [Unowned(a) EXCEPT !.state = s], s)
         /\ GivenUp(a, [Unowned(a) EXCEPT !.state = s, !.error = error], s)
         /\ GivenUp(a, [Unowned(a) EXCEPT !.state = s, !.waiting = TRUE], s)
BY Zenon DEF StepRow, Unowned, GivenUp

LEMMA StepRowCancelled ==
  ASSUME NEW a \in StepRow
  PROVE  LET cancelled == [Unowned(a) EXCEPT !.state = "cancelled",
                                             !.epoch = a.epoch + 1,
                                             !.error = "cancelled"]
         IN  /\ cancelled.state = "cancelled" /\ cancelled.attempt = a.attempt
             /\ cancelled.epoch = a.epoch + 1 /\ cancelled.owner = Nobody
BY Zenon DEF StepRow, Unowned

LEMMA StepRowUpdates ==
  ASSUME NEW a \in StepRow, NEW s, NEW b \in BOOLEAN
  PROVE  LET moved == [a EXCEPT !.state = s]
         IN  /\ moved.state = s /\ moved.attempt = a.attempt
             /\ moved.epoch = a.epoch /\ moved.owner = a.owner
             /\ SameStep(a, [a EXCEPT !.lapsed = b])
             /\ SameStep(a, [a EXCEPT !.waiting = b])
BY Zenon DEF StepRow, SameStep

\* Overwriting a row of one run leaves every other row as it was.
LEMMA StepOverwritten ==
  ASSUME TypeInv, NEW r \in Runs, NEW t \in StepType, NEW row,
         step' = [step EXCEPT ![r][t] = row]
  PROVE  /\ step'[r][t] = row
         /\ OtherStepSame(r, t)
         /\ \A q \in Runs \ {r} : SameSteps(q)
<1>1. step \in [Runs -> [StepType -> StepRow]]
  BY DEF TypeInv, TypeOK, StoreTypeOK
<1>2. /\ step'[r][t] = row
      /\ \A u \in StepType \ {t} : step'[r][u] = step[r][u]
      /\ \A q \in Runs \ {r} : step'[q] = step[q]
  BY <1>1
<1> QED
  BY <1>2 DEF OtherStepSame, SameSteps, SameStep

LEMMA RunOverwritten ==
  ASSUME TypeInv, NEW r \in Runs, NEW a, run' = [run EXCEPT ![r] = a]
  PROVE  run'[r] = a /\ \A q \in Runs \ {r} : run'[q] = run[q]
BY DEF TypeInv, TypeOK, StoreTypeOK

\* What is logged is logged of one run.
LEMMA LogOverwritten ==
  ASSUME TypeInv, NEW r \in Runs, NEW new, Log(r, new)
  PROVE  Logs(r, new) /\ \A q \in Runs \ {r} : LogsNothingNew(q)
BY DEF TypeInv, TypeOK, StoreTypeOK, Log, Logs, LogsNothingNew

\* Nothing moves when the store is left alone.
LEMMA KeptWhenSame ==
  ASSUME UNCHANGED store
  PROVE  Moves
BY DEF store, Moves, Kept, SameSteps, SameStep, SameEvidence, LogsNothingNew

\* The same for flags of one step row.
LEMMA KeptWhenFlagged ==
  ASSUME TypeInv, NEW r \in Runs, NEW t \in StepType, NEW row,
         SameStep(step[r][t], row),
         step' = [step EXCEPT ![r][t] = row],
         UNCHANGED <<run, observations, findings, events>>
  PROVE  Moves
<1>1. step'[r][t] = row /\ OtherStepSame(r, t) /\ \A q \in Runs \ {r} : SameSteps(q)
  BY StepOverwritten
<1>2. \A q \in Runs : SameSteps(q)
  BY <1>1 DEF SameSteps, OtherStepSame
<1> QED
  BY <1>2 DEF Moves, Kept, SameEvidence, LogsNothingNew

-----------------------------------------------------------------------------
(* Each action moves at most one run *)

LEMMA LeaseMoves ==
  ASSUME TypeInv, NEW w \in Workers, NEW r \in Runs, NEW t \in StepType,
         Lease(w, r, t)
  PROVE  Moves
<1> DEFINE row == [state |-> "leased", attempt |-> step[r][t].attempt + 1,
                   epoch |-> step[r][t].epoch + 1, owner |-> WorkerId[w],
                   waiting |-> FALSE, lapsed |-> FALSE, error |-> "none"]
           a == [run[r] EXCEPT !.state = "collecting", !.started = TRUE]
<1>1. /\ step' = [step EXCEPT ![r][t] = row]
      /\ run' = IF IsFirstClaim(r, t) THEN [run EXCEPT ![r] = a] ELSE run
      /\ UNCHANGED <<observations, findings>>
      /\ Claimable(r, t) /\ AttemptsLeft(r, t)
  BY DEF Lease
<1>0. Log(r, LeaseEvents(r, t))
  BY Zenon DEF Lease, LeaseEvents, LeaseOperation
<1>2. /\ a.state = "collecting" /\ a.started = TRUE
      /\ a.ended = run[r].ended /\ a.result = run[r].result
      /\ a.cancelRequested = run[r].cancelRequested
  <2>1. run[r] \in RunRow /\ "collecting" \in RunState /\ "PASS" \in AssuranceResult
    BY DEF TypeInv, TypeOK, StoreTypeOK, RunState, AssuranceResult
  <2> QED
    BY <2>1, RunRowUpdates
<1>3. /\ row.state = "leased" /\ row.attempt = step[r][t].attempt + 1
      /\ row.epoch = step[r][t].epoch + 1 /\ row.owner = WorkerId[w]
  OBVIOUS
<1> HIDE DEF row, a
<1>4. step'[r][t] = row /\ OtherStepSame(r, t) /\ \A q \in Runs \ {r} : SameSteps(q)
  BY <1>1, StepOverwritten
<1>5. /\ \/ IsFirstClaim(r, t) /\ run'[r] = a
         \/ ~IsFirstClaim(r, t) /\ run'[r] = run[r]
      /\ \A q \in Runs \ {r} : run'[q] = run[q]
  BY <1>1, RunOverwritten
<1>6. /\ Logs(r, LeaseEvents(r, t))
      /\ \A q \in Runs \ {r} : LogsNothingNew(q)
  BY <1>0, LogOverwritten
<1>7. Leased(r)
  BY <1>1, <1>2, <1>3, <1>4, <1>5, <1>6 DEF Leased, SameEvidence
<1> QED
  BY <1>1, <1>4, <1>5, <1>6, <1>7 DEF Moves, Moved, Kept, SameEvidence

LEMMA ExhaustMoves ==
  ASSUME TypeInv, NEW w \in Workers, NEW r \in Runs, NEW t \in StepType,
         Exhaust(w, r, t)
  PROVE  Moves
<1> DEFINE row == [Unowned(step[r][t]) EXCEPT !.state = "failed",
                                              !.error = "attempts_exhausted"]
           a == Over(run[r], "failed")
<1>1. /\ step' = [step EXCEPT ![r][t] = row]
      /\ run' = [run EXCEPT ![r] = a]
      /\ UNCHANGED <<observations, findings>>
      /\ Claimable(r, t) /\ ~AttemptsLeft(r, t)
      /\ Log(r, {Event("step_failed", t, 0)})
  <2>1. run[r].state \in {"queued", "collecting", "evaluating"}
    BY DEF Exhaust, Claimable, StepIsClaimable
  <2> QED
    BY <2>1 DEF Exhaust, TypeInv, TypeOK, StoreTypeOK
<1>2. /\ GivenUp(step[r][t], row, "failed")
      /\ EndsIn(run[r], a, "failed")
      /\ a.result = run[r].result /\ a.cancelRequested = run[r].cancelRequested
  <2>1. /\ step[r][t] \in StepRow /\ "failed" \in StepState
        /\ "attempts_exhausted" \in ErrorClass /\ TRUE \in BOOLEAN
        /\ run[r] \in RunRow /\ "failed" \in RunState /\ "PASS" \in AssuranceResult
    BY DEF TypeInv, TypeOK, StoreTypeOK, StepState, ErrorClass, RunState,
           AssuranceResult
  <2>2. GivenUp(step[r][t], row, "failed")
    BY <2>1, StepRowGivenUp
  <2> QED
    BY <2>1, <2>2, RunRowEnds
<1> HIDE DEF row, a
<1>3. step'[r][t] = row /\ OtherStepSame(r, t) /\ \A q \in Runs \ {r} : SameSteps(q)
  BY <1>1, StepOverwritten
<1>4. run'[r] = a /\ \A q \in Runs \ {r} : run'[q] = run[q]
  BY <1>1, RunOverwritten
<1>5. /\ Logs(r, {Event("step_failed", t, 0)})
      /\ \A q \in Runs \ {r} : LogsNothingNew(q)
  BY <1>1, LogOverwritten
<1>6. Failed(r)
  BY <1>1, <1>2, <1>3, <1>4, <1>5 DEF Failed, SameEvidence
<1> QED
  BY <1>1, <1>3, <1>4, <1>5, <1>6 DEF Moves, Moved, Kept, SameEvidence

LEMMA PersistObservationMoves ==
  ASSUME TypeInv, NEW w \in Workers, PersistObservation(w)
  PROVE  Moves
<1> DEFINE r == claim[w].run
           o == Head(batch[w])
<1>1. /\ Busy(w) /\ r \in Runs /\ claim[w].step = "collect"
      /\ batch[w] # << >> /\ run[r].state = "collecting"
      /\ UNCHANGED <<run, step, findings>>
  BY FenceMeansClaim DEF PersistObservation, TypeInv, MemoryOK, ExpectedRunState
<1>2. o \in Observation
  BY <1>1 DEF TypeInv, TypeOK, WorkersTypeOK
<1>3. CASE Recorded(o, observations[r])
  <2>1. UNCHANGED store
    BY <1>1, <1>3 DEF PersistObservation, store
  <2> QED
    BY <2>1, KeptWhenSame
<1>4. CASE ~Recorded(o, observations[r])
  <2> DEFINE new == {Event("observation_persisted", "collect",
                           Len(observations[r]) + 1)}
  <2>1. /\ observations' = [observations EXCEPT ![r] = Append(@, o)]
        /\ Log(r, new)
    BY <1>4 DEF PersistObservation
  <2>2. /\ observations'[r] = Append(observations[r], o)
        /\ \A q \in Runs \ {r} : observations'[q] = observations[q]
    BY <1>1, <2>1 DEF TypeInv, TypeOK, StoreTypeOK
  <2>5. Logs(r, new) /\ \A q \in Runs \ {r} : LogsNothingNew(q)
    BY <1>1, <2>1, LogOverwritten
  <2> HIDE DEF r, o
  <2>3. \A q \in Runs : SameSteps(q) /\ run'[q] = run[q] /\ findings'[q] = findings[q]
    BY <1>1 DEF SameSteps, SameStep
  <2>4. Observed(r)
    BY <1>1, <1>2, <1>4, <2>2, <2>3, <2>5 DEF Observed
  <2> QED
    BY <1>1, <2>2, <2>3, <2>4, <2>5 DEF Moves, Moved, Kept, SameEvidence
<1> QED
  BY <1>3, <1>4

LEMMA CompleteCollectMoves ==
  ASSUME TypeInv, NEW w \in Workers, CompleteCollect(w)
  PROVE  Moves
<1> DEFINE r == claim[w].run
           c == [Unowned(step[r]["collect"]) EXCEPT !.state = "succeeded"]
           e == [step[r]["evaluate"] EXCEPT !.state = "ready"]
           a == [run[r] EXCEPT !.state = "evaluating"]
<1>1. /\ Busy(w) /\ r \in Runs /\ claim[w].step = "collect"
      /\ run[r].state = "collecting" /\ step[r]["collect"].state = "leased"
      /\ step[r]["evaluate"].state = "blocked"
  BY FenceMeansClaim
  DEF CompleteCollect, TypeInv, MemoryOK, ExpectedRunState
<1>2. /\ step[r]["collect"] \in StepRow /\ step[r]["evaluate"] \in StepRow
      /\ "succeeded" \in StepState /\ "ready" \in StepState /\ "none" \in ErrorClass
      /\ run[r] \in RunRow /\ "evaluating" \in RunState
      /\ TRUE \in BOOLEAN /\ "PASS" \in AssuranceResult
  BY <1>1 DEF TypeInv, TypeOK, StoreTypeOK, StepState, ErrorClass, RunState,
              StepType, AssuranceResult
<1>3. GivenUp(step[r]["collect"], c, "succeeded")
  BY <1>2, StepRowGivenUp
<1>4. /\ e.state = "ready" /\ e.attempt = step[r]["evaluate"].attempt
      /\ e.epoch = step[r]["evaluate"].epoch /\ e.owner = step[r]["evaluate"].owner
  BY <1>2, StepRowUpdates
<1>5. InState(run[r], a, "evaluating")
  BY <1>2, RunRowUpdates
<1>6. /\ step' = [step EXCEPT ![r]["collect"] = c, ![r]["evaluate"] = e]
      /\ run' = [run EXCEPT ![r] = a]
      /\ UNCHANGED <<observations, findings>>
      /\ Log(r, {Event("step_succeeded", "collect", 0)})
  BY <1>1 DEF CompleteCollect, TypeInv, TypeOK, StoreTypeOK, StepType
<1> HIDE DEF c, e, a, r
<1>7. /\ step'[r]["collect"] = c /\ step'[r]["evaluate"] = e
      /\ \A q \in Runs \ {r} : step'[q] = step[q]
  BY <1>1, <1>6 DEF TypeInv, TypeOK, StoreTypeOK, StepType
<1>8. \A q \in Runs \ {r} : SameSteps(q)
  BY <1>7 DEF SameSteps, SameStep
<1>9. run'[r] = a /\ \A q \in Runs \ {r} : run'[q] = run[q]
  BY <1>1, <1>6, RunOverwritten
<1>10. /\ Logs(r, {Event("step_succeeded", "collect", 0)})
       /\ \A q \in Runs \ {r} : LogsNothingNew(q)
  BY <1>1, <1>6, LogOverwritten
<1>11. Completed(r)
  BY <1>1, <1>3, <1>4, <1>5, <1>6, <1>7, <1>9, <1>10 DEF Completed, SameEvidence
<1> QED
  BY <1>1, <1>6, <1>8, <1>9, <1>10, <1>11 DEF Moves, Moved, Kept, SameEvidence

LEMMA ConcludeMoves ==
  ASSUME TypeInv, NEW w \in Workers, Conclude(w)
  PROVE  Moves
<1> DEFINE r       == claim[w].run
           results == Results(drawn[w])
           state   == TerminalStateForResults(results)
           result  == SummariseResults(results)
           row == [Unowned(step[r]["evaluate"]) EXCEPT !.state = "succeeded"]
           a   == [Over(run[r], state) EXCEPT !.result = result]
<1>1. /\ r \in Runs /\ claim[w].step = "evaluate" /\ pc[w] = "conclude"
      /\ FenceHolds(w)
      /\ run[r].state = "evaluating" /\ step[r]["evaluate"].state = "leased"
  BY FenceMeansClaim DEF Conclude, TypeInv, MemoryOK, ExpectedRunState
<1>2. /\ step' = [step EXCEPT ![r]["evaluate"] = row]
      /\ run' = [run EXCEPT ![r] = a]
      /\ findings' = [findings EXCEPT ![r] = @ \cup drawn[w]]
      /\ UNCHANGED observations
      /\ Log(r, {Event("step_succeeded", "evaluate", 0)})
  BY <1>1 DEF Conclude, TypeInv, TypeOK, StoreTypeOK
<1>3. GivenUp(step[r]["evaluate"], row, "succeeded")
  <2>1. /\ step[r]["evaluate"] \in StepRow /\ "succeeded" \in StepState
        /\ "none" \in ErrorClass /\ TRUE \in BOOLEAN
    BY <1>1 DEF TypeInv, TypeOK, StoreTypeOK, StepState, ErrorClass, StepType
  <2> QED
    BY <2>1, StepRowGivenUp
<1>4. /\ EndsIn(run[r], a, state) /\ a.result = result
      /\ a.cancelRequested = run[r].cancelRequested
  <2>1. run[r] \in RunRow /\ state \in RunState /\ result \in AssuranceResult
    BY <1>1, OutcomeType DEF RunState, TypeInv, TypeOK, StoreTypeOK
  <2> HIDE DEF state, result, row, results, r
  <2> QED
    BY <2>1, RunRowEnds, ZenonT(60)
<1>5. findings'[r] = findings[r] \cup drawn[w]
      /\ \A q \in Runs \ {r} : findings'[q] = findings[q]
  BY <1>1, <1>2 DEF TypeInv, TypeOK, StoreTypeOK
<1>6. /\ step'[r]["evaluate"] = row /\ OtherStepSame(r, "evaluate")
      /\ \A q \in Runs \ {r} : SameSteps(q)
  <2> HIDE DEF row, r
  <2> QED
    BY <1>1, <1>2, StepOverwritten DEF StepType
<1>7. run'[r] = a /\ \A q \in Runs \ {r} : run'[q] = run[q]
  <2> HIDE DEF a, r
  <2> QED
    BY <1>1, <1>2, RunOverwritten
<1>8. /\ Logs(r, {Event("step_succeeded", "evaluate", 0)})
      /\ \A q \in Runs \ {r} : LogsNothingNew(q)
  BY <1>1, <1>2, LogOverwritten
<1>9. Concluded(r)
  <2> HIDE DEF row, a
  <2> QED
    BY <1>1, <1>2, <1>3, <1>4, <1>5, <1>6, <1>7, <1>8 DEF Concluded
<1> HIDE DEF r, row, a
<1> QED
  BY <1>1, <1>2, <1>5, <1>6, <1>7, <1>8, <1>9 DEF Moves, Moved, Kept, SameEvidence

LEMMA FailStepMoves ==
  ASSUME TypeInv, NEW w \in Workers, NEW error \in ErrorClass, FailStep(w, error)
  PROVE  Moves
<1> DEFINE r   == claim[w].run
           t   == claim[w].step
           row == [Unowned(step[r][t]) EXCEPT !.state = "failed", !.error = error]
           a   == Over(run[r], "failed")
<1>1. /\ r \in Runs /\ t \in StepType /\ step[r][t].state = "leased"
      /\ run[r].state = ExpectedRunState(t)
  BY FenceMeansClaim DEF FailStep
<1>2. /\ step' = [step EXCEPT ![r][t] = row]
      /\ run' = [run EXCEPT ![r] = a]
      /\ UNCHANGED <<observations, findings>>
      /\ Log(r, {Event("step_failed", t, 0)})
  BY <1>1 DEF FailStep, TypeInv, TypeOK, StoreTypeOK
<1>3. /\ GivenUp(step[r][t], row, "failed")
      /\ EndsIn(run[r], a, "failed")
      /\ a.result = run[r].result /\ a.cancelRequested = run[r].cancelRequested
  <2>1. /\ step[r][t] \in StepRow /\ "failed" \in StepState /\ TRUE \in BOOLEAN
        /\ run[r] \in RunRow /\ "failed" \in RunState /\ "PASS" \in AssuranceResult
    BY <1>1 DEF TypeInv, TypeOK, StoreTypeOK, StepState, RunState, AssuranceResult
  <2>2. GivenUp(step[r][t], row, "failed")
    BY <2>1, StepRowGivenUp
  <2> QED
    BY <2>1, <2>2, RunRowEnds
<1> HIDE DEF row, a, r, t
<1>4. step'[r][t] = row /\ OtherStepSame(r, t) /\ \A q \in Runs \ {r} : SameSteps(q)
  BY <1>1, <1>2, StepOverwritten
<1>5. run'[r] = a /\ \A q \in Runs \ {r} : run'[q] = run[q]
  BY <1>1, <1>2, RunOverwritten
<1>6. /\ Logs(r, {Event("step_failed", t, 0)})
      /\ \A q \in Runs \ {r} : LogsNothingNew(q)
  BY <1>1, <1>2, LogOverwritten
<1>7. Failed(r)
  BY <1>1, <1>2, <1>3, <1>4, <1>5, <1>6 DEF Failed, SameEvidence
<1> QED
  BY <1>1, <1>2, <1>4, <1>5, <1>6, <1>7 DEF Moves, Moved, Kept, SameEvidence

LEMMA ScheduleRetryMoves ==
  ASSUME TypeInv, NEW w \in Workers, ScheduleRetry(w)
  PROVE  Moves
<1> DEFINE r   == claim[w].run
           t   == claim[w].step
           row == [Unowned(step[r][t]) EXCEPT !.state = "ready", !.waiting = TRUE]
<1>1. /\ r \in Runs /\ t \in StepType /\ step[r][t].state = "leased"
      /\ run[r].state = ExpectedRunState(t)
      /\ HoldsLease(w, r, t) /\ claim[w].attempt < MaxStepAttempts
  BY FenceMeansClaim DEF ScheduleRetry, FenceHolds
<1>2. /\ step' = [step EXCEPT ![r][t] = row]
      /\ UNCHANGED <<run, observations, findings>>
      /\ Log(r, {Event("step_retry_scheduled", t, step[r][t].epoch)})
  BY <1>1 DEF ScheduleRetry, RetryOperation, HoldsLease
<1>3. GivenUp(step[r][t], row, "ready")
  <2>1. /\ step[r][t] \in StepRow /\ "ready" \in StepState /\ TRUE \in BOOLEAN
        /\ "none" \in ErrorClass
    BY <1>1 DEF TypeInv, TypeOK, StoreTypeOK, StepState, ErrorClass
  <2> QED
    BY <2>1, StepRowGivenUp
<1> HIDE DEF row, r, t
<1>4. step'[r][t] = row /\ OtherStepSame(r, t) /\ \A q \in Runs \ {r} : SameSteps(q)
  BY <1>1, <1>2, StepOverwritten
<1>5. /\ Logs(r, {Event("step_retry_scheduled", t, step[r][t].epoch)})
      /\ \A q \in Runs \ {r} : LogsNothingNew(q)
  BY <1>1, <1>2, LogOverwritten
<1>6. Retried(r)
  BY <1>1, <1>2, <1>3, <1>4, <1>5 DEF Retried, SameEvidence
<1> QED
  BY <1>1, <1>2, <1>4, <1>5, <1>6 DEF Moves, Moved, Kept, SameEvidence

LEMMA TimeMoves ==
  ASSUME TypeInv, NEW r \in Runs, NEW t \in StepType,
         LeaseLapses(r, t) \/ BackoffElapses(r, t)
           \/ \E w \in Workers : LateHeartbeat(w, r, t)
  PROVE  Moves
<1>1. /\ UNCHANGED <<run, observations, findings, events>>
      /\ \E b \in BOOLEAN :
           step' \in {[step EXCEPT ![r][t] = [step[r][t] EXCEPT !.lapsed = b]],
                      [step EXCEPT ![r][t] = [step[r][t] EXCEPT !.waiting = b]]}
  BY DEF LeaseLapses, BackoffElapses, LateHeartbeat, TypeInv, TypeOK, StoreTypeOK
<1>2. PICK b \in BOOLEAN :
        step' \in {[step EXCEPT ![r][t] = [step[r][t] EXCEPT !.lapsed = b]],
                   [step EXCEPT ![r][t] = [step[r][t] EXCEPT !.waiting = b]]}
  BY <1>1
<1> DEFINE lapse == [step[r][t] EXCEPT !.lapsed = b]
           wait  == [step[r][t] EXCEPT !.waiting = b]
<1>3. SameStep(step[r][t], lapse) /\ SameStep(step[r][t], wait)
  <2>1. step[r][t] \in StepRow /\ "ready" \in StepState /\ "none" \in ErrorClass
    BY DEF TypeInv, TypeOK, StoreTypeOK, StepState, ErrorClass
  <2> QED
    BY <2>1, StepRowUpdates
<1>4. step' \in {[step EXCEPT ![r][t] = lapse], [step EXCEPT ![r][t] = wait]}
  BY <1>2
<1> HIDE DEF lapse, wait
<1> QED
  BY <1>1, <1>3, <1>4, KeptWhenFlagged

LEMMA RecordCancelRequestedMoves ==
  ASSUME TypeInv, NEW c \in Clients, RecordCancelRequested(c)
  PROVE  Moves
<1> DEFINE r == Target[c]
           a == [run[r] EXCEPT !.cancelRequested = TRUE]
<1>1. r \in Runs /\ run[r] \in RunRow /\ run[r].state \in RunState
  BY RunsAssumption DEF TypeInv, TypeOK, StoreTypeOK, RunRow
<1>2. Marked(run[r], a)
  <2>1. "PASS" \in AssuranceResult
    BY DEF AssuranceResult
  <2> QED
    BY <1>1, <2>1, RunRowUpdates
<1>3. /\ run' = [run EXCEPT ![r] = a]
      /\ UNCHANGED <<step, observations, findings>>
      /\ cancel[c].at = "decided" /\ ~SawCancellable(c)
      /\ Log(r, {Event("cancel_requested", "collect", 0)})
  BY DEF RecordCancelRequested, TypeInv, TypeOK, StoreTypeOK
<1> HIDE DEF a
<1>4. run'[r] = a /\ \A q \in Runs \ {r} : run'[q] = run[q]
  BY <1>1, <1>3, RunOverwritten
<1>5. \A q \in Runs : SameSteps(q) /\ SameEvidence(q)
  BY <1>3 DEF SameSteps, SameStep, SameEvidence
<1>6. /\ Logs(r, {Event("cancel_requested", "collect", 0)})
      /\ \A q \in Runs \ {r} : LogsNothingNew(q)
  BY <1>1, <1>3, LogOverwritten
<1> QED
  BY <1>1, <1>2, <1>3, <1>4, <1>5, <1>6 DEF Moves, Moved, Kept, CancelRequested

LEMMA CancelCollectMoves ==
  ASSUME TypeInv, NEW c \in Clients, CancelCollect(c)
  PROVE  Moves
<1> DEFINE r == Target[c]
           a == [Over(run[r], "cancelled") EXCEPT !.cancelRequested = TRUE]
           row == [Unowned(step[r]["collect"]) EXCEPT !.state = "cancelled",
                         !.epoch = step[r]["collect"].epoch + 1,
                                                      !.error = "cancelled"]
<1>1. CASE CancelStands(r) /\ UNCHANGED <<run, step>>
  <2>1. /\ r \in Runs /\ Log(r, CancelEvents)
        /\ UNCHANGED <<run, step, observations, findings>>
    BY <1>1, RunsAssumption DEF CancelCollect
  <2>2. \A q \in Runs : LogsNothingNew(q)
    BY <1>1, <2>1, LogOverwritten DEF LogsNothingNew
  <2> QED
    BY <2>1, <2>2 DEF Moves, Kept, SameSteps, SameStep, SameEvidence
<1>2. CASE ~(CancelStands(r) /\ UNCHANGED <<run, step>>)
  <2>1. /\ r \in Runs /\ run[r] \in RunRow
        /\ "cancelled" \in RunState /\ "PASS" \in AssuranceResult
        /\ step[r]["collect"] \in StepRow /\ "collect" \in StepType
        /\ "cancelled" \in StepState /\ "cancelled" \in ErrorClass
        /\ TRUE \in BOOLEAN
    BY RunsAssumption DEF TypeInv, TypeOK, StoreTypeOK, RunState, AssuranceResult,
                          StepState, ErrorClass, StepType
  <2>2. /\ EndsIn(run[r], a, "cancelled")
        /\ a.result = run[r].result /\ a.cancelRequested = TRUE
    BY <2>1, RunRowEnds
  <2>3. /\ row.state = "cancelled" /\ row.attempt = step[r]["collect"].attempt
        /\ row.epoch = step[r]["collect"].epoch + 1 /\ row.owner = Nobody
    BY <2>1, StepRowCancelled
  <2>4. /\ Cancellable(r)
        /\ run' = [run EXCEPT ![r] = a]
        /\ \/ CollectCanStop(r) /\ step' = [step EXCEPT ![r]["collect"] = row]
           \/ ~CollectCanStop(r) /\ step' = step
        /\ UNCHANGED <<observations, findings>>
        /\ Log(r, CancelEvents)
    BY <1>2, <2>1 DEF CancelCollect, TypeInv, TypeOK, StoreTypeOK
  <2>8. /\ Logs(r, CancelEvents)
        /\ \A q \in Runs \ {r} : LogsNothingNew(q)
    BY <2>1, <2>4, LogOverwritten
  <2> HIDE DEF a, row, r
  <2>5. run'[r] = a /\ \A q \in Runs \ {r} : run'[q] = run[q]
    BY <2>1, <2>4, RunOverwritten
  <2>6. CASE CollectCanStop(r) /\ step' = [step EXCEPT ![r]["collect"] = row]
    <3>1. /\ step'[r]["collect"] = row /\ OtherStepSame(r, "collect")
          /\ \A q \in Runs \ {r} : SameSteps(q)
      BY <2>1, <2>6, StepOverwritten
    <3>2. Cancelled(r)
      BY <2>2, <2>3, <2>4, <2>5, <2>6, <2>8, <3>1 DEF Cancelled, SameEvidence
    <3> QED
      BY <2>1, <2>4, <2>5, <2>8, <3>1, <3>2 DEF Moves, Moved, Kept, SameEvidence
  <2>7. CASE ~CollectCanStop(r) /\ step' = step
    <3>1. /\ SameStep(step[r]["collect"], step'[r]["collect"])
          /\ OtherStepSame(r, "collect") /\ \A q \in Runs \ {r} : SameSteps(q)
      BY <2>7 DEF SameStep, OtherStepSame, SameSteps
    <3>2. Cancelled(r)
      BY <2>2, <2>4, <2>5, <2>7, <2>8, <3>1 DEF Cancelled, SameEvidence
    <3> QED
      BY <2>1, <2>4, <2>5, <2>8, <3>1, <3>2 DEF Moves, Moved, Kept, SameEvidence
  <2> QED
    BY <2>4, <2>6, <2>7
<1> QED
  BY <1>1, <1>2

\* Every step of the specification is such a move.
LEMMA NextMoves == TypeInv /\ [Next]_vars => Moves
<1> SUFFICES ASSUME TypeInv, [Next]_vars
             PROVE  Moves
  OBVIOUS
<1>1. CASE UNCHANGED store
  BY <1>1, KeptWhenSame
<1>2. ASSUME NEW w \in Workers, Poll(w) PROVE Moves
  BY <1>2, LeaseMoves, ExhaustMoves DEF Poll
<1>3. ASSUME NEW w \in Workers, WorkerStep(w) PROVE Moves
  <2>1. "invariant_violation" \in ErrorClass /\ "attempts_exhausted" \in ErrorClass
    BY DEF ErrorClass
  <2>2. CASE FailClaimedStep(w) \/ GiveUp(w)
    BY <2>1, <2>2, FailStepMoves DEF FailClaimedStep, GiveUp
  <2>3. CASE \/ VerifyScope(w) \/ CollectInventory(w) \/ CollectTelemetry(w)
             \/ EnsureStillLeased(w) \/ ReadAndEvaluate(w) \/ LoseFence(w)
    BY <1>1, <2>3 DEF VerifyScope, CollectInventory, CollectTelemetry,
                      EnsureStillLeased, ReadAndEvaluate, LoseFence
  <2> QED
    BY <1>3, <2>2, <2>3, PersistObservationMoves, CompleteCollectMoves,
       ConcludeMoves, ScheduleRetryMoves DEF WorkerStep
<1>4. ASSUME NEW w \in Workers, PortOutOfScope(w) \/ Fault(w) \/ Crash(w)
      PROVE  Moves
  BY <1>1, <1>4 DEF PortOutOfScope, Fault, Crash
<1>5. ASSUME NEW r \in Runs, NEW t \in StepType,
             LeaseLapses(r, t) \/ BackoffElapses(r, t)
               \/ \E w \in Workers : LateHeartbeat(w, r, t)
      PROVE  Moves
  BY <1>5, TimeMoves
<1>6. ASSUME NEW c \in Clients, ClientStep(c) PROVE Moves
  <2>1. CASE \/ SubmitCancel(c) \/ CancelConflict(c) \/ RereadAfterError(c)
             \/ CancelFault(c)
    BY <1>1, <2>1 DEF SubmitCancel, CancelConflict, RereadAfterError, CancelFault
  <2> QED
    BY <1>6, <2>1, RecordCancelRequestedMoves, CancelCollectMoves DEF ClientStep
<1>7. CASE UNCHANGED vars
  BY <1>1, <1>7 DEF vars
<1> QED
  BY <1>2, <1>3, <1>4, <1>5, <1>6, <1>7 DEF Next

-----------------------------------------------------------------------------
(* The rows of a run *)

\* Nobody has touched the collect step of a queued run.
QueuedIsUntouched ==
  \A r \in Runs : run[r].state = "queued" => step[r]["collect"].attempt = 0

RowsInv == TypeInv /\ StepsFitRun /\ QueuedIsUntouched

\* The rows of one run, typed.
LEMMA RowTypes ==
  ASSUME TypeInv, NEW r \in Runs
  PROVE  /\ run[r] \in RunRow /\ run[r].state \in RunState
         /\ \A t \in StepType :
              /\ step[r][t] \in StepRow /\ step[r][t].state \in StepState
              /\ step[r][t].attempt \in Nat /\ step[r][t].epoch \in Nat
         /\ "collect" \in StepType /\ "evaluate" \in StepType
BY AttemptsAssumption
DEF TypeInv, TypeOK, StoreTypeOK, RunRow, StepRow, StepType

\* What a move does to the three states of its run, and to its attempts.
LEMMA MovedRow ==
  ASSUME RowsInv, NEW r \in Runs, Moved(r) \/ Kept(r)
  PROVE  LET old == <<run[r].state, step[r]["collect"].state,
                      step[r]["evaluate"].state>>
             new == <<run'[r].state, step'[r]["collect"].state,
                      step'[r]["evaluate"].state>>
         IN  /\ old \in FittingStates /\ new \in FittingStates
             /\ run'[r].state = "queued" =>
                  /\ run[r].state = "queued"
                  /\ step'[r]["collect"].attempt = step[r]["collect"].attempt
<1>1. <<run[r].state, step[r]["collect"].state, step[r]["evaluate"].state>>
        \in FittingStates
  BY DEF RowsInv, StepsFitRun
<1>2. CASE Kept(r) \/ Observed(r) \/ CancelRequested(r)
  BY <1>1, <1>2 DEF Kept, Observed, CancelRequested, SameSteps, SameStep, Marked,
                    StepType
<1>3. CASE Leased(r)
  BY <1>1, <1>3 DEF Leased, Claimable, StepIsClaimable, IsFirstClaim,
                    OtherStepSame, SameStep, StepType, FittingStates
<1>4. CASE Completed(r)
  BY <1>1, <1>4 DEF Completed, GivenUp, InState, FittingStates
<1>5. CASE Concluded(r)
  BY <1>1, <1>5, OutcomeType
  DEF Concluded, GivenUp, EndsIn, OtherStepSame, SameStep, StepType, FittingStates
<1>6. CASE Failed(r)
  BY <1>1, <1>6 DEF Failed, Claimable, StepIsClaimable, ExpectedRunState, GivenUp,
                    EndsIn, OtherStepSame, SameStep, StepType, FittingStates
<1>7. CASE Retried(r)
  BY <1>1, <1>7 DEF Retried, ExpectedRunState, GivenUp,
                    OtherStepSame, SameStep, StepType, FittingStates
<1>8. CASE Cancelled(r)
  BY <1>1, <1>8 DEF Cancelled, Cancellable, CollectCanStop,
                    EndsIn, OtherStepSame, SameStep, StepType, FittingStates
<1> QED
  BY <1>2, <1>3, <1>4, <1>5, <1>6, <1>7, <1>8 DEF Moved

LEMMA RowsInitially == Init => RowsInv
BY InitType
DEF RowsInv, Init, StepsFitRun, FittingStates, QueuedIsUntouched, StepType

LEMMA RowsPreserved == RowsInv /\ [Next]_vars => RowsInv'
<1> SUFFICES ASSUME RowsInv, [Next]_vars
             PROVE  RowsInv'
  OBVIOUS
<1>1. TypeInv' /\ Moves
  BY NextType, NextMoves DEF RowsInv
<1>2. \A r \in Runs : Moved(r) \/ Kept(r)
  BY <1>1 DEF Moves
<1>3. StepsFitRun'
  BY <1>2, MovedRow DEF StepsFitRun
<1>4. QueuedIsUntouched'
  BY <1>2, MovedRow DEF RowsInv, QueuedIsUntouched
<1> QED
  BY <1>1, <1>3, <1>4 DEF RowsInv

\* A run, its collect step and its evaluate step always fit together.
THEOREM RowsFit == Spec => []StepsFitRun
<1>1. Spec => []RowsInv
  BY RowsInitially, RowsPreserved, PTL DEF Spec
<1> QED
  BY <1>1, PTL DEF RowsInv

\* The run and step rows of a move satisfy their CHECKs if they did before.
LEMMA MovedChecks ==
  ASSUME RowsInv, ChecksNeverFire, TypeInv', NEW r \in Runs, Moved(r) \/ Kept(r)
  PROVE  RunCheck(run'[r]) /\ \A t \in StepType : StepCheck(step'[r][t])
<1>1. /\ <<run[r].state, step[r]["collect"].state, step[r]["evaluate"].state>>
           \in FittingStates
      /\ run[r].state = "queued" => step[r]["collect"].attempt = 0
      /\ RunCheck(run[r])
      /\ \A t \in StepType : StepCheck(step[r][t]) /\ step[r][t].epoch \in Nat
      /\ \A w \in Workers : WorkerId[w] # Nobody
  BY RowTypes, WorkersAssumption
  DEF RowsInv, StepsFitRun, QueuedIsUntouched, ChecksNeverFire
<1>2. \A t \in StepType : step'[r][t].attempt <= MaxStepAttempts
  BY AttemptsAssumption, SMTT(30) DEF TypeInv, TypeOK, StoreTypeOK, StepRow
<1>3. CASE Kept(r) \/ Observed(r) \/ CancelRequested(r)
  BY <1>1, <1>2, <1>3 DEF Kept, Observed, CancelRequested, SameSteps, SameStep,
                          Marked, StepCheck, RunCheck
<1>4. CASE Leased(r)
  <2>1. RunCheck(run'[r])
    BY <1>1, <1>4 DEF Leased, IsFirstClaim, RunCheck
  <2>2. \A t \in StepType : StepCheck(step'[r][t])
    BY <1>1, <1>2, <1>4 DEF Leased, OtherStepSame, SameStep, StepCheck
  <2> QED
    BY <2>1, <2>2
<1>5. CASE Completed(r)
  BY <1>1, <1>2, <1>5
  DEF Completed, GivenUp, InState, RunCheck, StepCheck, StepType
<1>6. CASE Concluded(r)
  <2>1. RunCheck(run'[r])
    BY <1>1, <1>6
    DEF Concluded, EndsIn, RunCheck, SummariseResults, TerminalStateForResults
  <2>2. \A t \in StepType : StepCheck(step'[r][t])
    BY <1>1, <1>2, <1>6 DEF Concluded, GivenUp, OtherStepSame, SameStep, StepCheck
  <2> QED
    BY <2>1, <2>2
<1>7. CASE Failed(r)
  <2>1. RunCheck(run'[r])
    BY <1>1, <1>7, AttemptsAssumption
    DEF Failed, EndsIn, Claimable, StepIsClaimable, AttemptsLeft,
        ExpectedRunState, RunCheck, StepType
  <2>2. \A t \in StepType : StepCheck(step'[r][t])
    BY <1>1, <1>2, <1>7 DEF Failed, GivenUp, OtherStepSame, SameStep, StepCheck
  <2> QED
    BY <2>1, <2>2
<1>8. CASE Retried(r)
  BY <1>1, <1>2, <1>8 DEF Retried, GivenUp, OtherStepSame, SameStep, StepCheck
<1>9. CASE Cancelled(r)
  <2>1. RunCheck(run'[r])
    BY <1>1, <1>9 DEF Cancelled, Cancellable, EndsIn, RunCheck
  <2>2. \A t \in StepType : StepCheck(step'[r][t])
    BY <1>1, <1>2, <1>9 DEF Cancelled, OtherStepSame, SameStep, StepCheck
  <2> QED
    BY <2>1, <2>2
<1> QED
  BY <1>3, <1>4, <1>5, <1>6, <1>7, <1>8, <1>9 DEF Moved

\* No update of the code violates a CHECK of the schema.
THEOREM ChecksHold == Spec => []ChecksNeverFire
<1>1. Init => ChecksNeverFire
  BY AttemptsAssumption
  DEF Init, ChecksNeverFire, RunCheck, StepCheck, StepType
<1>2. RowsInv /\ ChecksNeverFire /\ [Next]_vars => ChecksNeverFire'
  <2> SUFFICES ASSUME RowsInv, ChecksNeverFire, [Next]_vars
               PROVE  ChecksNeverFire'
    OBVIOUS
  <2>1. TypeInv' /\ Moves
    BY NextType, NextMoves DEF RowsInv
  <2>2. \A r \in Runs : Moved(r) \/ Kept(r)
    BY <2>1 DEF Moves
  <2> QED
    BY <2>1, <2>2, MovedChecks DEF ChecksNeverFire
<1> QED
  BY <1>1, <1>2, RowsInitially, RowsPreserved, PTL DEF Spec

\* The transitions of one run are in the tables.
LEMMA MovedLegally ==
  ASSUME RowsInv, NEW r \in Runs, Moved(r) \/ Kept(r)
  PROVE  /\ run[r].state # run'[r].state =>
              <<run[r].state, run'[r].state>> \in RunAllowed
         /\ \A t \in StepType :
              LET s  == step[r][t]
                  s2 == step'[r][t]
              IN  /\ <<s.state, s2.state>> \in StepAllowed \/ s.state = s2.state
                  /\ s2.attempt >= s.attempt /\ s2.epoch >= s.epoch
                  /\ s2.attempt > s.attempt => s2.epoch > s.epoch
<1>1. /\ <<run[r].state, step[r]["collect"].state, step[r]["evaluate"].state>>
           \in FittingStates
      /\ run[r].state = "queued" => step[r]["collect"].attempt = 0
      /\ \A t \in StepType : step[r][t].attempt \in Nat /\ step[r][t].epoch \in Nat
  BY RowTypes DEF RowsInv, StepsFitRun, QueuedIsUntouched
<1>2. CASE Kept(r) \/ Observed(r) \/ CancelRequested(r)
  BY <1>1, <1>2 DEF Kept, Observed, CancelRequested, SameSteps, SameStep, Marked
<1>3. CASE Leased(r)
  <2>1. run[r].state # run'[r].state =>
          <<run[r].state, run'[r].state>> \in RunAllowed
    BY <1>3 DEF Leased, IsFirstClaim, RunAllowed
  <2> QED
    BY <1>1, <1>3, <2>1 DEF Leased, Claimable, StepIsClaimable, OtherStepSame,
                            SameStep, StepAllowed
<1>4. CASE Completed(r)
  BY <1>1, <1>4 DEF Completed, GivenUp, InState, RunAllowed, StepAllowed, StepType
<1>5. CASE Concluded(r)
  BY <1>1, <1>5, OutcomeType DEF Concluded, GivenUp, EndsIn, OtherStepSame,
                                 SameStep, RunAllowed, StepAllowed
<1>6. CASE Failed(r)
  BY <1>1, <1>6, AttemptsAssumption
  DEF Failed, Claimable, StepIsClaimable, AttemptsLeft, ExpectedRunState,
      GivenUp, EndsIn, OtherStepSame, SameStep, RunAllowed, StepAllowed, StepType
<1>7. CASE Retried(r)
  BY <1>1, <1>7 DEF Retried, GivenUp, OtherStepSame, SameStep, StepAllowed
<1>8. CASE Cancelled(r)
  <2>1. <<run[r].state, run'[r].state>> \in RunAllowed
    BY <1>8 DEF Cancelled, Cancellable, EndsIn, RunAllowed
  <2> QED
    BY <1>1, <1>8, <2>1 DEF Cancelled, CollectCanStop, OtherStepSame, SameStep,
                            StepAllowed
<1> QED
  BY <1>2, <1>3, <1>4, <1>5, <1>6, <1>7, <1>8 DEF Moved

\* Runs and steps move only along the ALLOWED tables of the domain package, and
\* attempts and epochs never go back.
THEOREM TransitionsAreLegal == Spec => LegalTransitions
<1> DEFINE Legal ==
      \A r \in Runs :
       /\ run[r].state # run'[r].state =>
            <<run[r].state, run'[r].state>> \in RunAllowed
       /\ \A t \in StepType :
            LET s  == step[r][t]
                s2 == step'[r][t]
            IN  /\ <<s.state, s2.state>> \in StepAllowed \/ s.state = s2.state
                /\ s2.attempt >= s.attempt /\ s2.epoch >= s.epoch
                /\ s2.attempt > s.attempt => s2.epoch > s.epoch
<1>1. RowsInv /\ [Next]_vars => Legal
  <2> SUFFICES ASSUME RowsInv, [Next]_vars
               PROVE  Legal
    OBVIOUS
  <2>1. Moves
    BY NextMoves DEF RowsInv
  <2> QED
    BY <2>1, MovedLegally DEF Moves
<1>2. Spec => []RowsInv
  BY RowsInitially, RowsPreserved, PTL DEF Spec
<1>3. RowsInv /\ [Next]_vars => [Legal]_vars
  BY <1>1
<1> QED
  BY <1>2, <1>3, PTL DEF Spec, LegalTransitions
=============================================================================

----------------------------- MODULE OutcomeProofs -----------------------------
(***************************************************************************)
(* Proofs about the leases of Orchestration, what becomes of cancel        *)
(* requests, the verdicts and the lifecycle of runs, and the log.          *)
(***************************************************************************)
EXTENDS OrchestrationProofs, FiniteSetTheorems

-----------------------------------------------------------------------------
(* Leases: two workers never both pass the fence of a run, and one whose    *)
(* lease is gone writes nothing.                                            *)

\* No worker remembers a lease that the step has not given yet.
ClaimsAreGiven ==
  \A w \in Workers :
    Busy(w) => claim[w].epoch <= step[claim[w].run][claim[w].step].epoch

\* No two workers remember the same lease, not even two that share an id.
ClaimsDiffer ==
  \A v, w \in Workers :
    (v # w /\ Busy(v) /\ Busy(w)
       /\ claim[v].run = claim[w].run /\ claim[v].step = claim[w].step)
      => claim[v].epoch # claim[w].epoch

LeaseInv == RowsInv /\ ClaimsAreGiven /\ ClaimsDiffer

-----------------------------------------------------------------------------
(* Every step seen from the workers *)

\* Nobody enters runOnce, and those inside keep the claim they have.
NobodyClaims ==
  \A w \in Workers : Busy(w)' => Busy(w) /\ claim'[w] = claim[w]

\* One worker is given the next epoch of a step.
Claims(w, r, t) ==
  /\ Lease(w, r, t)
  /\ claim'[w].run = r /\ claim'[w].step = t
  /\ claim'[w].epoch = step[r][t].epoch + 1
  /\ claim'[w].attempt = step[r][t].attempt + 1
  /\ step'[r][t].epoch = step[r][t].epoch + 1
  /\ \A v \in Workers \ {w} : (Busy(v)' <=> Busy(v)) /\ claim'[v] = claim[v]

LEMMA ReleaseClaims ==
  ASSUME TypeInv, NEW w \in Workers, Release(w)
  PROVE  NobodyClaims /\ \A v \in Workers \ {w} : ~Acts(v)
BY DEF Release, NobodyClaims, Acts, Busy, TypeInv, TypeOK, WorkersTypeOK

LEMMA ProceedClaims ==
  ASSUME TypeInv, NEW w \in Workers, NEW point, NEW items, NEW outputs,
         Busy(w), Proceed(w, point, items, outputs)
  PROVE  NobodyClaims /\ \A v \in Workers \ {w} : ~Acts(v)
BY DEF Proceed, NobodyClaims, Acts, Busy, TypeInv, TypeOK, WorkersTypeOK

LEMMA AdvanceClaims ==
  ASSUME TypeInv, NEW w \in Workers, NEW point, Busy(w), Advance(w, point)
  PROVE  NobodyClaims /\ \A v \in Workers \ {w} : ~Acts(v)
BY ProceedClaims DEF Advance

LEMMA SameClaims == UNCHANGED <<pc, claim>> => NobodyClaims
BY DEF NobodyClaims, Busy

LEMMA LeaseClaims ==
  ASSUME TypeInv, NEW w \in Workers, NEW r \in Runs, NEW t \in StepType,
         Lease(w, r, t)
  PROVE  Claims(w, r, t) /\ \A v \in Workers \ {w} : ~Acts(v)
<1> DEFINE row == [state |-> "leased", attempt |-> step[r][t].attempt + 1,
                   epoch |-> step[r][t].epoch + 1, owner |-> WorkerId[w],
                   waiting |-> FALSE, lapsed |-> FALSE, error |-> "none"]
           mine == [run |-> r, step |-> t, epoch |-> step[r][t].epoch + 1,
                    attempt |-> step[r][t].attempt + 1]
           point == IF t = "collect" THEN "verify" ELSE "read"
<1>1. /\ step' = [step EXCEPT ![r][t] = row]
      /\ claim' = [claim EXCEPT ![w] = mine]
      /\ pc' = [pc EXCEPT ![w] = point] /\ UNCHANGED opened
  BY DEF Lease
<1>2. /\ mine.run = r /\ mine.step = t /\ mine.epoch = step[r][t].epoch + 1
      /\ mine.attempt = step[r][t].attempt + 1
      /\ row.epoch = step[r][t].epoch + 1
  OBVIOUS
<1> HIDE DEF row, mine, point
<1>3. /\ claim'[w] = mine
      /\ \A v \in Workers \ {w} : claim'[v] = claim[v] /\ pc'[v] = pc[v]
  BY <1>1 DEF TypeInv, TypeOK, WorkersTypeOK
<1>4. step'[r][t] = row
  BY <1>1, StepOverwritten
<1> QED
  BY <1>1, <1>2, <1>3, <1>4 DEF Claims, Acts, Busy

\* A worker's own steps in runOnce, whatever they write.
LEMMA WorkerClaims ==
  ASSUME TypeInv, NEW w \in Workers,
         WorkerStep(w) \/ PortOutOfScope(w) \/ Fault(w) \/ Crash(w)
  PROVE  /\ NobodyClaims
         /\ \A v \in Workers \ {w} : ~Acts(v)
         /\ UNCHANGED store \/ FenceHolds(w)
<1>1. CASE VerifyScope(w) \/ EnsureStillLeased(w) \/ PortOutOfScope(w) \/ Fault(w)
  BY <1>1, AdvanceClaims
  DEF VerifyScope, EnsureStillLeased, PortOutOfScope, Fault, Busy
<1>2. CASE CollectInventory(w) \/ CollectTelemetry(w)
  BY <1>2, ProceedClaims DEF CollectInventory, CollectTelemetry, Collected, Busy
<1>3. CASE PersistObservation(w)
  BY <1>3, ProceedClaims, AdvanceClaims DEF PersistObservation, Busy
<1>4. CASE CompleteCollect(w)
  BY <1>4, ReleaseClaims, AdvanceClaims DEF CompleteCollect, Busy
<1>5. CASE ReadAndEvaluate(w)
  BY <1>5, ProceedClaims, AdvanceClaims DEF ReadAndEvaluate, Busy
<1>6. CASE Conclude(w)
  BY <1>6, ReleaseClaims, AdvanceClaims DEF Conclude, Busy
<1>7. CASE FailClaimedStep(w) \/ GiveUp(w)
  BY <1>7, ReleaseClaims DEF FailClaimedStep, GiveUp, FailStep
<1>8. CASE ScheduleRetry(w)
  BY <1>8, ReleaseClaims DEF ScheduleRetry
<1>9. CASE LoseFence(w) \/ Crash(w)
  BY <1>9, ReleaseClaims DEF LoseFence, Crash
<1> QED
  BY <1>1, <1>2, <1>3, <1>4, <1>5, <1>6, <1>7, <1>8, <1>9 DEF WorkerStep

LEMMA TimeClaims ==
  ASSUME TypeInv, NEW r \in Runs, NEW t \in StepType,
         LeaseLapses(r, t) \/ BackoffElapses(r, t)
           \/ \E w \in Workers : LateHeartbeat(w, r, t)
  PROVE  /\ UNCHANGED <<pc, claim>>
         /\ \A v \in Workers : Acts(v) => HoldsLease(v, r, t)
<1>1. CASE LeaseLapses(r, t)
  BY <1>1 DEF LeaseLapses, Acts
<1>2. CASE BackoffElapses(r, t)
  BY <1>2 DEF BackoffElapses, Acts, workers
<1>3. ASSUME NEW w \in Workers, LateHeartbeat(w, r, t)
      PROVE  /\ UNCHANGED <<pc, claim>>
             /\ \A v \in Workers : Acts(v) => HoldsLease(v, r, t)
  BY <1>3 DEF LateHeartbeat, Acts, TypeInv, TypeOK, WorkersTypeOK
<1> QED
  BY <1>1, <1>2, <1>3

LEMMA ClientClaims ==
  ASSUME NEW c \in Clients, ClientStep(c)
  PROVE  UNCHANGED <<pc, claim, opened>>
<1>1. CASE SubmitCancel(c) \/ CancelConflict(c) \/ RereadAfterError(c)
             \/ CancelFault(c)
  BY <1>1 DEF SubmitCancel, CancelConflict, RereadAfterError, CancelFault, workers
<1>2. CASE RecordCancelRequested(c) \/ CancelCollect(c)
  BY <1>2 DEF RecordCancelRequested, CancelCollect, workers
<1> QED
  BY <1>1, <1>2 DEF ClientStep

\* In every step either nobody gets a claim or one worker gets a new one.
LEMMA NextClaims ==
  ASSUME TypeInv, [Next]_vars
  PROVE  \/ NobodyClaims
         \/ \E w \in Workers, r \in Runs, t \in StepType : Claims(w, r, t)
<1>1. ASSUME NEW w \in Workers, NEW r \in Runs, NEW t \in StepType, Exhaust(w, r, t)
      PROVE  NobodyClaims
  BY <1>1, SameClaims DEF Exhaust, workers
<1>2. CASE \E w \in Workers : Poll(w)
  BY <1>1, <1>2, LeaseClaims DEF Poll
<1>3. CASE \E w \in Workers :
             WorkerStep(w) \/ PortOutOfScope(w) \/ Fault(w) \/ Crash(w)
  BY <1>3, WorkerClaims
<1>4. CASE \E r \in Runs, t \in StepType :
             LeaseLapses(r, t) \/ BackoffElapses(r, t)
               \/ \E w \in Workers : LateHeartbeat(w, r, t)
  BY <1>4, TimeClaims, SameClaims
<1>5. CASE \E c \in Clients : ClientStep(c)
  BY <1>5, ClientClaims, SameClaims
<1>6. CASE UNCHANGED vars
  BY <1>6, SameClaims DEF vars, workers
<1> QED
  BY <1>2, <1>3, <1>4, <1>5, <1>6 DEF Next

-----------------------------------------------------------------------------
(* One holder of the fence *)

LEMMA LeasesInitially == Init => LeaseInv
BY RowsInitially DEF LeaseInv, ClaimsAreGiven, ClaimsDiffer, Init, Busy

LEMMA ClaimTypes ==
  ASSUME TypeInv, NEW w \in Workers, Busy(w)
  PROVE  /\ claim[w].run \in Runs /\ claim[w].step \in StepType
         /\ claim[w].epoch \in Nat /\ claim[w].epoch > 0
BY DEF TypeInv, MemoryOK, Claim

LEMMA LeasesPreserved == LeaseInv /\ [Next]_vars => LeaseInv'
<1> SUFFICES ASSUME LeaseInv, [Next]_vars
             PROVE  LeaseInv'
  OBVIOUS
<1>1. RowsInv /\ RowsInv' /\ TypeInv /\ TypeInv'
  BY RowsPreserved DEF LeaseInv, RowsInv
<1>2. \A r \in Runs, t \in StepType :
        /\ step[r][t].epoch \in Nat /\ step'[r][t].epoch \in Nat
        /\ step'[r][t].epoch >= step[r][t].epoch
  <2>1. \A r \in Runs : Moved(r) \/ Kept(r)
    BY <1>1, NextMoves DEF Moves
  <2>2. \A r \in Runs, t \in StepType : step'[r][t].epoch \in Nat
    BY <1>1 DEF TypeInv, TypeOK, StoreTypeOK, StepRow
  <2> QED
    BY <1>1, <2>1, <2>2, MovedLegally, RowTypes
<1>3. CASE NobodyClaims
  <2>1. ClaimsAreGiven'
    <3> SUFFICES ASSUME NEW w \in Workers, Busy(w)'
                 PROVE  claim'[w].epoch <= step'[claim'[w].run][claim'[w].step].epoch
      BY DEF ClaimsAreGiven
    <3>1. Busy(w) /\ claim'[w] = claim[w]
      BY <1>3 DEF NobodyClaims
    <3>2. /\ claim[w].run \in Runs /\ claim[w].step \in StepType
          /\ claim[w].epoch \in Nat
      BY <1>1, <3>1, ClaimTypes
    <3>3. claim[w].epoch <= step[claim[w].run][claim[w].step].epoch
      BY <3>1 DEF LeaseInv, ClaimsAreGiven
    <3> QED
      BY <1>2, <3>1, <3>2, <3>3
  <2>2. ClaimsDiffer'
    BY <1>3 DEF NobodyClaims, LeaseInv, ClaimsDiffer
  <2> QED
    BY <1>1, <2>1, <2>2 DEF LeaseInv
<1>4. ASSUME NEW w \in Workers, NEW r \in Runs, NEW t \in StepType, Claims(w, r, t)
      PROVE  LeaseInv'
  <2>1. \A v \in Workers \ {w} :
          Busy(v)' =>
            /\ Busy(v) /\ claim'[v] = claim[v]
            /\ claim[v].run \in Runs /\ claim[v].step \in StepType
            /\ claim[v].epoch \in Nat
            /\ claim[v].epoch <= step[claim[v].run][claim[v].step].epoch
    BY <1>1, <1>4, ClaimTypes DEF Claims, LeaseInv, ClaimsAreGiven
  <2>2. ClaimsAreGiven'
    <3> SUFFICES ASSUME NEW v \in Workers, Busy(v)'
                 PROVE  claim'[v].epoch <= step'[claim'[v].run][claim'[v].step].epoch
      BY DEF ClaimsAreGiven
    <3>1. CASE v = w
      BY <1>2, <1>4, <3>1 DEF Claims
    <3>2. CASE v # w
      BY <1>2, <2>1, <3>2
    <3> QED
      BY <3>1, <3>2
  <2>3. ClaimsDiffer'
    <3>1. \A v \in Workers \ {w} :
            (Busy(v)' /\ claim'[v].run = r /\ claim'[v].step = t)
              => claim'[v].epoch # claim'[w].epoch
      <4> SUFFICES ASSUME NEW v \in Workers \ {w}, Busy(v)',
                          claim'[v].run = r, claim'[v].step = t
                   PROVE  claim'[v].epoch # claim'[w].epoch
        OBVIOUS
      <4>1. claim'[v].epoch \in Nat /\ claim'[v].epoch <= step[r][t].epoch
        BY <2>1
      <4> QED
        BY <1>2, <1>4, <4>1 DEF Claims
    <3>2. claim'[w].run = r /\ claim'[w].step = t
      BY <1>4 DEF Claims
    <3>3. \A u, v \in Workers \ {w} :
            (u # v /\ Busy(u)' /\ Busy(v)'
               /\ claim'[u].run = claim'[v].run /\ claim'[u].step = claim'[v].step)
              => claim'[u].epoch # claim'[v].epoch
      BY <2>1 DEF LeaseInv, ClaimsDiffer
    <3> QED
      BY <3>1, <3>2, <3>3 DEF ClaimsDiffer
  <2> QED
    BY <1>1, <2>2, <2>3 DEF LeaseInv
<1> QED
  BY <1>1, <1>3, <1>4, NextClaims

\* Two workers never both pass the fence of one run: they would remember the
\* epoch that its row carries, and no two workers remember the same one.
THEOREM FencesExclude == Spec => []OneFenceHolder
<1>1. LeaseInv => OneFenceHolder
  <2> SUFFICES ASSUME LeaseInv, NEW v \in Workers, NEW w \in Workers,
                      v # w, FenceHolds(v), FenceHolds(w),
                      claim[v].run = claim[w].run
               PROVE  FALSE
    BY DEF OneFenceHolder
  <2>1. TypeInv
    BY DEF LeaseInv, RowsInv
  <2>2. /\ Busy(v) /\ Busy(w)
        /\ claim[v].step \in StepType /\ claim[w].step \in StepType
        /\ run[claim[v].run].state = ExpectedRunState(claim[v].step)
        /\ run[claim[v].run].state = ExpectedRunState(claim[w].step)
    BY <2>1, FenceMeansClaim
  <2>3. claim[v].step = claim[w].step
    BY <2>2 DEF ExpectedRunState, StepType
  <2>4. claim[v].epoch = claim[w].epoch
    BY <2>3 DEF FenceHolds, HoldsLease
  <2> QED
    BY <2>2, <2>3, <2>4 DEF LeaseInv, ClaimsDiffer
<1> QED
  BY <1>1, LeasesInitially, LeasesPreserved, PTL DEF Spec

-----------------------------------------------------------------------------
(* Stale workers *)

\* In a step that changes the store only workers act that pass their fence,
\* hold a lease or are only now looking for work.
LEMMA WritersHoldFence ==
  ASSUME TypeInv, [Next]_vars
  PROVE  \/ UNCHANGED store
         \/ \A w \in Workers :
              Acts(w) => \/ FenceHolds(w) \/ ~Busy(w)
                         \/ \E r \in Runs, t \in StepType : HoldsLease(w, r, t)
<1>1. CASE \E w \in Workers : Poll(w)
  <2>1. ASSUME NEW w \in Workers, NEW r \in Runs, NEW t \in StepType,
               Exhaust(w, r, t)
        PROVE  \A v \in Workers : ~Acts(v)
    BY <2>1 DEF Exhaust, Acts, workers
  <2>2. ASSUME NEW w \in Workers, NEW r \in Runs, NEW t \in StepType,
               Lease(w, r, t)
        PROVE  ~Busy(w)
    BY <2>2 DEF Lease, Busy
  <2> QED
    BY <1>1, <2>1, <2>2, LeaseClaims DEF Poll
<1>2. CASE \E w \in Workers :
             WorkerStep(w) \/ PortOutOfScope(w) \/ Fault(w) \/ Crash(w)
  BY <1>2, WorkerClaims
<1>3. CASE \E r \in Runs, t \in StepType :
             LeaseLapses(r, t) \/ BackoffElapses(r, t)
               \/ \E w \in Workers : LateHeartbeat(w, r, t)
  BY <1>3, TimeClaims
<1>4. CASE \E c \in Clients : ClientStep(c)
  BY <1>4, ClientClaims DEF Acts
<1>5. CASE UNCHANGED vars
  BY <1>5 DEF vars
<1> QED
  BY <1>1, <1>2, <1>3, <1>4, <1>5 DEF Next

\* A worker whose lease was recovered, cancelled or completed changes nothing
\* in the database, by a step of the handler or by a late heartbeat.
THEOREM StaleWorkersAreHarmless == Spec => StaleWorkerWritesNothing
<1> DEFINE Harmless ==
      \A w \in Workers : (Outdated(w) /\ Acts(w)) => UNCHANGED store
<1>1. TypeInv /\ [Next]_vars => Harmless
  <2> SUFFICES ASSUME TypeInv, [Next]_vars, NEW w \in Workers,
                      Outdated(w), Acts(w)
               PROVE  UNCHANGED store
    OBVIOUS
  <2>1. /\ Busy(w) /\ ~FenceHolds(w)
        /\ \A r \in Runs, t \in StepType : ~HoldsLease(w, r, t)
    BY DEF Outdated, FenceHolds, HoldsLease
  <2> QED
    BY <2>1, WritersHoldFence
<1>2. TypeInv /\ [Next]_vars => [Harmless]_vars
  BY <1>1
<1> QED
  BY <1>2, TypeInvariant, PTL DEF Spec, StaleWorkerWritesNothing

-----------------------------------------------------------------------------
(* Cancel requests *)

CanStillBeCollected(r) == run[r].state \in {"queued", "collecting"}

\* A cancelled run carries the request that cancelled it.
CancelledOnRequest ==
  \A r \in Runs : run[r].state = "cancelled" => run[r].cancelRequested

\* What is known of one request: if it was decided for a run seen evaluating
\* or ended, that run will never be collected again.
RequestOK(c) ==
  /\ (cancel[c].at = "decided" /\ ~SawCancellable(c))
        => ~CanStillBeCollected(Target[c])
  /\ (c \in receipts \/ cancel[c].at = "answered")
        => run[Target[c]].cancelRequested
  /\ (cancel[c].at = "answered" /\ SawCancellable(c))
        => run[Target[c]].state = "cancelled"

CancelInv ==
  /\ RowsInv
  /\ CollectableRunsAreClaimable
  /\ CancelledOnRequest
  /\ \A c \in Clients : RequestOK(c)

LEMMA CancelInitially == Init => CancelInv
BY RowsInitially
DEF CancelInv, Init, CollectableRunsAreClaimable, CancelledOnRequest,
    RequestOK, CanStillBeCollected, SawCancellable

\* What a move does to the cancellation of its run.
LEMMA MovedRequest ==
  ASSUME CancelInv, NEW r \in Runs, Moved(r) \/ Kept(r)
  PROVE  /\ CanStillBeCollected(r)' => CanStillBeCollected(r)
         /\ CanStillBeCollected(r)' => ~run'[r].cancelRequested
         /\ run[r].cancelRequested => run'[r].cancelRequested
         /\ run[r].state = "cancelled" => run'[r].state = "cancelled"
         /\ run'[r].state = "cancelled" => run'[r].cancelRequested
<1>1. /\ <<run[r].state, step[r]["collect"].state, step[r]["evaluate"].state>>
           \in FittingStates
      /\ CanStillBeCollected(r) => ~run[r].cancelRequested
      /\ run[r].state = "cancelled" => run[r].cancelRequested
      /\ run[r].cancelRequested \in BOOLEAN
  BY RowTypes
  DEF CancelInv, RowsInv, StepsFitRun, CollectableRunsAreClaimable,
      CancelledOnRequest, CanStillBeCollected, RunRow
<1>2. CASE Kept(r) \/ Observed(r) \/ Retried(r)
  BY <1>1, <1>2 DEF Kept, Observed, Retried, CanStillBeCollected
<1>3. CASE CancelRequested(r)
  <2>1. ~CanStillBeCollected(r)
    BY <1>3 DEF CancelRequested, CancelInv, RequestOK
  <2> QED
    BY <1>1, <1>3, <2>1 DEF CancelRequested, Marked, CanStillBeCollected
<1>4. CASE Leased(r)
  BY <1>1, <1>4 DEF Leased, IsFirstClaim, CanStillBeCollected
<1>5. CASE Completed(r)
  BY <1>1, <1>5 DEF Completed, InState, CanStillBeCollected
<1>6. CASE Concluded(r)
  BY <1>1, <1>6, OutcomeType DEF Concluded, EndsIn, CanStillBeCollected
<1>7. CASE Failed(r)
  BY <1>1, <1>7 DEF Failed, Claimable, StepIsClaimable, ExpectedRunState,
                    EndsIn, CanStillBeCollected
<1>8. CASE Cancelled(r)
  BY <1>1, <1>8 DEF Cancelled, Cancellable, EndsIn, CanStillBeCollected
<1> QED
  BY <1>2, <1>3, <1>4, <1>5, <1>6, <1>7, <1>8 DEF Moved

\* A request settles in one place and remembers what it saw if it is answered.
LEMMA SettleFields ==
  ASSUME TypeInv, NEW c \in Clients, NEW at, Settle(c, at)
  PROVE  /\ cancel'[c].at = at
         /\ at \notin Unanswered => cancel'[c].saw = cancel[c].saw
         /\ \A d \in Clients \ {c} : cancel'[d] = cancel[d]
<1> DEFINE row == [at  |-> at,
                   saw |-> IF at \in Unanswered THEN "queued"
                                                ELSE cancel[c].saw]
<1>1. row.at = at /\ (at \notin Unanswered => row.saw = cancel[c].saw)
  OBVIOUS
<1>2. cancel' = [cancel EXCEPT ![c] = row]
  BY DEF Settle, TypeInv, TypeOK, ClientsTypeOK
<1> HIDE DEF row
<1> QED
  BY <1>1, <1>2 DEF TypeInv, TypeOK, ClientsTypeOK

\* A step of one request leaves the others alone and keeps what is known of it.
LEMMA ClientKeeps ==
  ASSUME CancelInv, TypeInv', NEW c \in Clients, ClientStep(c),
         \A r \in Runs : Moved(r) \/ Kept(r)
  PROVE  /\ RequestOK(c)'
         /\ \A d \in Clients \ {c} :
              cancel'[d] = cancel[d] /\ (d \in receipts' => d \in receipts)
<1> DEFINE r == Target[c]
<1>1. /\ TypeInv /\ r \in Runs /\ RequestOK(c)
      /\ run[r].state = "cancelled" => run[r].cancelRequested
  BY RunsAssumption DEF CancelInv, RowsInv, CancelledOnRequest
<1>2. /\ run[r].cancelRequested => run'[r].cancelRequested
      /\ run[r].state = "cancelled" => run'[r].state = "cancelled"
      /\ run'[r].state = "cancelled" => run'[r].cancelRequested
  BY <1>1, MovedRequest
<1>3. CASE SubmitCancel(c)
  <2>1. CanStillBeCollected(r) => ~run[r].cancelRequested
    BY <1>1 DEF CancelInv, CollectableRunsAreClaimable, CanStillBeCollected
  <2>2. /\ cancel'[c].at = IF c \in receipts THEN "answered" ELSE "decided"
        /\ cancel'[c].saw = run[r].state
        /\ \A d \in Clients \ {c} : cancel'[d] = cancel[d]
        /\ run' = run /\ receipts' = receipts
    BY <1>3 DEF SubmitCancel, store, TypeInv, TypeOK, ClientsTypeOK, CancelInv,
                RowsInv
  <2> QED
    BY <1>1, <2>1, <2>2 DEF RequestOK, SawCancellable, CanStillBeCollected
<1>4. CASE RecordCancelRequested(c)
  <2>1. PICK at \in {"answered", "unavailable"} : Settle(c, at)
    BY <1>4 DEF RecordCancelRequested
  <2>2. run'[r].cancelRequested
    <3>1. run' = [run EXCEPT ![r] = [run[r] EXCEPT !.cancelRequested = TRUE]]
      BY <1>1, <1>4 DEF RecordCancelRequested, TypeInv, TypeOK, StoreTypeOK
    <3>2. [run[r] EXCEPT !.cancelRequested = TRUE].cancelRequested
      BY <1>1 DEF TypeInv, TypeOK, StoreTypeOK, RunRow
    <3> QED
      BY <1>1, <3>1, <3>2, RunOverwritten
  <2>3. receipts' = receipts \cup {c} /\ ~SawCancellable(c)
    BY <1>4 DEF RecordCancelRequested
  <2> QED
    BY <1>1, <2>1, <2>2, <2>3, SettleFields DEF RequestOK, Unanswered, SawCancellable
<1>5. CASE CancelCollect(c)
  <2>1. PICK at \in {"answered", "unsure"} : Settle(c, at)
    BY <1>5 DEF CancelCollect
  <2>2. run'[r].state = "cancelled"
    <3> DEFINE a == [Over(run[r], "cancelled") EXCEPT !.cancelRequested = TRUE]
    <3>1. a.state = "cancelled"
      BY <1>1 DEF TypeInv, TypeOK, StoreTypeOK, RunRow, Over
    <3>2. \/ run[r].state = "cancelled" /\ run' = run
          \/ run' = [run EXCEPT ![r] = a]
      BY <1>1, <1>5
      DEF CancelCollect, CancelStands, TypeInv, TypeOK, StoreTypeOK
    <3> HIDE DEF a
    <3> QED
      BY <1>1, <3>1, <3>2, RunOverwritten
  <2>3. receipts' = receipts \cup {c}
    BY <1>5 DEF CancelCollect
  <2> QED
    BY <1>1, <1>2, <2>1, <2>2, <2>3, SettleFields DEF RequestOK, Unanswered
<1>6. CASE CancelConflict(c) \/ CancelFault(c)
  <2>1. PICK at \in {"conflicted", "unsure", "unavailable"} : Settle(c, at)
    BY <1>6 DEF CancelConflict, CancelFault
  <2>2. UNCHANGED <<run, receipts>>
    BY <1>6 DEF CancelConflict, CancelFault, store
  <2> QED
    BY <1>1, <2>1, <2>2, SettleFields DEF RequestOK, Unanswered
<1>7. CASE RereadAfterError(c)
  <2>1. PICK at \in {"answered", "refused", "unavailable"} :
          /\ Settle(c, at)
          /\ \/ CancelStands(r) /\ receipts' = receipts \cup {c}
             \/ at # "answered" /\ UNCHANGED receipts
    BY <1>7 DEF RereadAfterError
  <2>2. UNCHANGED run
    BY <1>7 DEF RereadAfterError, store
  <2> QED
    BY <1>1, <2>1, <2>2, SettleFields DEF RequestOK, Unanswered, CancelStands
<1> QED
  BY <1>3, <1>4, <1>5, <1>6, <1>7 DEF ClientStep

\* Whoever is not a client leaves the requests alone.
LEMMA OthersKeepRequests ==
  ASSUME [Next]_vars
  PROVE  UNCHANGED clients \/ \E c \in Clients : ClientStep(c)
<1>1. ASSUME NEW w \in Workers, Poll(w) PROVE UNCHANGED clients
  BY <1>1 DEF Poll, Lease, Exhaust
<1>2. ASSUME NEW w \in Workers, WorkerStep(w) PROVE UNCHANGED clients
  <2>1. CASE FailClaimedStep(w) \/ GiveUp(w)
    BY <2>1 DEF FailClaimedStep, GiveUp, FailStep
  <2>2. CASE VerifyScope(w) \/ CollectInventory(w) \/ CollectTelemetry(w)
    BY <2>2 DEF VerifyScope, CollectInventory, CollectTelemetry
  <2>3. CASE PersistObservation(w)
    BY <2>3 DEF PersistObservation
  <2>4. CASE CompleteCollect(w) \/ Conclude(w)
    BY <2>4 DEF CompleteCollect, Conclude
  <2>5. CASE EnsureStillLeased(w) \/ ReadAndEvaluate(w)
    BY <2>5 DEF EnsureStillLeased, ReadAndEvaluate
  <2>6. CASE ScheduleRetry(w) \/ LoseFence(w)
    BY <2>6 DEF ScheduleRetry, LoseFence
  <2> QED
    BY <1>2, <2>1, <2>2, <2>3, <2>4, <2>5, <2>6 DEF WorkerStep
<1>3. ASSUME NEW w \in Workers, PortOutOfScope(w) \/ Fault(w) \/ Crash(w)
      PROVE  UNCHANGED clients
  BY <1>3 DEF PortOutOfScope, Fault, Crash
<1>4. ASSUME NEW r \in Runs, NEW t \in StepType,
             LeaseLapses(r, t) \/ BackoffElapses(r, t)
               \/ \E w \in Workers : LateHeartbeat(w, r, t)
      PROVE  UNCHANGED clients
  BY <1>4 DEF LeaseLapses, BackoffElapses, LateHeartbeat
<1> QED
  BY <1>1, <1>2, <1>3, <1>4 DEF Next, vars

LEMMA CancelPreserved == CancelInv /\ [Next]_vars => CancelInv'
<1> SUFFICES ASSUME CancelInv, [Next]_vars
             PROVE  CancelInv'
  OBVIOUS
<1>1. RowsInv' /\ TypeInv' /\ Moves
  BY RowsPreserved, NextMoves DEF CancelInv, RowsInv
<1>2. \A r \in Runs : Moved(r) \/ Kept(r)
  BY <1>1 DEF Moves
<1>3. CollectableRunsAreClaimable' /\ CancelledOnRequest'
  BY <1>2, MovedRequest
  DEF CollectableRunsAreClaimable, CancelledOnRequest, CanStillBeCollected
<1>4. ASSUME NEW d \in Clients, cancel'[d] = cancel[d],
             d \in receipts' => d \in receipts
      PROVE  RequestOK(d)'
  <2>1. Target[d] \in Runs /\ RequestOK(d)
    BY RunsAssumption DEF CancelInv
  <2> QED
    BY <1>2, <1>4, <2>1, MovedRequest DEF RequestOK, SawCancellable
<1>5. \A c \in Clients : RequestOK(c)'
  BY <1>1, <1>2, <1>4, OthersKeepRequests, ClientKeeps DEF clients
<1> QED
  BY <1>1, <1>3, <1>5 DEF CancelInv

\* A run that still has to be collected never carries a cancel request, so
\* claimWork, which would refuse it, never leaves it waiting for ever.
THEOREM CollectableIsClaimable == Spec => []CollectableRunsAreClaimable
<1> QED
  BY CancelInitially, CancelPreserved, PTL DEF Spec, CancelInv

\* A cancel request that was answered is on record in the run, and one that
\* was decided while the run could still be cancelled did cancel it.
THEOREM AnsweredMeansDone == Spec => []AnsweredCancelTookEffect
<1>1. CancelInv => AnsweredCancelTookEffect
  BY DEF CancelInv, RequestOK, AnsweredCancelTookEffect
<1> QED
  BY <1>1, CancelInitially, CancelPreserved, PTL DEF Spec

-----------------------------------------------------------------------------
(* Verdicts *)

\* A worker that evaluates found the evidence of its run frozen; what it is
\* about to conclude is the verdict of that evidence.
DrawnFromEvidence ==
  \A w \in Workers :
    /\ (Busy(w) /\ claim[w].step = "evaluate")
         => ~CanStillBeCollected(claim[w].run)
    /\ pc[w] = "conclude" =>
         /\ observations[claim[w].run] # << >>
         /\ drawn[w] = Verdict(observations[claim[w].run])

EvidenceInv == CancelInv /\ VerdictMatchesEvidence /\ DrawnFromEvidence

\* Every finding of a verdict on some evidence cites some of it.
LEMMA FindingsCite ==
  ASSUME NEW evidence \in Seq(Observation), evidence # << >>
  PROVE  \A f \in Verdict(evidence) : f.cites # {}
<1> SUFFICES ASSUME NEW d \in Detectors
             PROVE  Cited(d, evidence) # {}
  BY DEF Verdict, FindingOf
<1>1. 1 \in DOMAIN evidence
  OBVIOUS
<1> QED
  BY <1>1 DEF Cited

Remembers(w) ==
  pc'[w] = pc[w] /\ claim'[w] = claim[w] /\ drawn'[w] = drawn[w]

\* A worker computes its verdict from the observations it reads.
Draws(w) ==
  /\ pc[w] = "read" /\ claim'[w] = claim[w]
  /\ observations[claim[w].run] # << >>
  /\ drawn'[w] = Verdict(observations[claim[w].run])

LEMMA ReleaseDraws ==
  ASSUME TypeInv, NEW w \in Workers, Release(w)
  PROVE  pc'[w] = "idle" /\ \A v \in Workers \ {w} : Remembers(v)
BY DEF Release, Remembers, TypeInv, TypeOK, WorkersTypeOK

LEMMA ProceedDraws ==
  ASSUME TypeInv, NEW w \in Workers, NEW point, NEW items, NEW outputs,
         Proceed(w, point, items, outputs)
  PROVE  /\ pc'[w] = point /\ claim'[w] = claim[w] /\ drawn'[w] = outputs
         /\ \A v \in Workers \ {w} : Remembers(v)
BY DEF Proceed, Remembers, TypeInv, TypeOK, WorkersTypeOK

LEMMA AdvanceDraws ==
  ASSUME TypeInv, NEW w \in Workers, NEW point, Advance(w, point)
  PROVE  pc'[w] = point /\ \A v \in Workers \ {w} : Remembers(v)
BY ProceedDraws DEF Advance

\* A worker's own step takes it to the conclusion only by drawing it.
LEMMA WorkerDraws ==
  ASSUME TypeInv, NEW w \in Workers,
         WorkerStep(w) \/ PortOutOfScope(w) \/ Fault(w) \/ Crash(w)
  PROVE  /\ pc'[w] = "conclude" => Draws(w)
         /\ \A v \in Workers \ {w} : Remembers(v)
<1>1. CASE VerifyScope(w) \/ EnsureStillLeased(w) \/ PortOutOfScope(w) \/ Fault(w)
  <2>1. \E point \in {"fail", "inventory", "telemetry", "retry"} : Advance(w, point)
    BY <1>1 DEF VerifyScope, EnsureStillLeased, PortOutOfScope, Fault
  <2> QED
    BY <2>1, AdvanceDraws
<1>2. CASE CollectInventory(w) \/ CollectTelemetry(w)
  <2>1. \E items, point : Collected(w, items, point)
                            /\ point \in {"persistInventory", "persistTelemetry"}
    BY <1>2 DEF CollectInventory, CollectTelemetry
  <2> QED
    BY <2>1, ProceedDraws DEF Collected, AfterPersist
<1>3. CASE PersistObservation(w)
  <2>1. CASE Advance(w, "retry")
    BY <2>1, AdvanceDraws
  <2>2. CASE \E items :
             \E point \in {"recheck", "complete", "persistInventory",
                          "persistTelemetry"} : Proceed(w, point, items, {})
    BY <2>2, ProceedDraws
  <2> QED
    BY <1>3, <2>1, <2>2 DEF PersistObservation, AfterPersist
<1>4. CASE CompleteCollect(w) \/ Conclude(w)
  <2>1. Release(w) \/ Advance(w, "retry")
    BY <1>4 DEF CompleteCollect, Conclude
  <2> QED
    BY <2>1, ReleaseDraws, AdvanceDraws
<1>5. CASE ReadAndEvaluate(w)
  <2>1. \/ Advance(w, "fail") \/ Advance(w, "retry")
        \/ /\ pc[w] = "read" /\ EvidenceRead(w) # << >>
           /\ Proceed(w, "conclude", << >>, Verdict(EvidenceRead(w)))
    BY <1>5 DEF ReadAndEvaluate
  <2> QED
    BY <2>1, ProceedDraws, AdvanceDraws DEF EvidenceRead, Draws
<1>6. CASE FailClaimedStep(w) \/ GiveUp(w)
  BY <1>6, ReleaseDraws DEF FailClaimedStep, GiveUp, FailStep
<1>7. CASE ScheduleRetry(w) \/ LoseFence(w) \/ Crash(w)
  BY <1>7, ReleaseDraws DEF ScheduleRetry, LoseFence, Crash
<1> QED
  BY <1>1, <1>2, <1>3, <1>4, <1>5, <1>6, <1>7 DEF WorkerStep

\* In every step a worker that ends up concluding was there or drew a verdict.
LEMMA NextDraws ==
  ASSUME TypeInv, [Next]_vars, NEW w \in Workers, pc'[w] = "conclude"
  PROVE  Remembers(w) \/ Draws(w)
<1>1. ASSUME NEW v \in Workers, NEW r \in Runs, NEW t \in StepType, Lease(v, r, t)
      PROVE  Remembers(w)
  <2>1. drawn' = drawn
    BY <1>1 DEF Lease
  <2>2. w # v
    BY <1>1 DEF Lease, TypeInv, TypeOK, WorkersTypeOK
  <2> QED
    BY <1>1, <2>1, <2>2, LeaseClaims DEF Claims, Acts, Remembers
<1>2. ASSUME NEW v \in Workers, NEW r \in Runs, NEW t \in StepType, Exhaust(v, r, t)
      PROVE  Remembers(w)
  BY <1>2 DEF Exhaust, workers, Remembers
<1>3. ASSUME NEW v \in Workers,
             WorkerStep(v) \/ PortOutOfScope(v) \/ Fault(v) \/ Crash(v)
      PROVE  Remembers(w) \/ Draws(w)
  BY <1>3, WorkerDraws
<1>4. ASSUME NEW r \in Runs, NEW t \in StepType,
             LeaseLapses(r, t) \/ BackoffElapses(r, t)
               \/ \E v \in Workers : LateHeartbeat(v, r, t)
      PROVE  Remembers(w)
  BY <1>4 DEF LeaseLapses, BackoffElapses, LateHeartbeat, workers, Remembers
<1>5. ASSUME NEW c \in Clients, ClientStep(c) PROVE Remembers(w)
  <2>1. UNCHANGED workers
    <3>1. CASE RecordCancelRequested(c) \/ CancelCollect(c)
      BY <3>1 DEF RecordCancelRequested, CancelCollect
    <3>2. CASE \/ SubmitCancel(c) \/ CancelConflict(c) \/ RereadAfterError(c)
               \/ CancelFault(c)
      BY <3>2 DEF SubmitCancel, CancelConflict, RereadAfterError, CancelFault
    <3> QED
      BY <1>5, <3>1, <3>2 DEF ClientStep
  <2> QED
    BY <2>1 DEF workers, Remembers
<1>6. CASE UNCHANGED vars
  BY <1>6 DEF vars, workers, Remembers
<1> QED
  BY <1>1, <1>2, <1>3, <1>4, <1>5, <1>6 DEF Next, Poll

LEMMA EvidenceInitially == Init => EvidenceInv
BY CancelInitially
DEF EvidenceInv, Init, VerdictMatchesEvidence, DrawnFromEvidence, Busy

RunVerdict(r) ==
  LET due == run[r].state \in {"healthy", "findings"}
  IN  /\ findings[r] = IF due THEN Verdict(observations[r]) ELSE {}
      /\ due => run[r].result = SummariseResults(Results(findings[r]))
      /\ \A f \in findings[r] : f.cites # {}

\* What a move does to the verdict and to the evidence of its run.
LEMMA MovedVerdict ==
  ASSUME EvidenceInv, NEW r \in Runs, Moved(r) \/ Kept(r)
  PROVE  /\ RunVerdict(r)'
         /\ ~CanStillBeCollected(r) => observations'[r] = observations[r]
<1>1. /\ <<run[r].state, step[r]["collect"].state, step[r]["evaluate"].state>>
           \in FittingStates
      /\ observations[r] \in Seq(Observation)
  BY DEF EvidenceInv, CancelInv, RowsInv, StepsFitRun, TypeInv, TypeOK, StoreTypeOK
<1>2. RunVerdict(r)
  BY DEF EvidenceInv, VerdictMatchesEvidence, RunVerdict
<1>3. CASE Kept(r)
  BY <1>2, <1>3 DEF Kept, SameEvidence, RunVerdict
<1>4. CASE Leased(r)
  BY <1>2, <1>4 DEF Leased, IsFirstClaim, SameEvidence, RunVerdict
<1>5. CASE Observed(r)
  BY <1>2, <1>5 DEF Observed, CanStillBeCollected, RunVerdict
<1>6. CASE Completed(r)
  BY <1>2, <1>6 DEF Completed, InState, SameEvidence, RunVerdict
<1>7. CASE Concluded(r)
  <2>1. PICK w \in Workers :
          /\ pc[w] = "conclude" /\ claim[w].run = r
          /\ run[r].state = "evaluating"
          /\ run'[r].state = TerminalStateForResults(Results(drawn[w]))
          /\ run'[r].result = SummariseResults(Results(drawn[w]))
          /\ findings'[r] = findings[r] \cup drawn[w]
          /\ observations'[r] = observations[r]
    BY <1>7 DEF Concluded, EndsIn
  <2>2. drawn[w] = Verdict(observations[r]) /\ observations[r] # << >>
    BY <2>1 DEF EvidenceInv, DrawnFromEvidence
  <2>3. findings'[r] = Verdict(observations[r])
    BY <1>2, <2>1, <2>2 DEF RunVerdict
  <2>4. \A f \in findings'[r] : f.cites # {}
    BY <1>1, <2>2, <2>3, FindingsCite
  <2>5. run'[r].state \in {"healthy", "findings"}
    BY <2>1, OutcomeType
  <2> QED
    BY <2>1, <2>2, <2>3, <2>4, <2>5 DEF RunVerdict
<1>8. CASE Failed(r)
  <2>1. run[r].state \in {"queued", "collecting", "evaluating"}
    BY <1>8 DEF Failed, Claimable, StepIsClaimable, ExpectedRunState
  <2> QED
    BY <1>2, <1>8, <2>1 DEF Failed, EndsIn, SameEvidence, RunVerdict
<1>9. CASE Retried(r) \/ CancelRequested(r)
  BY <1>2, <1>9 DEF Retried, CancelRequested, Marked, SameEvidence, RunVerdict
<1>10. CASE Cancelled(r)
  BY <1>2, <1>10 DEF Cancelled, Cancellable, EndsIn, SameEvidence, RunVerdict
<1> QED
  BY <1>3, <1>4, <1>5, <1>6, <1>7, <1>8, <1>9, <1>10 DEF Moved

LEMMA EvidencePreserved == EvidenceInv /\ [Next]_vars => EvidenceInv'
<1> SUFFICES ASSUME EvidenceInv, [Next]_vars
             PROVE  EvidenceInv'
  OBVIOUS
<1>1. CancelInv /\ CancelInv' /\ TypeInv /\ TypeInv' /\ Moves
  BY CancelPreserved, NextMoves DEF EvidenceInv, CancelInv, RowsInv
<1>2. \A r \in Runs : Moved(r) \/ Kept(r)
  BY <1>1 DEF Moves
<1>3. VerdictMatchesEvidence'
  BY <1>2, MovedVerdict DEF VerdictMatchesEvidence, RunVerdict
<1>4. ASSUME NEW w \in Workers, Busy(w)', claim'[w].step = "evaluate"
      PROVE  run'[claim'[w].run].state \notin {"queued", "collecting"}
  <2>1. claim'[w].run \in Runs
    BY <1>1, <1>4 DEF TypeInv, MemoryOK, Claim
  <2>2. ~CanStillBeCollected(claim'[w].run)
    <3>1. CASE NobodyClaims
      BY <1>4, <3>1 DEF NobodyClaims, EvidenceInv, DrawnFromEvidence
    <3>2. ASSUME NEW v \in Workers, NEW r \in Runs, NEW t \in StepType,
                 Claims(v, r, t)
          PROVE  ~CanStillBeCollected(claim'[w].run)
      <4>1. CASE v = w
        BY <1>4, <3>2, <4>1
        DEF Claims, Lease, Claimable, StepIsClaimable, CanStillBeCollected
      <4>2. CASE v # w
        BY <1>4, <3>2, <4>2 DEF Claims, EvidenceInv, DrawnFromEvidence
      <4> QED
        BY <4>1, <4>2
    <3> QED
      BY <1>1, <3>1, <3>2, NextClaims
  <2>3. \A r \in Runs :
          run'[r].state \in {"queued", "collecting"} => CanStillBeCollected(r)
    BY <1>1, <1>2, MovedRequest DEF CanStillBeCollected
  <2> QED
    BY <2>1, <2>2, <2>3
<1>5. ASSUME NEW w \in Workers, pc'[w] = "conclude"
      PROVE  /\ observations'[claim'[w].run] # << >>
             /\ drawn'[w] = Verdict(observations'[claim'[w].run])
  <2>1. Remembers(w) \/ Draws(w)
    BY <1>1, <1>5, NextDraws
  <2>2. /\ claim'[w] = claim[w] /\ Busy(w) /\ claim[w].step = "evaluate"
        /\ claim[w].run \in Runs
    BY <1>1, <1>5, <2>1 DEF Remembers, Draws, Busy, TypeInv, MemoryOK, Claim
  <2>3. observations'[claim[w].run] = observations[claim[w].run]
    BY <1>2, <2>2, MovedVerdict DEF EvidenceInv, DrawnFromEvidence
  <2> QED
    BY <1>5, <2>1, <2>2, <2>3 DEF Remembers, Draws, EvidenceInv, DrawnFromEvidence
<1>6. DrawnFromEvidence'
  BY <1>4, <1>5 DEF DrawnFromEvidence, CanStillBeCollected
<1> QED
  BY <1>1, <1>3, <1>6 DEF EvidenceInv

\* The findings and the result of a run are the verdict of the evidence on
\* record, although the worker computed them from a copy that it read outside
\* any transaction and without the fence.
THEOREM VerdictsAreOfTheEvidence == Spec => []VerdictMatchesEvidence
<1> QED
  BY EvidenceInitially, EvidencePreserved, PTL DEF Spec, EvidenceInv

-----------------------------------------------------------------------------
(* The abstract life of a run *)

States == [r \in Runs |-> run[r].state]

\* The two functions of evidence and verdicts when nobody but r moves.
LEMMA OneRunMoves ==
  ASSUME TypeInv, TypeInv', NEW r \in Runs, \A q \in Runs \ {r} : Kept(q)
  PROVE  /\ States' = [States EXCEPT ![r] = run'[r].state]
         /\ States[r] = run[r].state
         /\ observations' = [observations EXCEPT ![r] = observations'[r]]
         /\ findings' = [findings EXCEPT ![r] = findings'[r]]
<1>1. /\ States' = [States EXCEPT ![r] = run'[r].state]
      /\ States[r] = run[r].state
  BY DEF States, Kept
<1>2. \A q \in Runs \ {r} :
        observations'[q] = observations[q] /\ findings'[q] = findings[q]
  BY DEF Kept, SameEvidence
<1>3. /\ observations \in [Runs -> Seq(Observation)]
      /\ observations' \in [Runs -> Seq(Observation)]
      /\ findings \in [Runs -> SUBSET Finding]
      /\ findings' \in [Runs -> SUBSET Finding]
  BY DEF TypeInv, TypeOK, StoreTypeOK
<1>4. observations' = [observations EXCEPT ![r] = observations'[r]]
  BY <1>2, <1>3
<1>5. findings' = [findings EXCEPT ![r] = findings'[r]]
  BY <1>2, <1>3
<1> QED
  BY <1>1, <1>4, <1>5

\* A move that leaves the evidence and the findings of the run alone.
LEMMA StateMoves ==
  ASSUME TypeInv, TypeInv', NEW r \in Runs, SameEvidence(r),
         \A q \in Runs \ {r} : Kept(q)
  PROVE  /\ States' = [States EXCEPT ![r] = run'[r].state]
         /\ States[r] = run[r].state
         /\ observations' = observations /\ findings' = findings
         /\ run'[r].state = run[r].state => States' = States
<1>1. /\ States' = [States EXCEPT ![r] = run'[r].state]
      /\ States[r] = run[r].state
      /\ observations' = [observations EXCEPT ![r] = observations[r]]
      /\ findings' = [findings EXCEPT ![r] = findings[r]]
  BY OneRunMoves DEF SameEvidence
<1> QED
  BY <1>1 DEF TypeInv, TypeOK, StoreTypeOK, States

\* RunLifecycle speaks of the same observations and verdicts.
LEMMA SameVocabulary ==
  /\ Lifecycle!Observation = Observation
  /\ \A o, evidence : Lifecycle!Recorded(o, evidence) <=> Recorded(o, evidence)
  /\ \A evidence : Lifecycle!Verdict(evidence) = Verdict(evidence)
  /\ \A verdict :
       Lifecycle!TerminalStateForResults(Lifecycle!Results(verdict))
         = TerminalStateForResults(Results(verdict))
<1>1. /\ Lifecycle!Observation = Observation
      /\ \A o, evidence : Lifecycle!Recorded(o, evidence) <=> Recorded(o, evidence)
  BY DEF Lifecycle!Observation, Lifecycle!Content, Lifecycle!Recorded,
         Lifecycle!SameContent, Observation, Content, Recorded, SameContent
<1>2. \A evidence : Lifecycle!Verdict(evidence) = Verdict(evidence)
  BY DEF Lifecycle!Verdict, Lifecycle!FindingOf, Lifecycle!DetectorResult,
         Lifecycle!Cited, Lifecycle!Needed, Lifecycle!Earliest,
         Verdict, FindingOf, DetectorResult, Cited, Needed, Earliest
<1>3. \A verdict :
        Lifecycle!TerminalStateForResults(Lifecycle!Results(verdict))
          = TerminalStateForResults(Results(verdict))
  BY DEF Lifecycle!TerminalStateForResults, Lifecycle!Results,
         Lifecycle!SummariseResults, TerminalStateForResults, Results,
         SummariseResults
<1> QED
  BY <1>1, <1>2, <1>3

LEMMA MovesLifecycle ==
  ASSUME EvidenceInv, TypeInv', Moves
  PROVE  [Lifecycle!Next]_(Lifecycle!vars)
<1>1. TypeInv /\ RowsInv
  BY DEF EvidenceInv, CancelInv, RowsInv
<1>2. CASE \A r \in Runs : Kept(r)
  <2>1. States' = States
    BY <1>2 DEF States, Kept
  <2>2. observations' = observations /\ findings' = findings
    BY <1>1, <1>2 DEF Kept, SameEvidence, TypeInv, TypeOK, StoreTypeOK
  <2> QED
    BY <2>1, <2>2 DEF States, Lifecycle!vars
<1>3. ASSUME NEW r \in Runs, Moved(r), \A q \in Runs \ {r} : Kept(q)
      PROVE  [Lifecycle!Next]_(Lifecycle!vars)
  <2>1. <<run[r].state, step[r]["collect"].state, step[r]["evaluate"].state>>
          \in FittingStates
    BY <1>1 DEF RowsInv, StepsFitRun
  <2>2. CASE Observed(r)
    <3>1. PICK o \in Observation :
            /\ ~Recorded(o, observations[r])
            /\ observations'[r] = Append(observations[r], o)
      BY <2>2 DEF Observed
    <3>2. /\ run[r].state = "collecting" /\ run'[r].state = run[r].state
          /\ findings'[r] = findings[r]
      BY <2>2 DEF Observed
    <3>3. /\ observations' = [observations EXCEPT ![r] = Append(observations[r], o)]
          /\ findings' = [findings EXCEPT ![r] = findings[r]]
          /\ States' = [States EXCEPT ![r] = States[r]]
          /\ States[r] = "collecting"
      BY <1>1, <1>3, <3>1, <3>2, OneRunMoves
    <3>4. findings' = findings /\ States' = States
      BY <1>1, <3>3 DEF TypeInv, TypeOK, StoreTypeOK, States
    <3>5. Lifecycle!Observe(r, o)
      BY <3>1, <3>3, <3>4, SameVocabulary DEF Lifecycle!Observe, States
    <3> QED
      BY <3>5, SameVocabulary DEF Lifecycle!Next
  <2>3. CASE Concluded(r)
    <3>1. PICK w \in Workers :
            /\ pc[w] = "conclude" /\ claim[w].run = r
            /\ run[r].state = "evaluating"
            /\ run'[r].state = TerminalStateForResults(Results(drawn[w]))
            /\ findings'[r] = findings[r] \cup drawn[w]
            /\ observations'[r] = observations[r]
      BY <2>3 DEF Concluded, EndsIn
    <3>2. drawn[w] = Verdict(observations[r]) /\ observations[r] # << >>
      BY <3>1 DEF EvidenceInv, DrawnFromEvidence
    <3>3. findings[r] = {}
      BY <3>1 DEF EvidenceInv, VerdictMatchesEvidence
    <3>4. /\ findings' = [findings EXCEPT ![r] = Verdict(observations[r])]
          /\ observations' = [observations EXCEPT ![r] = observations[r]]
          /\ States' = [States EXCEPT ![r] =
                          TerminalStateForResults(Results(Verdict(observations[r])))]
          /\ States[r] = "evaluating"
      BY <1>1, <1>3, <3>1, <3>2, <3>3, OneRunMoves
    <3>5. observations' = observations
      BY <1>1, <3>4 DEF TypeInv, TypeOK, StoreTypeOK
    <3>6. Lifecycle!Conclude(r)
      BY <3>2, <3>4, <3>5, SameVocabulary
      DEF Lifecycle!Conclude, Lifecycle!Become, States
    <3> QED
      BY <3>6 DEF Lifecycle!Next
  <2>4. CASE SameEvidence(r) /\ ~Concluded(r) /\ ~Observed(r)
    <3>1. /\ States' = [States EXCEPT ![r] = run'[r].state]
          /\ States[r] = run[r].state
          /\ observations' = observations /\ findings' = findings
          /\ run'[r].state = run[r].state => States' = States
      BY <1>1, <1>3, <2>4, StateMoves
    <3>2. \/ run'[r].state = run[r].state
          \/ run[r].state = "queued" /\ run'[r].state = "collecting"
          \/ run[r].state = "collecting" /\ run'[r].state = "evaluating"
          \/ /\ run[r].state \in {"collecting", "evaluating"}
             /\ run'[r].state = "failed"
          \/ /\ run[r].state \in {"queued", "collecting"}
             /\ run'[r].state = "cancelled"
      <4>1. CASE Leased(r)
        BY <4>1 DEF Leased, IsFirstClaim
      <4>2. CASE Completed(r)
        BY <4>2 DEF Completed, InState
      <4>3. CASE Failed(r)
        BY <1>1, <2>1, <4>3, AttemptsAssumption
        DEF Failed, Claimable, StepIsClaimable, AttemptsLeft, ExpectedRunState,
            EndsIn, RowsInv, QueuedIsUntouched, FittingStates, StepType
      <4>4. CASE Retried(r) \/ CancelRequested(r)
        BY <4>4 DEF Retried, CancelRequested, Marked
      <4>5. CASE Cancelled(r)
        BY <4>5 DEF Cancelled, Cancellable, EndsIn
      <4> QED
        BY <1>3, <2>4, <4>1, <4>2, <4>3, <4>4, <4>5 DEF Moved
    <3>3. CASE run'[r].state = run[r].state
      BY <3>1, <3>3 DEF States, Lifecycle!vars
    <3>4. CASE run[r].state = "queued" /\ run'[r].state = "collecting"
      <4>1. Lifecycle!Start(r)
        BY <3>1, <3>4 DEF Lifecycle!Start, Lifecycle!Become, States
      <4> QED
        BY <4>1 DEF Lifecycle!Next
    <3>5. CASE run[r].state = "collecting" /\ run'[r].state = "evaluating"
      <4>1. Lifecycle!Freeze(r)
        BY <3>1, <3>5 DEF Lifecycle!Freeze, Lifecycle!Become, States
      <4> QED
        BY <4>1 DEF Lifecycle!Next
    <3>6. CASE /\ run[r].state \in {"collecting", "evaluating"}
               /\ run'[r].state = "failed"
      <4>1. Lifecycle!Fail(r)
        BY <3>1, <3>6 DEF Lifecycle!Fail, Lifecycle!Become, States
      <4> QED
        BY <4>1 DEF Lifecycle!Next
    <3>7. CASE /\ run[r].state \in {"queued", "collecting"}
               /\ run'[r].state = "cancelled"
      <4>1. Lifecycle!Cancel(r)
        BY <3>1, <3>7 DEF Lifecycle!Cancel, Lifecycle!Become, States
      <4> QED
        BY <4>1 DEF Lifecycle!Next
    <3> QED
      BY <3>2, <3>3, <3>4, <3>5, <3>6, <3>7
  <2>5. SameEvidence(r) \/ Observed(r) \/ Concluded(r)
    BY <1>3 DEF Moved, Leased, Completed, Failed, Retried, CancelRequested, Cancelled
  <2> QED
    BY <2>2, <2>3, <2>4, <2>5
<1> QED
  BY <1>2, <1>3 DEF Moves

\* Workers, leases, crashes, retries and cancel clients together implement the
\* life of a run that RunLifecycle describes.
THEOREM LifecycleImplemented == Spec => ImplementsLifecycle
<1>1. Init => Lifecycle!Init
  BY DEF Init, Lifecycle!Init
<1>2. EvidenceInv /\ [Next]_vars => [Lifecycle!Next]_(Lifecycle!vars)
  BY NextType, NextMoves, MovesLifecycle DEF EvidenceInv, CancelInv, RowsInv
<1> QED
  BY <1>1, <1>2, EvidenceInitially, EvidencePreserved, PTL
  DEF Spec, ImplementsLifecycle, Lifecycle!Spec

-----------------------------------------------------------------------------
(* The log *)

\* What the log says of one step.  The first five conjuncts are
\* LeasesAccountedFor, the last three belong to LogTellsOutcome; the two about
\* n keep the operation_id of the next lease and of the next retry unused, so
\* that the log never takes one of them for a replay.
StepLog(r, t) ==
  LET s     == step[r][t]
      given == Times(r, "step_leased", t) + Times(r, "step_recovered", t)
      ended == Times(r, "step_recovered", t) + Times(r, "step_retry_scheduled", t)
  IN  /\ s.attempt = given
      /\ s.epoch = s.attempt + (IF s.state = "cancelled" THEN 1 ELSE 0)
      /\ s.state \in {"blocked", "ready"} =>
           ended = s.attempt /\ s.attempt < MaxStepAttempts
      /\ s.state = "leased" => ended = s.attempt - 1
      /\ s.state = "succeeded" => ended = s.attempt - 1
      /\ \A e \in Logged(r, "step_leased", t) \cup Logged(r, "step_recovered", t) :
           e.n <= s.epoch
      /\ \A e \in Logged(r, "step_retry_scheduled", t) :
           e.n <= s.epoch /\ (s.state = "leased" => e.n # s.epoch)
      /\ HasEvent(r, "step_succeeded", t) <=> s.state = "succeeded"
      /\ HasEvent(r, "step_failed", t) <=> s.state = "failed"
      /\ HasEvent(r, "step_cancelled", t) <=> s.state = "cancelled"

\* What it says of the run; the last conjunct keeps the position of the next
\* observation unused.
RunLog(r) ==
  /\ HasEvent(r, "run_cancelled", "collect") <=> run[r].state = "cancelled"
  /\ HasEvent(r, "run_state_changed", "collect") <=> run[r].started
  /\ run[r].cancelRequested <=>
       \/ HasEvent(r, "cancel_requested", "collect")
       \/ HasEvent(r, "run_cancelled", "collect")
  /\ Times(r, "observation_persisted", "collect") = Len(observations[r])
  /\ \A e \in Logged(r, "observation_persisted", "collect") :
       e.n <= Len(observations[r])

\* The attempt a worker remembers is the epoch of its lease: only a
\* cancellation raises one without the other, and it ends the step.
ClaimsCountAttempts ==
  \A w \in Workers : Busy(w) => claim[w].attempt = claim[w].epoch

LogInv ==
  /\ RowsInv
  /\ ClaimsCountAttempts
  /\ \A r \in Runs :
       IsFiniteSet(events[r]) /\ RunLog(r) /\ \A t \in StepType : StepLog(r, t)

\* Events of a kind that a move does not log stay as they were.
LEMMA NotLogged ==
  ASSUME NEW r, NEW new, Logs(r, new), NEW type, NEW t,
         \A e \in new : e.type # type \/ e.step # t
  PROVE  /\ Logged(r, type, t)' = Logged(r, type, t)
         /\ Times(r, type, t)' = Times(r, type, t)
         /\ HasEvent(r, type, t)' <=> HasEvent(r, type, t)
<1>1. Logged(r, type, t)' = Logged(r, type, t)
  BY DEF Logs, Logged
<1> QED
  BY <1>1 DEF Times, HasEvent

\* One event that was not there before adds one to its kind.
LEMMA LoggedOnce ==
  ASSUME NEW r, NEW new, IsFiniteSet(events[r]), Logs(r, new),
         NEW e \in new, e \notin events[r],
         \A f \in new : (f.type = e.type /\ f.step = e.step) => f = e
  PROVE  /\ Logged(r, e.type, e.step)' = Logged(r, e.type, e.step) \cup {e}
         /\ Times(r, e.type, e.step)' = Times(r, e.type, e.step) + 1
         /\ Times(r, e.type, e.step) \in Nat
<1>1. Logged(r, e.type, e.step)' = Logged(r, e.type, e.step) \cup {e}
  BY DEF Logs, Logged
<1>2. IsFiniteSet(Logged(r, e.type, e.step))
  BY FS_Subset DEF Logged
<1>3. e \notin Logged(r, e.type, e.step)
  BY DEF Logged
<1> QED
  BY <1>1, <1>2, <1>3, FS_AddElement, FS_CardinalityType DEF Times

\* The kind of an event that is logged is on record from then on.
LEMMA OnRecord ==
  ASSUME NEW r, NEW new, Logs(r, new), NEW e \in new
  PROVE  HasEvent(r, e.type, e.step)'
BY DEF Logs, HasEvent, Logged

LEMMA TimesType ==
  ASSUME NEW r, IsFiniteSet(events[r]), NEW type, NEW t
  PROVE  Times(r, type, t) \in Nat
BY FS_Subset, FS_CardinalityType DEF Times, Logged

\* The kinds of events there are of a step, and the kinds of a run.
OfStep == {"step_leased", "step_recovered", "step_retry_scheduled",
           "step_succeeded", "step_failed", "step_cancelled"}
OfRun == {"run_cancelled", "run_state_changed", "cancel_requested",
          "observation_persisted"}

\* A step that a move leaves alone, of which it logs nothing new.
LEMMA StepLogKept ==
  ASSUME NEW r, NEW t, StepLog(r, t), SameStep(step[r][t], step'[r][t]),
         \A type \in OfStep : Logged(r, type, t)' = Logged(r, type, t)
  PROVE  StepLog(r, t)'
BY DEF StepLog, SameStep, OfStep, Times, HasEvent

LEMMA RunLogKept ==
  ASSUME NEW r, RunLog(r), observations'[r] = observations[r],
         run'[r].state = run[r].state, run'[r].started = run[r].started,
         run'[r].cancelRequested = run[r].cancelRequested,
         \A type \in OfRun : Logged(r, type, "collect")' = Logged(r, type, "collect")
  PROVE  RunLog(r)'
BY DEF RunLog, OfRun, Times, HasEvent

\* The events of one step are not those of the other, nor those of a step
\* those of its run.
LEMMA EventFields ==
  ASSUME NEW type, NEW t, NEW n
  PROVE  /\ Event(type, t, n).type = type
         /\ Event(type, t, n).step = t
         /\ Event(type, t, n).n = n
BY DEF Event

LEMMA LogStaysFinite ==
  ASSUME NEW r, NEW new, IsFiniteSet(events[r]), Logs(r, new), IsFiniteSet(new)
  PROVE  IsFiniteSet(events'[r])
BY FS_Union DEF Logs

LEMMA PairIsFinite == \A x, y : IsFiniteSet({x, y})
<1> TAKE x, y
<1>1. IsFiniteSet({x} \cup {y})
  BY FS_Singleton, FS_Union
<1>2. {x, y} = {x} \cup {y}
  OBVIOUS
<1> QED
  BY <1>1, <1>2

\* The log of the run of a move, and of each of its steps.
LogFits(r) ==
  IsFiniteSet(events[r]) /\ RunLog(r) /\ \A t \in StepType : StepLog(r, t)

\* The log of a run that does not move: a cancellation that is logged again
\* was on record.
LEMMA KeptLog ==
  ASSUME LogInv, NEW r \in Runs, Kept(r)
  PROVE  LogFits(r)'
<1>1. LogFits(r) /\ SameEvidence(r) /\ run'[r] = run[r]
      /\ \A t \in StepType : SameStep(step[r][t], step'[r][t])
  BY DEF LogInv, LogFits, Kept, SameSteps
<1>2. CASE events'[r] = events[r]
  <2>1. \A type, t : Logged(r, type, t)' = Logged(r, type, t)
    BY <1>2 DEF Logged
  <2> QED
    BY <1>1, <1>2, <2>1, StepLogKept, RunLogKept DEF LogFits, SameEvidence
<1>3. CASE CancelStands(r) /\ Logs(r, CancelEvents)
  <2>1. \A type \in OfStep : \A t :
          (type # "step_cancelled" \/ t # "collect") =>
             Logged(r, type, t)' = Logged(r, type, t)
    BY <1>3, NotLogged DEF CancelEvents, Event, OfStep
  <2>2. \A type \in OfRun :
          type # "run_cancelled" =>
             Logged(r, type, "collect")' = Logged(r, type, "collect")
    BY <1>3, NotLogged DEF CancelEvents, Event, OfRun
  <2>3. /\ HasEvent(r, "step_cancelled", "collect")'
        /\ HasEvent(r, "run_cancelled", "collect")'
    BY <1>3, OnRecord, EventFields DEF CancelEvents
  <2>4. run[r].state = "cancelled" /\ step[r]["collect"].state = "cancelled"
    BY <1>3 DEF CancelStands, LogInv, RowsInv, StepsFitRun, FittingStates
  <2>5. HasEvent(r, "run_cancelled", "collect")
    BY <1>1, <2>4 DEF LogFits, RunLog
  <2>6. RunLog(r)'
    BY <1>1, <2>2, <2>3, <2>4, <2>5
    DEF LogFits, RunLog, OfRun, Times, HasEvent, SameEvidence
  <2>7. StepLog(r, "collect")'
    BY <1>1, <2>1, <2>3, <2>4
    DEF LogFits, StepLog, SameStep, OfStep, Times, HasEvent, StepType
  <2>8. StepLog(r, "evaluate")'
    BY <1>1, <2>1, StepLogKept DEF LogFits, StepType
  <2>9. IsFiniteSet(events'[r])
    BY <1>1, <1>3, LogStaysFinite, PairIsFinite DEF CancelEvents, LogFits
  <2> QED
    BY <2>6, <2>7, <2>8, <2>9 DEF LogFits, StepType
<1> QED
  BY <1>2, <1>3 DEF Kept, LogsNothingNew

\* The row of a step that is claimed and the log of the lease it is given.
LEMMA LeasedLog ==
  ASSUME LogInv, NEW r \in Runs, Leased(r)
  PROVE  LogFits(r)'
<1>1. PICK w \in Workers, t \in StepType :
        /\ Claimable(r, t) /\ AttemptsLeft(r, t)
        /\ Logs(r, LeaseEvents(r, t))
        /\ step'[r][t].state = "leased"
        /\ step'[r][t].attempt = step[r][t].attempt + 1
        /\ step'[r][t].epoch = step[r][t].epoch + 1
        /\ OtherStepSame(r, t)
        /\ \/ /\ IsFirstClaim(r, t)
              /\ run'[r].state = "collecting" /\ run'[r].started = TRUE
              /\ run'[r].cancelRequested = run[r].cancelRequested
           \/ ~IsFirstClaim(r, t) /\ run'[r] = run[r]
  BY DEF Leased
<1> DEFINE s     == step[r][t]
           start == Event("run_state_changed", t, s.epoch + 1)
<1>2. PICK new, type, e :
        /\ Logs(r, new) /\ e \in new
        /\ type = IF s.state = "leased" THEN "step_recovered" ELSE "step_leased"
        /\ e.type = type /\ e.step = t /\ e.n = s.epoch + 1
        /\ \A f \in new : f = e \/ (f = start /\ IsFirstClaim(r, t))
        /\ IsFirstClaim(r, t) => start \in new
  <2>1. /\ LeaseEvents(r, t) =
             {Event(IF s.state = "leased" THEN "step_recovered" ELSE "step_leased",
                    t, s.epoch + 1)}
             \cup IF IsFirstClaim(r, t) THEN {start} ELSE {}
        /\ Logs(r, LeaseEvents(r, t))
    BY <1>1 DEF LeaseEvents
  <2> HIDE DEF start
  <2> QED
    BY <2>1, EventFields
<1>0. start.type = "run_state_changed" /\ start.step = t
  BY EventFields
<1> HIDE DEF start
<1>3. \A f \in new : f.step = t /\ (f.type = e.type => f = e)
  BY <1>0, <1>2
<1>4. /\ LogFits(r) /\ SameEvidence(r)
      /\ s.attempt \in Nat /\ s.epoch \in Nat
      /\ s.state \in {"ready", "leased"}
      /\ \A f \in events[r] : f.n \in Nat
  BY <1>1, RowTypes
  DEF TypeInv, TypeOK, StoreTypeOK, EventRow, LogInv, LogFits, Leased, RowsInv, Claimable, StepIsClaimable
<1>5. e \notin events[r]
  <2>1. StepLog(r, t)
    BY <1>4 DEF LogFits
  <2>2. ~(e.n <= s.epoch)
    BY <1>2, <1>4
  <2> QED
    BY <1>2, <2>1, <2>2 DEF StepLog, Logged
<1>6. /\ Logged(r, type, t)' = Logged(r, type, t) \cup {e}
      /\ Times(r, type, t)' = Times(r, type, t) + 1
  BY <1>1, <1>2, <1>3, <1>4, <1>5, LoggedOnce DEF LogFits
<1>7. \A k, u : (k # "run_state_changed" /\ (k # type \/ u # t)) =>
                  Logged(r, k, u)' = Logged(r, k, u)
  BY <1>0, <1>2, NotLogged
<1>8. \A k : /\ Times(r, k, t) \in Nat
             /\ (k # "run_state_changed" /\ k # type) =>
                   /\ Times(r, k, t)' = Times(r, k, t)
                   /\ HasEvent(r, k, t)' = HasEvent(r, k, t)
  BY <1>4, <1>7, TimesType DEF Times, HasEvent, LogFits
<1>9. IsFiniteSet(events'[r])
  <2>1. IsFiniteSet({e, start}) /\ new \subseteq {e, start}
    BY <1>2, PairIsFinite
  <2>3. IsFiniteSet(new)
    BY <2>1, FS_Subset
  <2> QED
    BY <1>2, <1>4, <2>3, LogStaysFinite DEF LogFits
<1>10. StepLog(r, t)'
  <2>1. StepLog(r, t)
    BY <1>4 DEF LogFits
  <2>2. /\ Logged(r, "step_retry_scheduled", t)' = Logged(r, "step_retry_scheduled", t)
        /\ Logged(r, "step_succeeded", t)' = Logged(r, "step_succeeded", t)
        /\ Logged(r, "step_failed", t)' = Logged(r, "step_failed", t)
        /\ Logged(r, "step_cancelled", t)' = Logged(r, "step_cancelled", t)
        /\ Times(r, "step_retry_scheduled", t)' = Times(r, "step_retry_scheduled", t)
    BY <1>2, <1>7, <1>8
  <2>6. \A f \in Logged(r, "step_retry_scheduled", t) :
          f.n <= s.epoch + 1 /\ f.n # s.epoch + 1
    BY <2>1, <1>4 DEF StepLog, Logged
  <2>3. \A f \in Logged(r, "step_leased", t)' \cup Logged(r, "step_recovered", t)' :
          f.n <= s.epoch + 1
    <3>1. /\ Logged(r, "step_leased", t)' \subseteq Logged(r, "step_leased", t) \cup {e}
          /\ Logged(r, "step_recovered", t)'
               \subseteq Logged(r, "step_recovered", t) \cup {e}
      BY <1>2, <1>6, <1>7
    <3>2. \A f \in Logged(r, "step_leased", t) \cup Logged(r, "step_recovered", t) :
            f.n <= s.epoch /\ f.n \in Nat
      BY <2>1, <1>4 DEF StepLog, Logged
    <3> QED
      BY <1>2, <1>4, <3>1, <3>2
  <2>4. /\ s.attempt = Times(r, "step_leased", t) + Times(r, "step_recovered", t)
        /\ s.epoch = s.attempt
        /\ Times(r, "step_recovered", t) + Times(r, "step_retry_scheduled", t)
             = IF s.state = "leased" THEN s.attempt - 1 ELSE s.attempt
        /\ Logged(r, "step_succeeded", t) = {}
        /\ Logged(r, "step_failed", t) = {}
        /\ Logged(r, "step_cancelled", t) = {}
    BY <1>4, <2>1 DEF StepLog, HasEvent
  <2>5. /\ Times(r, type, t)' = Times(r, type, t) + 1
        /\ \A k \in {"step_leased", "step_recovered"} \ {type} :
             Times(r, k, t)' = Times(r, k, t)
        /\ \A k : Times(r, k, t) \in Nat
        /\ type = IF s.state = "leased" THEN "step_recovered" ELSE "step_leased"
    BY <1>2, <1>6, <1>8
  <2> HIDE DEF s
  <2>7. step'[r][t].attempt
          = (Times(r, "step_leased", t)' + Times(r, "step_recovered", t)')
    BY <1>1, <1>4, <2>4, <2>5 DEF s
  <2>8. (Times(r, "step_recovered", t)' + Times(r, "step_retry_scheduled", t)')
          = step'[r][t].attempt - 1
    BY <1>1, <1>4, <2>2, <2>4, <2>5 DEF s
  <2>9. /\ step'[r][t].state = "leased" /\ step'[r][t].epoch = s.epoch + 1
        /\ step'[r][t].epoch = step'[r][t].attempt /\ step'[r][t].attempt \in Nat
    BY <1>1, <1>4, <2>4 DEF s
  <2> QED
    BY <2>2, <2>3, <2>4, <2>6, <2>7, <2>8, <2>9 DEF StepLog, HasEvent
<1>11. \A u \in StepType \ {t} : StepLog(r, u)'
  BY <1>1, <1>4, <1>7, StepLogKept DEF LogFits, OtherStepSame, OfStep
<1>12. RunLog(r)'
  <2>1. RunLog(r)
    BY <1>4 DEF LogFits
  <2>2. CASE IsFirstClaim(r, t)
    <3>1. HasEvent(r, "run_state_changed", "collect")'
      BY <1>0, <1>2, <2>2, OnRecord DEF IsFirstClaim
    <3> QED
      BY <1>1, <1>2, <1>4, <1>7, <2>1, <2>2, <3>1
      DEF RunLog, IsFirstClaim, Times, HasEvent, SameEvidence
  <2>3. CASE ~IsFirstClaim(r, t)
    <3>1. Logged(r, "run_state_changed", "collect")'
            = Logged(r, "run_state_changed", "collect")
      BY <1>2, <2>3, NotLogged, <1>3
    <3> QED
      BY <1>1, <1>2, <1>4, <1>7, <2>1, <2>3, <3>1, RunLogKept DEF OfRun, SameEvidence
  <2> QED
    BY <2>2, <2>3
<1> QED
  BY <1>9, <1>10, <1>11, <1>12 DEF LogFits

\* A move that logs one event.
LEMMA OneLogged ==
  ASSUME NEW r, NEW type, NEW t, NEW n, Logs(r, {Event(type, t, n)}), LogFits(r)
  PROVE  /\ IsFiniteSet(events'[r])
         /\ HasEvent(r, type, t)'
         /\ \A k, u : (k # type \/ u # t) => Logged(r, k, u)' = Logged(r, k, u)
<1> DEFINE e == Event(type, t, n)
<1>1. e.type = type /\ e.step = t
  BY EventFields
<1> HIDE DEF e
<1>2. Logs(r, {e})
  BY DEF e
<1>3. IsFiniteSet(events'[r])
  BY <1>2, LogStaysFinite, FS_Singleton DEF LogFits
<1>4. HasEvent(r, type, t)'
  BY <1>1, <1>2, OnRecord
<1> QED
  BY <1>1, <1>2, <1>3, <1>4, NotLogged

LEMMA ObservedLog ==
  ASSUME LogInv, NEW r \in Runs, Observed(r)
  PROVE  LogFits(r)'
<1> DEFINE type == "observation_persisted"
<1>1. PICK n, e : /\ n = Len(observations[r]) + 1
                  /\ e = Event(type, "collect", n)
                  /\ Logs(r, {e}) /\ Logs(r, {Event(type, "collect", n)})
  BY DEF Observed
<1>2. /\ LogFits(r) /\ e.type = type /\ e.step = "collect" /\ e.n = n
  BY <1>1, EventFields DEF LogInv, LogFits
<1>3. Len(observations[r]) \in Nat /\ Len(observations'[r]) = n
  BY <1>1 DEF Observed, LogInv, RowsInv, TypeInv, TypeOK, StoreTypeOK
<1>4. e \notin events[r]
  BY <1>1, <1>2, <1>3 DEF LogFits, RunLog, Logged
<1>5. /\ IsFiniteSet(events'[r])
      /\ \A k, u : (k # type \/ u # "collect") => Logged(r, k, u)' = Logged(r, k, u)
  <2>1. LogFits(r) /\ Logs(r, {Event(type, "collect", n)})
    BY <1>1, <1>2
  <2> QED
    BY <2>1, OneLogged
<1>6. /\ Logged(r, type, "collect")' = Logged(r, type, "collect") \cup {e}
      /\ Times(r, type, "collect")' = Times(r, type, "collect") + 1
  BY <1>1, <1>2, <1>4, LoggedOnce DEF LogFits
<1>7. \A f \in Logged(r, type, "collect") : f.n <= n
  BY <1>1, <1>2, <1>3
  DEF LogFits, RunLog, Logged, LogInv, RowsInv, TypeInv, TypeOK, StoreTypeOK, EventRow
<1>8. RunLog(r)'
  <2>1. /\ Times(r, type, "collect")' = n
        /\ \A f \in Logged(r, type, "collect")' : f.n <= n
    BY <1>2, <1>3, <1>6, <1>7, <1>1 DEF LogFits, RunLog
  <2>2. \A k \in OfRun \ {type} :
           Logged(r, k, "collect")' = Logged(r, k, "collect")
    BY <1>5
  <2> QED
    BY <1>2, <1>3, <2>1, <2>2 DEF Observed, LogFits, RunLog, HasEvent, OfRun
<1>9. \A t \in StepType : StepLog(r, t)'
  BY <1>2, <1>5, StepLogKept DEF Observed, LogFits, SameSteps, OfStep
<1> QED
  BY <1>5, <1>8, <1>9 DEF LogFits

\* A step that ends for good, with the event that says so.
LEMMA EndedStepLog ==
  ASSUME LogInv, NEW r \in Runs, NEW t \in StepType,
         NEW state \in {"succeeded", "failed"},
         step[r][t].state \in {"ready", "leased"},
         state = "succeeded" => step[r][t].state = "leased",
         GivenUp(step[r][t], step'[r][t], state),
         HasEvent(r, IF state = "failed" THEN "step_failed" ELSE "step_succeeded", t)',
         \A k \in OfStep :
           k # (IF state = "failed" THEN "step_failed" ELSE "step_succeeded")
             => Logged(r, k, t)' = Logged(r, k, t)
  PROVE  StepLog(r, t)'
<1>1. StepLog(r, t) /\ step[r][t].attempt \in Nat /\ step[r][t].epoch \in Nat
  BY RowTypes DEF LogInv, RowsInv
<1>2. CASE state = "failed"
  BY <1>1, <1>2 DEF StepLog, GivenUp, OfStep, HasEvent, Times
<1>3. CASE state = "succeeded"
  BY <1>1, <1>3 DEF StepLog, GivenUp, OfStep, HasEvent, Times
<1> QED
  BY <1>2, <1>3

LEMMA CompletedLog ==
  ASSUME LogInv, NEW r \in Runs, Completed(r)
  PROVE  LogFits(r)'
<1>1. /\ LogFits(r) /\ SameEvidence(r)
      /\ "collect" \in StepType /\ "evaluate" \in StepType
  BY DEF LogInv, LogFits, Completed, StepType
<1>2. /\ IsFiniteSet(events'[r])
      /\ HasEvent(r, "step_succeeded", "collect")'
      /\ \A k, u : (k # "step_succeeded" \/ u # "collect") =>
                      Logged(r, k, u)' = Logged(r, k, u)
  BY <1>1, OneLogged DEF Completed
<1>3. StepLog(r, "collect")'
  BY <1>1, <1>2, EndedStepLog DEF Completed
<1>4. StepLog(r, "evaluate")'
  BY <1>1, <1>2 DEF Completed, LogFits, StepLog, HasEvent, Times
<1>5. RunLog(r)'
  <2>1. RunLog(r) /\ ~(run[r].state = "cancelled")
    BY <1>1 DEF LogFits, Completed
  <2>2. /\ run'[r].state = "evaluating" /\ run'[r].started = run[r].started
        /\ run'[r].cancelRequested = run[r].cancelRequested
    BY DEF Completed, InState
  <2> QED
    BY <1>1, <1>2, <2>1, <2>2 DEF SameEvidence, RunLog, HasEvent, Times
<1> QED
  BY <1>2, <1>3, <1>4, <1>5 DEF LogFits, StepType

\* The log of a run that ends otherwise than by cancellation.
LEMMA EndedRunLog ==
  ASSUME LogInv, NEW r \in Runs, NEW state \in {"healthy", "findings", "failed"},
         EndsIn(run[r], run'[r], state), run[r].state # "cancelled",
         run'[r].cancelRequested = run[r].cancelRequested,
         observations'[r] = observations[r],
         \A k \in OfRun : Logged(r, k, "collect")' = Logged(r, k, "collect")
  PROVE  RunLog(r)'
BY DEF LogInv, EndsIn, RunLog, OfRun, HasEvent, Times

LEMMA ConcludedLog ==
  ASSUME LogInv, NEW r \in Runs, Concluded(r)
  PROVE  LogFits(r)'
<1>1. /\ LogFits(r) /\ "evaluate" \in StepType
      /\ Logs(r, {Event("step_succeeded", "evaluate", 0)})
      /\ step[r]["evaluate"].state = "leased"
      /\ GivenUp(step[r]["evaluate"], step'[r]["evaluate"], "succeeded")
      /\ OtherStepSame(r, "evaluate")
      /\ run[r].state = "evaluating" /\ observations'[r] = observations[r]
      /\ run'[r].cancelRequested = run[r].cancelRequested
      /\ \E w \in Workers :
            EndsIn(run[r], run'[r], TerminalStateForResults(Results(drawn[w])))
  BY DEF LogInv, LogFits, Concluded, StepType
<1>2. /\ IsFiniteSet(events'[r])
      /\ HasEvent(r, "step_succeeded", "evaluate")'
      /\ \A k, u : (k # "step_succeeded" \/ u # "evaluate") =>
                      Logged(r, k, u)' = Logged(r, k, u)
  BY <1>1, OneLogged
<1>3. StepLog(r, "evaluate")'
  BY <1>1, <1>2, EndedStepLog
<1>4. \A u \in StepType \ {"evaluate"} : StepLog(r, u)'
  BY <1>1, <1>2, StepLogKept DEF OtherStepSame, LogFits
<1>5. RunLog(r)'
  <2>1. \E state \in {"healthy", "findings"} : EndsIn(run[r], run'[r], state)
    BY <1>1, OutcomeType
  <2> QED
    BY <1>1, <1>2, <2>1, EndedRunLog DEF OfRun
<1> QED
  BY <1>2, <1>3, <1>4, <1>5 DEF LogFits

LEMMA FailedLog ==
  ASSUME LogInv, NEW r \in Runs, Failed(r)
  PROVE  LogFits(r)'
<1>1. PICK t \in StepType :
        /\ \/ step[r][t].state = "leased" /\ run[r].state = ExpectedRunState(t)
           \/ Claimable(r, t)
        /\ GivenUp(step[r][t], step'[r][t], "failed")
        /\ OtherStepSame(r, t)
        /\ Logs(r, {Event("step_failed", t, 0)})
  BY DEF Failed
<1>2. /\ LogFits(r) /\ SameEvidence(r) /\ run[r].state # "cancelled"
      /\ step[r][t].state \in {"ready", "leased"}
  BY <1>1 DEF LogInv, LogFits, Failed, Claimable, StepIsClaimable, ExpectedRunState
<1>3. /\ IsFiniteSet(events'[r])
      /\ HasEvent(r, "step_failed", t)'
      /\ \A k, u : (k # "step_failed" \/ u # t) => Logged(r, k, u)' = Logged(r, k, u)
  BY <1>1, <1>2, OneLogged
<1>4. StepLog(r, t)'
  BY <1>1, <1>2, <1>3, EndedStepLog
<1>5. \A u \in StepType \ {t} : StepLog(r, u)'
  BY <1>1, <1>2, <1>3, StepLogKept DEF OtherStepSame, LogFits
<1>6. RunLog(r)'
  BY <1>2, <1>3, EndedRunLog DEF Failed, SameEvidence, OfRun
<1> QED
  BY <1>3, <1>4, <1>5, <1>6 DEF LogFits

\* The event of a retry is new: only the retry of this very lease has its
\* operation_id, and the lease is still held.
LEMMA RetriedLog ==
  ASSUME LogInv, NEW r \in Runs, Retried(r)
  PROVE  LogFits(r)'
<1> DEFINE type == "step_retry_scheduled"
<1>1. PICK w \in Workers, t \in StepType :
        /\ step[r][t].state = "leased" /\ HoldsLease(w, r, t)
        /\ claim[w].attempt < MaxStepAttempts
        /\ GivenUp(step[r][t], step'[r][t], "ready")
        /\ OtherStepSame(r, t)
        /\ Logs(r, {Event(type, t, step[r][t].epoch)})
  BY DEF Retried
<1>2. PICK n, e : n = step[r][t].epoch /\ e = Event(type, t, n)
  OBVIOUS
<1>3. /\ LogFits(r) /\ StepLog(r, t) /\ SameEvidence(r) /\ run'[r] = run[r]
      /\ step[r][t].attempt \in Nat /\ n \in Nat
      /\ e.type = type /\ e.step = t /\ e.n = n
  BY <1>1, <1>2, RowTypes, EventFields DEF LogInv, LogFits, Retried, RowsInv
<1>4. e \notin events[r]
  BY <1>1, <1>2, <1>3 DEF StepLog, Logged
<1>5. /\ IsFiniteSet(events'[r])
      /\ \A k, u : (k # type \/ u # t) => Logged(r, k, u)' = Logged(r, k, u)
  <2>1. LogFits(r) /\ Logs(r, {Event(type, t, n)})
    BY <1>1, <1>2, <1>3
  <2> QED
    BY <2>1, OneLogged
<1>6. /\ Logged(r, type, t)' = Logged(r, type, t) \cup {e}
      /\ Times(r, type, t)' = Times(r, type, t) + 1
      /\ Times(r, type, t) \in Nat /\ Times(r, "step_recovered", t) \in Nat
  BY <1>1, <1>2, <1>3, <1>4, LoggedOnce, TimesType DEF LogFits
<1>7. /\ step[r][t].attempt < MaxStepAttempts
      /\ step[r][t].epoch = step[r][t].attempt
  <2>1. step[r][t].epoch = step[r][t].attempt
    BY <1>1, <1>2, <1>3 DEF StepLog
  <2>2. claim[w].attempt = step[r][t].epoch
    BY <1>1, <1>2 DEF LogInv, ClaimsCountAttempts, HoldsLease
  <2> QED
    BY <1>1, <1>2, <2>1, <2>2
<1>8. StepLog(r, t)'
  <2>1. /\ step'[r][t].state = "ready"
        /\ step'[r][t].attempt = step[r][t].attempt
        /\ step'[r][t].epoch = step[r][t].epoch
    BY <1>1 DEF GivenUp
  <2>2. \A f \in Logged(r, type, t)' : f.n <= step[r][t].epoch
    BY <1>1, <1>2, <1>3, <1>6 DEF StepLog
  <2>3. \A k \in OfStep \ {type} :
           /\ Logged(r, k, t)' = Logged(r, k, t)
           /\ Times(r, k, t)' = Times(r, k, t)
    BY <1>5 DEF Times
  <2>4. (Times(r, "step_recovered", t)' + Times(r, type, t)') = step[r][t].attempt
    BY <1>1, <1>2, <1>3, <1>6, <2>3 DEF StepLog, OfStep
  <2> QED
    BY <1>1, <1>2, <1>3, <1>7, <2>1, <2>2, <2>3, <2>4 DEF StepLog, HasEvent, OfStep
<1>9. \A u \in StepType \ {t} : StepLog(r, u)'
  BY <1>1, <1>2, <1>3, <1>5, StepLogKept DEF OtherStepSame, LogFits
<1>10. RunLog(r)'
  BY <1>3, <1>5, RunLogKept DEF LogFits, SameEvidence, OfRun
<1> QED
  BY <1>5, <1>8, <1>9, <1>10 DEF LogFits

LEMMA CancelRequestedLog ==
  ASSUME LogInv, NEW r \in Runs, CancelRequested(r)
  PROVE  LogFits(r)'
<1>1. /\ LogFits(r) /\ SameEvidence(r) /\ SameSteps(r) /\ Marked(run[r], run'[r])
      /\ Logs(r, {Event("cancel_requested", "collect", 0)})
  BY DEF LogInv, LogFits, CancelRequested
<1>2. /\ IsFiniteSet(events'[r])
      /\ HasEvent(r, "cancel_requested", "collect")'
      /\ \A k, u : (k # "cancel_requested" \/ u # "collect") =>
                      Logged(r, k, u)' = Logged(r, k, u)
  BY <1>1, OneLogged
<1>3. \A t \in StepType : StepLog(r, t)'
  BY <1>1, <1>2, StepLogKept DEF SameSteps, LogFits, OfStep
<1>4. RunLog(r)'
  BY <1>1, <1>2 DEF LogFits, RunLog, Marked, SameEvidence, HasEvent, Times
<1> QED
  BY <1>2, <1>3, <1>4 DEF LogFits

LEMMA CancelledLog ==
  ASSUME LogInv, NEW r \in Runs, Cancelled(r)
  PROVE  LogFits(r)'
<1>1. /\ LogFits(r) /\ SameEvidence(r) /\ OtherStepSame(r, "collect")
      /\ Logs(r, CancelEvents)
      /\ EndsIn(run[r], run'[r], "cancelled") /\ run'[r].cancelRequested = TRUE
      /\ "collect" \in StepType
  BY DEF LogInv, LogFits, Cancelled, StepType
<1>2. /\ step[r]["collect"].state \in {"ready", "leased"}
      /\ step'[r]["collect"].state = "cancelled"
      /\ step'[r]["collect"].attempt = step[r]["collect"].attempt
      /\ step'[r]["collect"].epoch = step[r]["collect"].epoch + 1
  BY DEF Cancelled, Cancellable, CollectCanStop, LogInv, RowsInv, StepsFitRun,
         FittingStates
<1>3. \A k, u : (u # "collect" \/ k \notin {"run_cancelled", "step_cancelled"}) =>
                   Logged(r, k, u)' = Logged(r, k, u)
  <2>1. \A f \in CancelEvents :
          f.step = "collect" /\ f.type \in {"run_cancelled", "step_cancelled"}
    BY EventFields DEF CancelEvents
  <2> QED
    BY <1>1, <2>1, NotLogged
<1>4. /\ HasEvent(r, "run_cancelled", "collect")'
      /\ HasEvent(r, "step_cancelled", "collect")'
  BY <1>1, OnRecord, EventFields DEF CancelEvents
<1>5. IsFiniteSet(events'[r])
  BY <1>1, LogStaysFinite, PairIsFinite DEF CancelEvents, LogFits
<1>6. StepLog(r, "collect")'
  <2>1. /\ StepLog(r, "collect")
        /\ step[r]["collect"].attempt \in Nat /\ step[r]["collect"].epoch \in Nat
        /\ \A f \in events[r] : f.n \in Nat
    BY <1>1, RowTypes
    DEF LogFits, LogInv, RowsInv, TypeInv, TypeOK, StoreTypeOK, EventRow
  <2>2. \A k \in OfStep \ {"step_cancelled"} :
           /\ Logged(r, k, "collect")' = Logged(r, k, "collect")
           /\ Times(r, k, "collect")' = Times(r, k, "collect")
    BY <1>3 DEF Times, OfStep
  <2>3. \A f \in Logged(r, "step_leased", "collect")
                   \cup Logged(r, "step_recovered", "collect")
                   \cup Logged(r, "step_retry_scheduled", "collect") :
           f.n <= step[r]["collect"].epoch + 1
    BY <2>1 DEF StepLog, Logged
  <2> QED
    BY <1>2, <1>4, <2>1, <2>2, <2>3 DEF StepLog, HasEvent, OfStep
<1>7. \A u \in StepType \ {"collect"} : StepLog(r, u)'
  BY <1>1, <1>3, StepLogKept DEF OtherStepSame, LogFits
<1>8. RunLog(r)'
  BY <1>1, <1>3, <1>4 DEF LogFits, RunLog, EndsIn, SameEvidence, HasEvent, Times
<1> QED
  BY <1>5, <1>6, <1>7, <1>8 DEF LogFits

LEMMA MovedLog ==
  ASSUME LogInv, NEW r \in Runs, Moved(r) \/ Kept(r)
  PROVE  LogFits(r)'
BY KeptLog, LeasedLog, ObservedLog, CompletedLog, ConcludedLog, FailedLog,
   RetriedLog, CancelRequestedLog, CancelledLog DEF Moved

LEMMA ClaimsCount ==
  ASSUME LogInv, [Next]_vars
  PROVE  ClaimsCountAttempts'
<1>1. CASE NobodyClaims
  BY <1>1 DEF NobodyClaims, LogInv, ClaimsCountAttempts
<1>2. ASSUME NEW w \in Workers, NEW r \in Runs, NEW t \in StepType, Claims(w, r, t)
      PROVE  ClaimsCountAttempts'
  <2>1. /\ claim'[w].epoch = step[r][t].epoch + 1
        /\ claim'[w].attempt = step[r][t].attempt + 1
        /\ \A v \in Workers \ {w} : (Busy(v)' <=> Busy(v)) /\ claim'[v] = claim[v]
    BY <1>2 DEF Claims
  <2>2. step[r][t].state # "cancelled"
    BY <1>2 DEF Claims, Lease, Claimable, StepIsClaimable
  <2>3. step[r][t].epoch = step[r][t].attempt
    BY <2>2, RowTypes DEF LogInv, RowsInv, StepLog
  <2> QED
    BY <2>1, <2>3 DEF LogInv, ClaimsCountAttempts
<1> QED
  BY <1>1, <1>2, NextClaims DEF LogInv, RowsInv

LEMMA LogInitially == Init => LogInv
<1> SUFFICES ASSUME Init PROVE LogInv
  OBVIOUS
<1>1. RowsInv /\ ClaimsCountAttempts
  BY RowsInitially DEF Init, ClaimsCountAttempts, Busy
<1>2. ASSUME NEW r \in Runs PROVE LogFits(r)
  <2>1. /\ events[r] = {} /\ observations[r] = << >>
        /\ run[r].state = "queued" /\ ~run[r].started /\ ~run[r].cancelRequested
        /\ \A t \in StepType : /\ step[r][t].state \in {"ready", "blocked"}
                               /\ step[r][t].attempt = 0 /\ step[r][t].epoch = 0
    BY DEF Init, StepType
  <2>2. IsFiniteSet(events[r]) /\ Cardinality({}) = 0
    BY <2>1, FS_EmptySet
  <2>3. \A type, t : Logged(r, type, t) = {} /\ Times(r, type, t) = 0
    BY <2>1, <2>2 DEF Logged, Times
  <2>4. RunLog(r)
    BY <2>1, <2>3 DEF RunLog, HasEvent
  <2>5. \A t \in StepType : StepLog(r, t)
    BY <2>1, <2>3, AttemptsAssumption DEF StepLog, HasEvent
  <2> QED
    BY <2>2, <2>4, <2>5 DEF LogFits
<1> QED
  BY <1>1, <1>2 DEF LogInv, LogFits

LEMMA LogPreserved == LogInv /\ [Next]_vars => LogInv'
<1> SUFFICES ASSUME LogInv, [Next]_vars
             PROVE  LogInv'
  OBVIOUS
<1>1. RowsInv' /\ Moves
  BY RowsPreserved, NextMoves DEF LogInv, RowsInv
<1>2. \A r \in Runs : LogFits(r)'
  BY <1>1, MovedLog DEF Moves
<1> QED
  BY <1>1, <1>2, ClaimsCount DEF LogInv, LogFits

\* The log accounts for every lease that was given and for how each ended.
THEOREM EveryLeaseIsAccountedFor == Spec => []LeasesAccountedFor
<1>1. LogInv => LeasesAccountedFor
  BY DEF LogInv, StepLog, LeasesAccountedFor
<1> QED
  BY <1>1, LogInitially, LogPreserved, PTL DEF Spec

\* The log tells the outcome of every run and of every step, and no other.
THEOREM LogIsTrue == Spec => []LogTellsOutcome
<1>1. LogInv => LogTellsOutcome
  BY DEF LogInv, StepLog, RunLog, LogTellsOutcome
<1> QED
  BY <1>1, LogInitially, LogPreserved, PTL DEF Spec
=============================================================================

---------------------- MODULE OrchestrationProperties ----------------------
(***************************************************************************)
(* What must be true of Orchestration, in every interleaving of workers,   *)
(* lapsing leases, faults, crashes and cancel requests.                    *)
(***************************************************************************)
EXTENDS Orchestration

RunRow == [state : RunState, started : BOOLEAN, ended : BOOLEAN,
           result : AssuranceResult \cup {"none"}, cancelRequested : BOOLEAN]

StepRow == [state : StepState, attempt : 0 .. MaxStepAttempts, epoch : Nat,
            owner : WorkerIds \cup {Nobody}, waiting : BOOLEAN,
            lapsed : BOOLEAN, error : ErrorClass]

EventRow == [type : EventType, step : StepType, n : Nat]

CancelRow == [at : {"idle", "decided", "conflicted", "unsure",
                    "answered", "refused", "unavailable"},
              saw : RunState]

StoreTypeOK ==
  /\ run \in [Runs -> RunRow]
  /\ step \in [Runs -> [StepType -> StepRow]]
  /\ observations \in [Runs -> Seq(Observation)]
  /\ findings \in [Runs -> SUBSET Finding]
  /\ events \in [Runs -> SUBSET EventRow]

WorkersTypeOK ==
  /\ pc \in [Workers -> Points]
  /\ claim \in [Workers -> Claim \cup {NoClaim}]
  /\ batch \in [Workers -> Seq(Observation)]
  /\ drawn \in [Workers -> SUBSET Finding]
  /\ opened \in [Workers -> SUBSET {"fence", "heartbeat"}]

ClientsTypeOK ==
  /\ cancel \in [Clients -> CancelRow]
  /\ receipts \subseteq Clients

\* Every variable holds a value of its type; in particular no step row ever
\* counts more attempts than the CHECK of the run_steps table admits.
TypeOK == StoreTypeOK /\ WorkersTypeOK /\ ClientsTypeOK

-----------------------------------------------------------------------------
(* Runs and their steps *)

\* What a run, its collect step and its evaluate step may be at one moment.
FittingStates ==
  {<<"queued",     "ready",     "blocked">>,
   <<"collecting", "ready",     "blocked">>,
   <<"collecting", "leased",    "blocked">>,
   <<"evaluating", "succeeded", "ready">>,
   <<"evaluating", "succeeded", "leased">>,
   <<"healthy",    "succeeded", "succeeded">>,
   <<"findings",   "succeeded", "succeeded">>,
   <<"failed",     "failed",    "blocked">>,
   <<"failed",     "succeeded", "failed">>,
   <<"cancelled",  "cancelled", "blocked">>}

\* A run and its two steps are always in states that fit together, although
\* they are three rows that claims, completions, failures and cancellations
\* update separately: otherwise a run could wait for a step that nobody may
\* claim, or evaluate before it has collected.
StepsFitRun ==
  \A r \in Runs :
    <<run[r].state, step[r]["collect"].state, step[r]["evaluate"].state>>
      \in FittingStates

\* A run that still has to be collected carries no cancel request.  claimWork
\* refuses to collect a run that does, so such a run would stay queued or
\* collecting for ever; only the unlocked read of CancelRun keeps the request
\* away from it.
CollectableRunsAreClaimable ==
  \A r \in Runs :
    run[r].state \in {"queued", "collecting"} => ~run[r].cancelRequested

\* The CHECK constraints of assurance_runs and of run_steps.
RunCheck(a) ==
  \/ a.state = "queued" /\ ~a.started /\ a.result = "none" /\ ~a.ended
  \/ a.state \in {"collecting", "evaluating"}
     /\ a.started /\ a.result = "none" /\ ~a.ended
  \/ a.state = "healthy" /\ a.started /\ a.result = "PASS" /\ a.ended
  \/ a.state = "findings"
     /\ a.started /\ a.result \in {"FAIL", "UNKNOWN"} /\ a.ended
  \/ a.state = "failed" /\ a.started /\ a.result = "none" /\ a.ended
  \/ a.state = "cancelled" /\ a.result = "none" /\ a.ended

StepCheck(s) ==
  /\ s.state = "leased" => s.owner # Nobody /\ s.epoch >= 1
  /\ s.state \in {"blocked", "ready"} => s.owner = Nobody
  /\ s.attempt <= MaxStepAttempts

\* No update the code issues would be refused by these constraints: such an
\* update aborts the transaction, and the worker that retries it would be
\* refused again.
ChecksNeverFire ==
  \A r \in Runs :
    RunCheck(run[r]) /\ \A t \in StepType : StepCheck(step[r][t])

-----------------------------------------------------------------------------
(* Leases *)

\* Two processes never both pass the fence of one run, even when they run
\* under the same GROUNDS_WORKER_ID and one of them still acts on a lease
\* that was recovered from it.
OneFenceHolder ==
  \A v, w \in Workers :
    (v # w /\ Busy(v) /\ Busy(w) /\ FenceHolds(v) /\ FenceHolds(w))
      => claim[v].run # claim[w].run

Logged(r, type, t) == {e \in events[r] : e.type = type /\ e.step = t}
Times(r, type, t) == Cardinality(Logged(r, type, t))

\* The log accounts for every lease a step was ever given: attempt counts
\* them all, each has an event of its own (none was swallowed as a duplicate
\* operation_id), and each but the last ended in exactly one recovery or one
\* scheduled retry, so a step with no lease left to give is never "ready".
LeasesAccountedFor ==
  \A r \in Runs, t \in StepType :
    LET s     == step[r][t]
        given == Times(r, "step_leased", t) + Times(r, "step_recovered", t)
        ended == Times(r, "step_recovered", t)
                   + Times(r, "step_retry_scheduled", t)
    IN  /\ s.attempt = given
        /\ s.epoch = s.attempt + (IF s.state = "cancelled" THEN 1 ELSE 0)
        /\ s.state \in {"blocked", "ready"} =>
             ended = s.attempt /\ s.attempt < MaxStepAttempts
        /\ s.state = "leased" => ended = s.attempt - 1
        /\ s.state = "succeeded" => ended = s.attempt - 1

\* The lease a worker remembers is not the one the row carries any more.
Outdated(w) ==
  /\ Busy(w)
  /\ LET s == step[claim[w].run][claim[w].step]
     IN  s.state # "leased" \/ s.epoch # claim[w].epoch

\* A step of the handler of w, or a transaction of w that was in flight.
Acts(w) == pc'[w] # pc[w] \/ opened'[w] # opened[w]

\* A worker whose lease was recovered, cancelled or completed changes nothing
\* in the database, whichever point of the handler it has reached; nor does a
\* heartbeat of it that began in time revive the lease of its successor.
StaleWorkerWritesNothing ==
  [][\A w \in Workers : (Outdated(w) /\ Acts(w)) => UNCHANGED store]_vars

-----------------------------------------------------------------------------
(* Verdicts, the log and cancellation *)

\* A run has findings exactly when it ended with a verdict, and then they and
\* its result are what the pinned detectors say of the evidence on record,
\* although they were computed from a copy read outside any transaction.
VerdictMatchesEvidence ==
  \A r \in Runs :
    LET due == run[r].state \in {"healthy", "findings"}
    IN  /\ findings[r] = IF due THEN Verdict(observations[r]) ELSE {}
        /\ due => run[r].result = SummariseResults(Results(findings[r]))
        /\ \A f \in findings[r] : f.cites # {}

HasEvent(r, type, t) == Logged(r, type, t) # {}

\* The log tells the outcome of every run: each outcome has its event, no
\* event tells of an outcome that did not happen, and a cancel request on the
\* run is explained by one.
LogTellsOutcome ==
  \A r \in Runs :
    /\ \A t \in StepType :
         /\ HasEvent(r, "step_succeeded", t) <=> step[r][t].state = "succeeded"
         /\ HasEvent(r, "step_failed", t) <=> step[r][t].state = "failed"
         /\ HasEvent(r, "step_cancelled", t) <=> step[r][t].state = "cancelled"
    /\ HasEvent(r, "run_cancelled", "collect") <=> run[r].state = "cancelled"
    /\ HasEvent(r, "run_state_changed", "collect") <=> run[r].started
    /\ run[r].cancelRequested <=>
         \/ HasEvent(r, "cancel_requested", "collect")
         \/ HasEvent(r, "run_cancelled", "collect")
    /\ Times(r, "observation_persisted", "collect") = Len(observations[r])

\* A cancel request that was answered is on record in the run, and one that
\* was decided while the run could still be cancelled did cancel it.
AnsweredCancelTookEffect ==
  \A c \in Clients :
    /\ (c \in receipts \/ cancel[c].at = "answered")
          => run[Target[c]].cancelRequested
    /\ (cancel[c].at = "answered" /\ SawCancellable(c))
          => run[Target[c]].state = "cancelled"

\* docs/architecture/state-machines.md, "A cancel requested during evaluate is
\* recorded and ignored for that in-flight lease": a request that is turned
\* down while the run is evaluating has left its trace on the run.
CancelDuringEvaluateIsRecorded ==
  \A c \in Clients :
    (cancel[c].at = "refused" /\ run[Target[c]].state = "evaluating")
      => run[Target[c]].cancelRequested

\* A run and its steps move only along the ALLOWED tables of run-state.ts and
\* step-state.ts, which the SQL of the store never consults; attempts and
\* epochs never go back, and a new attempt always comes with a new epoch.
LegalTransitions ==
  [][\A r \in Runs :
       /\ run[r].state # run'[r].state =>
            <<run[r].state, run'[r].state>> \in RunAllowed
       /\ \A t \in StepType :
            LET s  == step[r][t]
                s2 == step'[r][t]
            IN  /\ <<s.state, s2.state>> \in StepAllowed
                     \/ s.state = s2.state
                /\ s2.attempt >= s.attempt /\ s2.epoch >= s.epoch
                /\ s2.attempt > s.attempt => s2.epoch > s.epoch]_vars

-----------------------------------------------------------------------------
(* What the system promises as a whole *)

Lifecycle == INSTANCE RunLifecycle WITH
  state    <- [r \in Runs |-> run[r].state],
  evidence <- observations,
  verdict  <- findings

\* Seen from outside, runs behave as RunLifecycle says: evidence is frozen
\* before it is evaluated, verdict and final state appear together, and the
\* end of a run is final.
ImplementsLifecycle == Lifecycle!Spec

Ended(r) == run[r].state \in TerminalRunState

\* Every run ends, whatever workers crash and leases lapse on the way.
EveryRunEnds == \A r \in Runs : <>Ended(r)

\* A lease whose holder is gone does not last: the step gets another epoch, or
\* is done with.
AbandonedLeaseIsReplaced ==
  \A r \in Runs, t \in StepType, n \in 1 .. 2 * MaxStepAttempts :
    (step[r][t].state = "leased" /\ step[r][t].epoch = n
       /\ \A w \in Workers : ~HoldsLease(w, r, t))
      ~> (step[r][t].epoch # n \/ step[r][t].state # "leased")
=============================================================================

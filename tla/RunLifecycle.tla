---------------------------- MODULE RunLifecycle ----------------------------
(***************************************************************************)
(* What the control plane promises of an assurance run, whoever executes   *)
(* it: a run moves only along the table of run-state.ts, its evidence      *)
(* grows only while it is collecting and never repeats itself, and its     *)
(* verdict appears in one step with its final state and is the verdict of  *)
(* exactly the evidence that was frozen when collection ended.             *)
(*                                                                         *)
(* There are no workers, leases, retries or cancel clients here.           *)
(* Orchestration implements this module.                                   *)
(***************************************************************************)
EXTENDS Verdicts

CONSTANT Runs

VARIABLES state,     \* the state of each run
          evidence,  \* its observations, oldest first
          verdict    \* its findings

vars == <<state, evidence, verdict>>

Init ==
  /\ state = [r \in Runs |-> "queued"]
  /\ evidence = [r \in Runs |-> << >>]
  /\ verdict = [r \in Runs |-> {}]

Become(r, s) == state' = [state EXCEPT ![r] = s]

Start(r) ==
  /\ state[r] = "queued"
  /\ Become(r, "collecting")
  /\ UNCHANGED <<evidence, verdict>>

Observe(r, o) ==
  /\ state[r] = "collecting"
  /\ ~Recorded(o, evidence[r])
  /\ evidence' = [evidence EXCEPT ![r] = Append(@, o)]
  /\ UNCHANGED <<state, verdict>>

Freeze(r) ==
  /\ state[r] = "collecting"
  /\ Become(r, "evaluating")
  /\ UNCHANGED <<evidence, verdict>>

Conclude(r) ==
  /\ state[r] = "evaluating"
  /\ evidence[r] # << >>
  /\ Become(r, TerminalStateForResults(Results(Verdict(evidence[r]))))
  /\ verdict' = [verdict EXCEPT ![r] = Verdict(evidence[r])]
  /\ UNCHANGED evidence

Fail(r) ==
  /\ state[r] \in {"collecting", "evaluating"}
  /\ Become(r, "failed")
  /\ UNCHANGED <<evidence, verdict>>

Cancel(r) ==
  /\ state[r] \in {"queued", "collecting"}
  /\ Become(r, "cancelled")
  /\ UNCHANGED <<evidence, verdict>>

Next ==
  \E r \in Runs :
    \/ Start(r)
    \/ \E o \in Observation : Observe(r, o)
    \/ Freeze(r)
    \/ Conclude(r)
    \/ Fail(r)
    \/ Cancel(r)

Spec == Init /\ [][Next]_vars
=============================================================================

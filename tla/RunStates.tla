----------------------------- MODULE RunStates -----------------------------
(***************************************************************************)
(* The vocabulary of packages/domain: the states of an assurance run and   *)
(* of its two steps, the transitions each table of the source allows, and  *)
(* how the results of the pinned detectors become the result of the run.   *)
(***************************************************************************)

RunState == {"queued", "collecting", "evaluating",
             "healthy", "findings", "failed", "cancelled"}

TerminalRunState == {"healthy", "findings", "failed", "cancelled"}

StepType == {"collect", "evaluate"}

StepState == {"blocked", "ready", "leased", "succeeded", "failed", "cancelled"}

AssuranceResult == {"PASS", "FAIL", "UNKNOWN"}

\* The ALLOWED table of run-state.ts, as a relation.
RunAllowed == {<<"queued", "collecting">>, <<"queued", "cancelled">>,
               <<"collecting", "evaluating">>, <<"collecting", "failed">>,
               <<"collecting", "cancelled">>,
               <<"evaluating", "healthy">>, <<"evaluating", "findings">>,
               <<"evaluating", "failed">>}

\* The ALLOWED table of step-state.ts. A lease recovered in place goes from
\* "leased" to "leased".
StepAllowed == {<<"blocked", "ready">>,
                <<"ready", "leased">>, <<"ready", "failed">>,
                <<"ready", "cancelled">>,
                <<"leased", "leased">>, <<"leased", "ready">>,
                <<"leased", "succeeded">>, <<"leased", "failed">>,
                <<"leased", "cancelled">>}

\* One FAIL decides; failing that, one UNKNOWN does.
SummariseResults(results) ==
  IF "FAIL" \in results THEN "FAIL"
  ELSE IF "UNKNOWN" \in results THEN "UNKNOWN" ELSE "PASS"

TerminalStateForResults(results) ==
  IF SummariseResults(results) = "PASS" THEN "healthy" ELSE "findings"
=============================================================================

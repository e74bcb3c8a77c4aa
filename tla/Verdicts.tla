------------------------------ MODULE Verdicts ------------------------------
(***************************************************************************)
(* Evidence, and what the detectors conclude from it.                      *)
(*                                                                         *)
(* An observation is abstracted to what a verdict can tell apart: its      *)
(* kind, what its payload says ("inaccessible" when the provider refused   *)
(* it or the payload was truncated), and the freshness judged when the row *)
(* was inserted.  A run's evidence is the sequence of its observations in  *)
(* the order of created_at, which is the order detectors see them in.      *)
(***************************************************************************)
EXTENDS RunStates, Naturals, Sequences

CONSTANTS Kinds,      \* kinds of observation
          Detectors,  \* the detectors pinned by the profile
          Requires    \* the kind of observation a detector decides on

ASSUME RequiresAssumption == Requires \in [Detectors -> Kinds]

Content == {"pass", "fail", "inaccessible"}

Observation == [kind : Kinds, content : Content, fresh : BOOLEAN]

\* The content identity covers the kind and the payload, and not the
\* freshness of the row.
SameContent(o, p) == o.kind = p.kind /\ o.content = p.content

Recorded(o, evidence) ==
  \E i \in DOMAIN evidence : SameContent(evidence[i], o)

\* The positions of the observations a detector needs.
Needed(d, evidence) ==
  {i \in DOMAIN evidence : evidence[i].kind = Requires[d]}

Earliest(positions) == CHOOSE i \in positions : \A j \in positions : i <= j

\* A detector cites every observation of the kind it needs, or everything
\* there is when that kind is missing.
Cited(d, evidence) ==
  LET needed == Needed(d, evidence)
  IN  {evidence[i] : i \in IF needed = {} THEN DOMAIN evidence ELSE needed}

\* Only the earliest observation of the kind decides, and only when it is
\* fresh and was accessible.
DetectorResult(d, evidence) ==
  LET needed   == Needed(d, evidence)
      first    == evidence[Earliest(needed)]
      decisive == needed # {} /\ first.fresh /\ first.content # "inaccessible"
  IN  IF ~decisive THEN "UNKNOWN"
      ELSE IF first.content = "fail" THEN "FAIL" ELSE "PASS"

Finding == [detector : Detectors, result : AssuranceResult,
            cites : SUBSET Observation]

FindingOf(d, evidence) ==
  [detector |-> d,
   result   |-> DetectorResult(d, evidence),
   cites    |-> Cited(d, evidence)]

Verdict(evidence) == {FindingOf(d, evidence) : d \in Detectors}

Results(verdict) == {f.result : f \in verdict}
=============================================================================

----------------------------- MODULE AtomicLog -----------------------------
(***************************************************************************)
(* What the event log of a run promises: transactions append to it one     *)
(* after the other, each its whole batch of operations not logged before,  *)
(* and what was logged keeps its place.                                    *)
(***************************************************************************)
EXTENDS Naturals, FiniteSets, Sequences, SequencesExt

CONSTANTS Runs, Operations, MaxBatch

VARIABLE log   \* of each run, the operations in the order of their sequence

Init == log = [r \in Runs |-> <<>>]

\* The log of r grows by one batch; nothing logged moves or is repeated.
AppendBatch(r) ==
  /\ IsPrefix(log[r], log'[r])
  /\ Len(log'[r]) - Len(log[r]) \in 1..MaxBatch
  /\ log'[r] \in Seq(Operations)
  /\ IsInjective(log'[r])
  /\ log' = [log EXCEPT ![r] = log'[r]]

Next == \E r \in Runs : AppendBatch(r)

Spec == Init /\ [][Next]_log
============================================================================

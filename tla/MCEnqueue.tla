----------------------------- MODULE MCEnqueue -----------------------------
(* A small instance of Enqueue for TLC.                                    *)
EXTENDS EnqueueProperties, TLC

CONSTANTS q1, q2, q3, q4, b1, b2

\* A body passes the checks when its window is over.
Checks == [body \in Bodies |-> {201, 400}]

Symmetry ==
  Permutations(Authorising) \cup Permutations(Enqueuing)
    \cup Permutations(Actors) \cup Permutations(Keys) \cup Permutations(Bodies)
============================================================================

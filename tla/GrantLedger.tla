---------------------------- MODULE GrantLedger ----------------------------
(***************************************************************************)
(* What authorising and enqueuing promise: a grant belongs to the actor it *)
(* was issued to and is spent on at most one run, and one key of an actor  *)
(* settles one request for good, together with the write it asked for.     *)
(***************************************************************************)
CONSTANTS GrantIds, RunIds, Actors, Keys, Bodies, Nothing

VARIABLES
  owner,    \* the actor a grant was issued to
  spentOn,  \* the run a grant was consumed for
  settled   \* per actor, route and key: the body answered and the id named

vars == <<owner, spentOn, settled>>

Routes == {"authorisations", "runs"}

Init == /\ owner = [g \in GrantIds |-> Nothing]
        /\ spentOn = [g \in GrantIds |-> Nothing]
        /\ settled = [entry \in Actors \X Routes \X Keys |-> Nothing]

Settle(entry, body, id) ==
  /\ settled[entry] = Nothing
  /\ settled' = [settled EXCEPT ![entry] = [body |-> body, id |-> id]]

Issue(g, a, k, body) ==
  /\ owner[g] = Nothing
  /\ owner' = [owner EXCEPT ![g] = a]
  /\ Settle(<<a, "authorisations", k>>, body, g)
  /\ UNCHANGED spentOn

Spend(g, r, k) ==
  /\ owner[g] \in Actors
  /\ spentOn[g] = Nothing
  /\ \A other \in GrantIds : spentOn[other] # r
  /\ spentOn' = [spentOn EXCEPT ![g] = r]
  /\ Settle(<<owner[g], "runs", k>>, g, r)
  /\ UNCHANGED owner

Next == \/ \E g \in GrantIds, a \in Actors, k \in Keys, body \in Bodies :
             Issue(g, a, k, body)
        \/ \E g \in GrantIds, r \in RunIds, k \in Keys : Spend(g, r, k)

Spec == Init /\ [][Next]_vars
============================================================================

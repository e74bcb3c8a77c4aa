---------------------------- MODULE LiveSession ----------------------------
(***************************************************************************)
(* The assumed-role session the worker keeps between port calls.  A worker *)
(* calls one port at a time; ensure judges the cached session once, before *)
(* the first operation, after the scope: a scope that is not approved      *)
(* changes nothing here.                                                   *)
(*                                                                         *)
(* Time is told as what is left of it: `left` is the life AWS gives the    *)
(* session, `usable` is usableUntilMs - now() of the worker.               *)
(***************************************************************************)
EXTENDS Naturals

CONSTANTS
  SessionTicks,  \* AWS_SESSION_SECONDS
  SkewTicks,     \* AWS_SESSION_REFRESH_SKEW_SECONDS
  Latency        \* bound: ticks from AssumeRole's answer to the identity's

ASSUME TicksAssumption ==
  /\ SessionTicks \in Nat /\ SkewTicks \in Nat /\ Latency \in Nat
  /\ Latency < SkewTicks /\ SkewTicks < SessionTicks

VARIABLES
  phase,    \* what the port call under way is doing
  session,  \* the one assumed last: whose account, and whether it is cached
  left,     \* ticks before AWS refuses it
  usable,   \* ticks for which ensure hands it out
  waited    \* ticks the running getCallerIdentity has taken

vars == <<phase, session, left, usable, waited>>

\* assuming, identifying: inside ensure.  reading: the port uses the
\* operations.  unavailable: the port uses unavailableOps.
Phases == {"idle", "assuming", "identifying", "reading", "unavailable"}

NoSession == [account |-> "none", cached |-> FALSE]

Init ==
  /\ phase = "idle" /\ session = NoSession
  /\ left = 0 /\ usable = 0 /\ waited = 0

Usable == session.cached /\ usable > 0

UseCached ==
  /\ phase = "idle" /\ Usable
  /\ phase' = "reading"
  /\ UNCHANGED <<session, left, usable, waited>>

BootstrapIfNone ==
  /\ phase = "idle" /\ session = NoSession
  /\ phase' = "assuming"
  /\ session' = NoSession /\ left' = 0 /\ usable' = 0 /\ waited' = 0

Bootstrap ==
  /\ phase = "idle" /\ ~Usable
  /\ phase' = "assuming"
  /\ session' = NoSession /\ left' = 0 /\ usable' = 0 /\ waited' = 0

AssumeRole ==
  /\ phase = "assuming"
  /\ phase' = "identifying"
  /\ \E account \in {"own", "other"} :
       session' = [account |-> account, cached |-> FALSE]
  /\ left' = SessionTicks /\ waited' = 0
  /\ UNCHANGED usable

AnyCaller == session.account # "none"

CallerIsOwn == session.account = "own"

LifeToUse == SessionTicks

UsableTicks == SessionTicks - SkewTicks

\* getCallerIdentity answers; assertCallerAccount throws OutOfScopeError.
Identify ==
  /\ phase = "identifying" /\ CallerIsOwn
  /\ phase' = "reading"
  /\ session' = [session EXCEPT !.cached = TRUE]
  /\ usable' = UsableTicks
  /\ UNCHANGED <<left, waited>>

RefuseCaller ==
  /\ phase = "identifying" /\ ~CallerIsOwn
  /\ phase' = "idle"
  /\ UNCHANGED <<session, left, usable, waited>>

BootstrapFails ==
  /\ phase \in {"assuming", "identifying"}
  /\ phase' = "unavailable"
  /\ UNCHANGED <<session, left, usable, waited>>

Return ==
  /\ phase \in {"reading", "unavailable"}
  /\ phase' = "idle"
  /\ UNCHANGED <<session, left, usable, waited>>

Less(ticks) == IF ticks = 0 THEN 0 ELSE ticks - 1

Tick ==
  /\ phase = "identifying" => waited < Latency
  /\ waited' = IF phase = "identifying" THEN waited + 1 ELSE waited
  /\ left' = Less(left) /\ usable' = Less(usable)
  /\ UNCHANGED <<phase, session>>

Next ==
  \/ UseCached \/ Bootstrap \/ AssumeRole \/ Identify \/ RefuseCaller
  \/ BootstrapFails \/ Return \/ Tick

Spec == Init /\ [][Next]_vars

\* Ports are called and return; AWS, asked again and again, assumes the
\* role of the right account at last.
FairSpec ==
  /\ Spec
  /\ WF_vars(UseCached \/ Bootstrap) /\ WF_vars(RefuseCaller \/ Return)
  /\ SF_vars(AssumeRole /\ session'.account = "own") /\ SF_vars(Identify)
----------------------------------------------------------------------------
(* No operation but STS is called under a session whose account has not    *)
(* been found to be the one of the scope, in this port call or any before  *)
(* (assertCallerAccount).                                                  *)
OnlyOwnAccountIsRead ==
  phase = "reading" => session = [account |-> "own", cached |-> TRUE]

StartsReading == phase # "reading" /\ phase' = "reading"

(* A port that starts to read has the skew before it, less the time the    *)
(* bootstrap took: usableUntilMs counts from the answer of                 *)
(* getCallerIdentity.                                                      *)
SessionOutlivesSkew ==
  [][StartsReading => left' > SkewTicks - Latency]_vars

(* "The worker caches operations until 60 seconds before expiry"           *)
(* (ADR-0008:35).                                                          *)
CachedUntilSkewBeforeExpiry ==
  [][StartsReading => left' > SkewTicks]_vars

(* A failed bootstrap does not poison the collects that follow             *)
(* (ADR-0008:35): the session is assumed again until one is read with.     *)
FailureDoesNotPoison == phase = "unavailable" ~> phase = "reading"
=============================================================================

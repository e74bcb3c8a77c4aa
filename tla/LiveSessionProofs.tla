------------------------- MODULE LiveSessionProofs -------------------------
(***************************************************************************)
(* For every life of a session, every skew and every latency below it: a   *)
(* port reads with a checked session only, and one that starts to read has *)
(* the skew before it, less the latency.                                   *)
(*                                                                         *)
(* The life left and the time `ensure` counts are two clocks set at two    *)
(* moments.  The invariant is what keeps them together: while the identity *)
(* is asked for, no more of the life is gone than was waited; afterwards   *)
(* both run down at the same pace.                                         *)
(***************************************************************************)
EXTENDS LiveSession, TLAPS

Sessions ==
  {NoSession} \cup [account : {"own", "other"}, cached : {FALSE}]
              \cup {[account |-> "own", cached |-> TRUE]}

TypeOK ==
  /\ phase \in Phases /\ session \in Sessions
  /\ left \in Nat /\ usable \in Nat /\ waited \in Nat

\* Between AssumeRole's answer and the identity's.
LifeIsWaitedAway ==
  phase = "identifying" => waited <= Latency /\ SessionTicks <= left + waited

\* Between the two answers nothing is handed out.
NothingUsableYet == phase \in {"assuming", "identifying"} => usable = 0

ClocksKeepTogether == usable > 0 => usable + SkewTicks <= left + Latency

IInv == /\ TypeOK /\ OnlyOwnAccountIsRead
        /\ LifeIsWaitedAway /\ NothingUsableYet /\ ClocksKeepTogether

(* A fresh worker has no session and reads nothing.                        *)
LEMMA InitIInv == Init => IInv
BY DEF Init, IInv, TypeOK, Phases, Sessions, NoSession, OnlyOwnAccountIsRead,
       LifeIsWaitedAway, NothingUsableYet, ClocksKeepTogether

(* No step of ensure, of a port or of time tears the two clocks apart.     *)
LEMMA NextIInv == IInv /\ [Next]_vars => IInv'
<1> SUFFICES ASSUME IInv, [Next]_vars PROVE IInv'
  OBVIOUS
<1> USE TicksAssumption DEF IInv, TypeOK, Phases, OnlyOwnAccountIsRead,
        LifeIsWaitedAway, NothingUsableYet, ClocksKeepTogether
<1>1. CASE UseCached
  <2>1. session.cached
    BY <1>1 DEF UseCached, Usable
  <2>2. session = [account |-> "own", cached |-> TRUE]
    <3>1. CASE session = NoSession
      BY <3>1, <2>1 DEF NoSession
    <3>2. CASE session \in [account : {"own", "other"}, cached : {FALSE}]
      BY <3>2, <2>1
    <3>. QED
      BY <3>1, <3>2 DEF Sessions
  <2>3. /\ phase' = "reading"
        /\ UNCHANGED <<session, left, usable, waited>>
    BY <1>1 DEF UseCached
  <2>. QED
    BY <2>2, <2>3
<1>2. CASE Bootstrap
  BY <1>2 DEF Bootstrap, Sessions
<1>3. CASE AssumeRole
  BY <1>3 DEF AssumeRole, Sessions
<1>4. CASE Identify
  <2>1. session' = [account |-> "own", cached |-> TRUE]
    BY <1>4 DEF Identify, CallerIsOwn, Sessions, NoSession
  <2>2. usable' = SessionTicks - SkewTicks /\ left' = left /\ waited' = waited
    BY <1>4 DEF Identify, UsableTicks
  <2>3. phase = "identifying" /\ phase' = "reading"
    BY <1>4, Zenon DEF Identify
  <2>. QED
    BY <2>1, <2>2, <2>3 DEF Sessions
<1>5. CASE RefuseCaller
  BY <1>5 DEF RefuseCaller
<1>6. CASE BootstrapFails
  BY <1>6 DEF BootstrapFails
<1>7. CASE Return
  BY <1>7 DEF Return
<1>8. CASE Tick
  BY <1>8 DEF Tick, Less
<1>9. CASE UNCHANGED vars
  BY <1>9 DEF vars
<1>. QED
  BY <1>1, <1>2, <1>3, <1>4, <1>5, <1>6, <1>7, <1>8, <1>9 DEF Next

(* The strengthened invariant holds always.                                *)
THEOREM ClocksInvariant == Spec => []IInv
BY InitIInv, NextIInv, PTL DEF Spec

(* Nothing but STS is asked before the account was found to be the right   *)
(* one (assertCallerAccount).                                              *)
THEOREM ReadsOwnAccount == Spec => []OnlyOwnAccountIsRead
<1>1. IInv => OnlyOwnAccountIsRead
  BY DEF IInv
<1>. QED
  BY <1>1, ClocksInvariant, PTL

(* However a port comes to its session, the skew less the latency is left  *)
(* of it when the port starts to read.                                     *)
THEOREM SessionsOutliveSkew == Spec => SessionOutlivesSkew
<1>1. IInv /\ [Next]_vars => [StartsReading => left' > SkewTicks - Latency]_vars
  <2> SUFFICES ASSUME IInv, Next, StartsReading
               PROVE  left' > SkewTicks - Latency
    OBVIOUS
  <2> USE TicksAssumption DEF IInv, TypeOK
  <2>1. CASE UseCached
    BY <2>1 DEF UseCached, Usable, ClocksKeepTogether
  <2>2. CASE Identify
    BY <2>2 DEF Identify, LifeIsWaitedAway
  <2>. QED
    BY <2>1, <2>2 DEF Next, StartsReading, Bootstrap, AssumeRole, RefuseCaller,
                      BootstrapFails, Return, Tick
<1>. QED
  BY <1>1, ClocksInvariant, PTL DEF Spec, SessionOutlivesSkew
============================================================================

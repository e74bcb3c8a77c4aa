------------------------ MODULE EventLogProperties ------------------------
(* What the locks and sequence numbers of the store promise.               *)
EXTENDS EventLog

TypeOK ==
  /\ owner \in [Rows -> Txs \cup {Nobody}]
  /\ log \in [Runs -> SUBSET Event]
  /\ phase \in [Txs -> {"idle", "open", "committed", "aborted", "collided"}]
  /\ kind \in [Txs -> Kinds \cup {"none"}]
  /\ target \in [Txs -> Runs]
  /\ todo \in [Txs -> Seq(Statement)]
  /\ number \in [Txs -> Nat]
  /\ drafts \in [Txs -> SUBSET Event]

(* No transaction is thrown out because another one took its number: all   *)
(* who append to a run have locked its row before they read MAX.           *)
NoNumberIsTakenTwice == \A t \in Txs : phase[t] # "collided"

WaitsFor(t, other) ==
  \/ /\ Due(t, "lock") /\ ~AlreadyCancelled(t)
     /\ other # t /\ owner[RowDue(t)] = other
  \/ Due(t, "append") /\ number[t] # 0 /\ KeyHeldBy(t, other)

(* A worker that polls never queues behind the slow transaction of another *)
(* worker or of a client: SKIP LOCKED passes over its run, and whoever     *)
(* holds a step's row without the run's is a heartbeat, which waits for    *)
(* nobody.                                                                 *)
PollIsNotHeldUp ==
  \A t, other \in Txs :
    kind[t] = "claim" /\ WaitsFor(t, other) =>
      /\ kind[other] = "heartbeat"
      /\ \A third \in Txs : ~WaitsFor(other, third)

(* Every transaction that begins comes to its end, nobody waits for ever:  *)
(* as each begins once, in the end none is open.                           *)
EveryTransactionEnds == <>[](\A t \in Txs : phase[t] # "open")

InOrder(r) ==
  [n \in 1..Cardinality(log[r]) |->
    (CHOOSE e \in log[r] : e.sequence = n).operation]

Abstract == INSTANCE AtomicLog WITH
  MaxBatch <- 2, log <- [r \in Runs |-> InOrder(r)]

(* Statement by statement, with waits and rollbacks in between, the log of *)
(* a run grows by whole transactions, one after the other, at its end: the *)
(* numbers are 1, 2, 3 and so on with no gap and no double, and every      *)
(* operation is logged once.                                               *)
ImplementsAtomicLog == Abstract!Spec
============================================================================

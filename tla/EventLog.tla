------------------------------ MODULE EventLog ------------------------------
(***************************************************************************)
(* Inside the transactions of the store, statement by statement: the row   *)
(* locks each takes and the sequence numbers appendEvent hands out under   *)
(* them.  Orchestration takes a transaction as one step; here is why it    *)
(* may.                                                                    *)
(*                                                                         *)
(* What a transaction writes is seen by the others at its COMMIT, but a    *)
(* row it inserted holds its keys in both unique indexes of events until   *)
(* then: an INSERT of the same key waits for the end of that transaction.  *)
(*                                                                         *)
(* Every path that touches a run is one of five kinds.  claim: claimWork.  *)
(* fenced: requireFence and what follows it.  heartbeat.  cancel:          *)
(* cancelCollect.  request: recordCancelRequested.                         *)
(***************************************************************************)
EXTENDS Naturals, Sequences, FiniteSets

CONSTANTS
  Runs,     \* runs that have been enqueued
  Txs,      \* transactions, each begun at most once
  Nobody    \* a row nobody has locked

ASSUME NobodyAssumption == Nobody \notin Txs

VARIABLES
  owner,   \* who has locked each row
  log,     \* events of each run, committed rows
  phase,   \* of each transaction
  kind,    \* which path it is
  target,  \* the run it works on
  todo,    \* the statements before its COMMIT
  number,  \* MAX(sequence) + 1 as its running INSERT read it, 0 if none runs
  drafts   \* the events it has inserted and not committed

vars == <<owner, log, phase, kind, target, todo, number, drafts>>

Kinds == {"claim", "fenced", "heartbeat", "cancel", "request"}

RowKinds == {"run", "collect", "evaluate"}

Rows == RowKinds \X Runs

\* operation_id: the cancel paths use the same for every request; a lease,
\* an observation or a completion has one of its own.
Operations ==
  {"run_cancelled", "step_cancelled", "cancel_requested"} \X {Nobody}
    \cup {"first", "second"} \X Txs

Event == [operation : Operations, sequence : Nat \ {0}]

LockRow(name) == [call |-> "lock", on |-> name]

AppendEvent(operation) == [call |-> "append", on |-> operation]

SharedEvent(name) == AppendEvent(<<name, Nobody>>)

Statement == [call : {"lock"}, on : RowKinds]
               \cup [call : {"append"}, on : Operations]

StepLocksMisnamed == <<LockRow("collect"), LockRow("evaluation")>>

StepLocks == <<LockRow("collect"), LockRow("evaluate")>>

OwnEvents(t) == <<AppendEvent(<<"first", t>>), AppendEvent(<<"second", t>>)>>

FencedScript(t) == <<LockRow("run")>> \o StepLocks \o OwnEvents(t)

StepsBeforeRun ==
  StepLocks \o <<LockRow("run"), SharedEvent("run_cancelled"),
                 SharedEvent("step_cancelled")>>

CancelScript ==
  <<LockRow("run")>> \o StepLocks
    \o <<SharedEvent("run_cancelled"), SharedEvent("step_cancelled")>>

RequestWithoutLock == <<SharedEvent("cancel_requested")>>

RequestScript == <<LockRow("run"), SharedEvent("cancel_requested")>>

Init ==
  /\ owner = [row \in Rows |-> Nobody]
  /\ log = [r \in Runs |-> {}]
  /\ phase = [t \in Txs |-> "idle"]
  /\ kind = [t \in Txs |-> "none"]
  /\ target \in [Txs -> Runs]
  /\ todo = [t \in Txs |-> <<>>]
  /\ number = [t \in Txs |-> 0]
  /\ drafts = [t \in Txs |-> {}]
----------------------------------------------------------------------------
(* BEGIN.                                                                  *)

BeginAs(t, k, script) ==
  /\ phase[t] = "idle"
  /\ phase' = [phase EXCEPT ![t] = "open"]
  /\ kind' = [kind EXCEPT ![t] = k]
  /\ todo' = [todo EXCEPT ![t] = script]
  /\ UNCHANGED <<log, target, number, drafts>>

Begin(t) ==
  /\ \/ BeginAs(t, "fenced", FencedScript(t))
     \/ BeginAs(t, "cancel", CancelScript)
     \/ BeginAs(t, "request", RequestScript)
     \/ \E name \in {"collect", "evaluate"} :
          BeginAs(t, "heartbeat", <<LockRow(name)>>)
  /\ UNCHANGED owner

RunRow(t) == <<"run", target[t]>>

\* claimWork: FOR UPDATE SKIP LOCKED passes over a run that is locked.
Poll(t) ==
  /\ owner[RunRow(t)] = Nobody
  /\ BeginAs(t, "claim", StepLocks \o OwnEvents(t))
  /\ owner' = [owner EXCEPT ![RunRow(t)] = t]
----------------------------------------------------------------------------
(* The statements of a transaction.                                        *)

Due(t, call) == /\ phase[t] = "open" /\ todo[t] # <<>>
                /\ Head(todo[t]).call = call

Operation(t) == Head(todo[t]).on

RowDue(t) == <<Head(todo[t]).on, target[t]>>

Proceed(t) == todo' = [todo EXCEPT ![t] = Tail(@)]

\* cancelCollect returns a run that is cancelled before it locks the steps.
AlreadyCancelled(t) ==
  /\ kind[t] = "cancel" /\ todo[t] = Tail(CancelScript)
  /\ \E e \in log[target[t]] : e.operation = <<"run_cancelled", Nobody>>

Lock(t) ==
  /\ Due(t, "lock") /\ ~AlreadyCancelled(t)
  /\ owner[RowDue(t)] \in {Nobody, t}
  /\ owner' = [owner EXCEPT ![RowDue(t)] = t]
  /\ Proceed(t)
  /\ UNCHANGED <<log, phase, kind, target, number, drafts>>

LeaveStepsAlone(t) ==
  /\ Due(t, "lock") /\ AlreadyCancelled(t)
  /\ todo' = [todo EXCEPT ![t] = SubSeq(@, 3, Len(@))]
  /\ UNCHANGED <<owner, log, phase, kind, target, number, drafts>>

Seen(t) == log[target[t]] \cup drafts[t]

NeverLogged(t) == FALSE

IsLogged(t) == \E e \in Seen(t) : e.operation = Operation(t)

Sequences(events) == {e.sequence : e \in events}

Greatest(numbers) ==
  CHOOSE n \in {0} \cup numbers : \A m \in numbers : m <= n

MaxSequence(t) == Greatest(Sequences(Seen(t)))

FindLogged(t) ==
  /\ Due(t, "append") /\ number[t] = 0 /\ IsLogged(t)
  /\ Proceed(t)
  /\ UNCHANGED <<owner, log, phase, kind, target, number, drafts>>

\* The subselect of the INSERT runs before the row is inserted.
TakeNumber(t) ==
  /\ Due(t, "append") /\ number[t] = 0 /\ ~IsLogged(t)
  /\ number' = [number EXCEPT ![t] = MaxSequence(t) + 1]
  /\ UNCHANGED <<owner, log, phase, kind, target, todo, drafts>>

\* Another open transaction holds the key this INSERT wants.
KeyHeldBy(t, other) ==
  /\ other # t /\ target[other] = target[t]
  /\ \E e \in drafts[other] :
       e.operation = Operation(t) \/ e.sequence = number[t]

Inserting(t) == /\ Due(t, "append") /\ number[t] # 0
                /\ \A other \in Txs : ~KeyHeldBy(t, other)

SequenceTaken(t) == number[t] \in Sequences(Seen(t))

KeepLocks(t) == UNCHANGED owner

Unlock(t) ==
  owner' = [row \in Rows |-> IF owner[row] = t THEN Nobody ELSE owner[row]]

End(t, outcome) ==
  /\ Unlock(t)
  /\ phase' = [phase EXCEPT ![t] = outcome]
  /\ todo' = [todo EXCEPT ![t] = <<>>]
  /\ number' = [number EXCEPT ![t] = 0]
  /\ drafts' = [drafts EXCEPT ![t] = {}]
  /\ UNCHANGED <<kind, target>>

Written(t) ==
  IF IsLogged(t) THEN drafts
  ELSE [drafts EXCEPT ![t] = @ \cup
          {[operation |-> Operation(t), sequence |-> number[t]]}]

\* ON CONFLICT names the operation's index: a duplicate sequence is an error.
Insert(t) ==
  /\ Inserting(t)
  /\ IF SequenceTaken(t) /\ ~IsLogged(t)
       THEN End(t, "collided")
       ELSE /\ drafts' = Written(t)
            /\ number' = [number EXCEPT ![t] = 0]
            /\ Proceed(t)
            /\ UNCHANGED <<owner, phase, kind, target>>
  /\ UNCHANGED log

Commit(t) ==
  /\ phase[t] = "open" /\ todo[t] = <<>>
  /\ log' = [log EXCEPT ![target[t]] = @ \cup drafts[t]]
  /\ End(t, "committed")

\* The fence is lost, an update finds no row, the process dies: ROLLBACK.
Abort(t) ==
  /\ phase[t] = "open"
  /\ End(t, "aborted")
  /\ UNCHANGED log

Step(t) ==
  \/ Lock(t) \/ LeaveStepsAlone(t) \/ FindLogged(t) \/ TakeNumber(t)
  \/ Insert(t) \/ Commit(t)

Next == \E t \in Txs : Begin(t) \/ Poll(t) \/ Step(t) \/ Abort(t)

Spec == Init /\ [][Next]_vars

\* The database runs every statement that need not wait.
FairSpec == Spec /\ \A t \in Txs : WF_vars(Step(t))
============================================================================

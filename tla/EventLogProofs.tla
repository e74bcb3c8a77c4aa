--------------------------- MODULE EventLogProofs ---------------------------
(***************************************************************************)
(* For any number of runs and transactions: the types of the log, that no  *)
(* two transactions ever take the same sequence number, that a worker that *)
(* polls is not held up, and that each log grows by whole transactions.    *)
(*                                                                         *)
(* Whoever appends holds the row of the run (OwnsOrWaits).  So, while a    *)
(* transaction works with the number it read, nobody else can commit to    *)
(* that log, and the number stays above all it sees (NumberIsNew).  That   *)
(* there is a greatest number to read at all is kept step by step          *)
(* (LogsHaveGreatest): each new one is the greatest.                       *)
(*                                                                         *)
(* The second half, JInv, says more of the same: a log is numbered without *)
(* a gap (Dense), a script appends at its end (BatchFits), and rows are    *)
(* locked in order (HoldsItsOwn, ClaimHolds).                              *)
(***************************************************************************)
EXTENDS EventLogProperties, SequenceTheorems, FiniteSetTheorems, TLAPS

\* Without the row of its run a transaction has written nothing, and unless
\* it is a heartbeat its next statement locks that row.
OwnsOrWaits(t) ==
  owner[RunRow(t)] # t =>
    /\ number[t] = 0 /\ drafts[t] = {}
    /\ phase[t] = "open" /\ kind[t] # "heartbeat" =>
         todo[t] # <<>> /\ Head(todo[t]) = LockRow("run")

HeartbeatOnlyLocks(t) ==
  kind[t] = "heartbeat" => \A i \in 1..Len(todo[t]) : todo[t][i].call = "lock"

ClosedIsEmpty(t) == phase[t] # "open" => number[t] = 0 /\ drafts[t] = {}

NumberIsNew(t) ==
  number[t] # 0 => \A n \in Sequences(Seen(t)) : n < number[t]

HasGreatest(numbers) ==
  \E n \in {0} \cup numbers : \A m \in numbers : m <= n

LogsHaveGreatest ==
  /\ \A r \in Runs : HasGreatest(Sequences(log[r]))
  /\ \A t \in Txs : HasGreatest(Sequences(Seen(t)))

Transaction(t) ==
  OwnsOrWaits(t) /\ HeartbeatOnlyLocks(t) /\ ClosedIsEmpty(t) /\ NumberIsNew(t)

IInv ==
  /\ TypeOK /\ NoNumberIsTakenTwice /\ LogsHaveGreatest
  /\ \A t \in Txs : Transaction(t)
----------------------------------------------------------------------------
(* Scripts.                                                                *)

(* The locks of both steps and the events of a transaction are statements. *)
LEMMA Statements ==
  /\ \A name \in RowKinds : LockRow(name) \in Statement
  /\ \A operation \in Operations : AppendEvent(operation) \in Statement
BY DEF LockRow, AppendEvent, Statement

(* What is put together to make a script.                                  *)
LEMMA Pieces ==
  ASSUME NEW t \in Txs
  PROVE  /\ StepLocks \in Seq(Statement) /\ OwnEvents(t) \in Seq(Statement)
         /\ <<LockRow("run")>> \in Seq(Statement)
         /\ <<SharedEvent("run_cancelled"), SharedEvent("step_cancelled")>>
              \in Seq(Statement)
         /\ RequestScript \in Seq(Statement)
         /\ Len(StepLocks) = 2 /\ StepLocks[1] = LockRow("collect")
<1>1. /\ LockRow("run") \in Statement /\ LockRow("collect") \in Statement
      /\ LockRow("evaluate") \in Statement
  BY Statements DEF RowKinds
<1>2. /\ AppendEvent(<<"first", t>>) \in Statement
      /\ AppendEvent(<<"second", t>>) \in Statement
  BY Statements DEF Operations
<1>3. \A name \in {"run_cancelled", "step_cancelled", "cancel_requested"} :
        SharedEvent(name) \in Statement
  BY Statements DEF Operations, SharedEvent
<1>. QED
  BY <1>1, <1>2, <1>3 DEF StepLocks, OwnEvents, RequestScript

(* Every script but a heartbeat's and a claim's begins with the run.       *)
LEMMA Scripts ==
  ASSUME NEW t \in Txs
  PROVE  /\ \A script \in {FencedScript(t), CancelScript, RequestScript} :
              /\ script \in Seq(Statement) /\ script # <<>>
              /\ Head(script) = LockRow("run")
         /\ StepLocks \o OwnEvents(t) \in Seq(Statement)
<1> DEFINE run == <<LockRow("run")>>
           cancelled == <<SharedEvent("run_cancelled"), SharedEvent("step_cancelled")>>
<1>1. /\ run \in Seq(Statement) /\ cancelled \in Seq(Statement)
      /\ Len(run) = 1 /\ run[1] = LockRow("run")
      /\ StepLocks \in Seq(Statement) /\ OwnEvents(t) \in Seq(Statement)
  BY Pieces
<1>. HIDE DEF run, cancelled
<1>2. \A rest \in Seq(Statement) :
        /\ (run \o StepLocks) \o rest \in Seq(Statement)
        /\ (run \o StepLocks) \o rest # <<>>
        /\ Head((run \o StepLocks) \o rest) = LockRow("run")
  <2> TAKE rest \in Seq(Statement)
  <2>1. /\ run \o StepLocks \in Seq(Statement) /\ Len(run \o StepLocks) >= 1
        /\ (run \o StepLocks)[1] = LockRow("run")
    BY <1>1, ConcatProperties
  <2>2. /\ (run \o StepLocks) \o rest \in Seq(Statement)
        /\ Len((run \o StepLocks) \o rest) >= 1
        /\ ((run \o StepLocks) \o rest)[1] = LockRow("run")
    BY <2>1, ConcatProperties
  <2>. QED
    BY <2>2
<1>3. FencedScript(t) = (run \o StepLocks) \o OwnEvents(t)
  BY DEF FencedScript, run
<1>4. CancelScript = (run \o StepLocks) \o cancelled
  BY DEF CancelScript, run, cancelled
<1>5. /\ RequestScript \in Seq(Statement) /\ RequestScript # <<>>
      /\ Head(RequestScript) = LockRow("run")
  BY Pieces DEF RequestScript
<1>6. StepLocks \o OwnEvents(t) \in Seq(Statement)
  BY <1>1, ConcatProperties
<1>. QED
  BY <1>1, <1>2, <1>3, <1>4, <1>5, <1>6

(* A cancel that has locked the run is about to lock the collect step.     *)
LEMMA RestOfCancel ==
  ASSUME NEW t \in Txs
  PROVE  /\ Tail(CancelScript) \in Seq(Statement) /\ Len(Tail(CancelScript)) = 4
         /\ Head(Tail(CancelScript)) # LockRow("run")
<1> DEFINE run == <<LockRow("run")>>
           cancelled == <<SharedEvent("run_cancelled"), SharedEvent("step_cancelled")>>
<1>1. /\ run \in Seq(Statement) /\ Len(run) = 1
      /\ cancelled \in Seq(Statement) /\ Len(cancelled) = 2
      /\ StepLocks \in Seq(Statement) /\ Len(StepLocks) = 2
      /\ StepLocks[1] = LockRow("collect")
  BY Pieces
<1>2. CancelScript = (run \o StepLocks) \o cancelled
  BY DEF CancelScript
<1>. HIDE DEF run, cancelled
<1>3. /\ run \o StepLocks \in Seq(Statement) /\ Len(run \o StepLocks) = 3
      /\ (run \o StepLocks)[2] = LockRow("collect")
  <2>1. /\ run \o StepLocks \in Seq(Statement)
        /\ Len(run \o StepLocks) = 1 + 2
        /\ \A i \in 1..1 + 2 : (run \o StepLocks)[i] =
             IF i <= 1 THEN run[i] ELSE StepLocks[i - 1]
    BY <1>1, ConcatProperties
  <2>. QED
    BY <1>1, <2>1
<1>4. /\ CancelScript \in Seq(Statement) /\ Len(CancelScript) = 5
      /\ CancelScript[2] = LockRow("collect")
  BY <1>1, <1>2, <1>3, ConcatProperties
<1>5. /\ Tail(CancelScript) \in Seq(Statement) /\ Len(Tail(CancelScript)) = 4
      /\ Tail(CancelScript)[1] = LockRow("collect")
  BY <1>4, HeadTailProperties
<1>6. LockRow("collect") # LockRow("run")
  BY DEF LockRow
<1>. QED
  BY <1>5, <1>6
----------------------------------------------------------------------------
(* Locks and numbers.                                                      *)

(* Whoever is due to append holds the row of its run.                      *)
LEMMA AppendersOwn ==
  ASSUME IInv, NEW t \in Txs, Due(t, "append")
  PROVE  owner[RunRow(t)] = t
<1>1. /\ phase[t] = "open" /\ todo[t] \in Seq(Statement) /\ todo[t] # <<>>
      /\ Head(todo[t]).call = "append"
  BY DEF Due, IInv, TypeOK
<1>2. CASE kind[t] = "heartbeat"
  <2>1. todo[t][1].call = "lock"
    BY <1>1, <1>2 DEF IInv, Transaction, HeartbeatOnlyLocks
  <2>. QED
    BY <1>1, <2>1
<1>3. CASE kind[t] # "heartbeat"
  BY <1>1, <1>3 DEF IInv, Transaction, OwnsOrWaits, LockRow
<1>. QED
  BY <1>2, <1>3

(* The greatest number is above all others.                                *)
LEMMA GreatestIsGreatest ==
  ASSUME NEW numbers \in SUBSET Nat, HasGreatest(numbers)
  PROVE  Greatest(numbers) \in Nat /\ \A n \in numbers : n <= Greatest(numbers)
<1>1. /\ Greatest(numbers) \in {0} \cup numbers
      /\ \A n \in numbers : n <= Greatest(numbers)
  BY Zenon DEF HasGreatest, Greatest
<1>2. 0 \in Nat /\ numbers \subseteq Nat
  OBVIOUS
<1>. QED
  BY <1>1, <1>2

(* A number above all others is the greatest once it is one of them.       *)
LEMMA OneMore ==
  ASSUME NEW events \in SUBSET Event, NEW e \in Event,
         \A n \in Sequences(events) : n < e.sequence
  PROVE  HasGreatest(Sequences(events \cup {e}))
<1>1. e.sequence \in Nat /\ Sequences(events) \subseteq Nat
  BY DEF Event, Sequences
<1>2. Sequences(events \cup {e}) = Sequences(events) \cup {e.sequence}
  BY DEF Sequences
<1>3. \A m \in Sequences(events) \cup {e.sequence} : m <= e.sequence
  BY <1>1
<1>. QED
  BY <1>2, <1>3 DEF HasGreatest

(* What a transaction sees are events.                                     *)
LEMMA SeenType ==
  ASSUME TypeOK, NEW t \in Txs
  PROVE  Seen(t) \in SUBSET Event /\ Sequences(Seen(t)) \in SUBSET Nat
BY DEF TypeOK, Seen, Sequences, Event
----------------------------------------------------------------------------
(* The steps.                                                              *)

(* Nothing is logged yet.                                                  *)
LEMMA InitIInv == Init => IInv
<1> SUFFICES ASSUME Init PROVE IInv
  OBVIOUS
<1>1. TypeOK
  BY DEF Init, TypeOK
<1>2. \A t \in Txs : Seen(t) = {}
  BY DEF Init, Seen
<1>3. LogsHaveGreatest
  BY <1>2 DEF Init, LogsHaveGreatest, HasGreatest, Sequences
<1>4. \A t \in Txs : Transaction(t)
  BY DEF Init, Transaction, OwnsOrWaits, HeartbeatOnlyLocks, ClosedIsEmpty, NumberIsNew
<1>5. NoNumberIsTakenTwice
  BY DEF Init, NoNumberIsTakenTwice
<1>. QED
  BY <1>1, <1>3, <1>4, <1>5 DEF IInv

\* A step of t leaves the others as they are.
OthersStay(t) ==
  \A p \in Txs \ {t} :
    /\ phase'[p] = phase[p] /\ kind'[p] = kind[p] /\ todo'[p] = todo[p]
    /\ number'[p] = number[p] /\ drafts'[p] = drafts[p]
    /\ owner[RunRow(p)] = p => owner'[RunRow(p)] = p

(* A step that touches neither the log nor any number or draft.            *)
LEMMA Quiet ==
  ASSUME IInv, NEW t \in Txs, TypeOK', OthersStay(t),
         UNCHANGED <<log, target, number, drafts>>,
         phase'[t] = "open",
         OwnsOrWaits(t)', HeartbeatOnlyLocks(t)'
  PROVE  IInv'
<1>1. \A p \in Txs : Seen(p)' = Seen(p) /\ RunRow(p)' = RunRow(p)
  BY DEF Seen, RunRow
<1>2. LogsHaveGreatest'
  BY <1>1 DEF IInv, LogsHaveGreatest, HasGreatest, Sequences
<1>3. NoNumberIsTakenTwice'
  BY DEF IInv, NoNumberIsTakenTwice, OthersStay
<1>4. Transaction(t)'
  BY <1>1 DEF IInv, Transaction, ClosedIsEmpty, NumberIsNew, Sequences
<1>5. ASSUME NEW p \in Txs, p # t PROVE Transaction(p)'
  BY <1>1, <1>5 DEF IInv, OthersStay, Transaction, OwnsOrWaits, HeartbeatOnlyLocks,
     ClosedIsEmpty, NumberIsNew, Sequences
<1>6. \A p \in Txs : Transaction(p)'
  BY <1>4, <1>5
<1>. QED
  BY <1>2, <1>3, <1>6 DEF IInv

(* A transaction begins.                                                   *)
LEMMA Begins ==
  ASSUME IInv, NEW t \in Txs, Begin(t) \/ Poll(t)
  PROVE  IInv'
<1>1. PICK k \in Kinds, script \in Seq(Statement) :
        /\ BeginAs(t, k, script)
        /\ \/ /\ owner' = owner
              /\ \/ script # <<>> /\ Head(script) = LockRow("run") /\ k # "heartbeat"
                 \/ k = "heartbeat" /\ \A i \in 1..Len(script) : script[i].call = "lock"
           \/ /\ k # "heartbeat" /\ owner[RunRow(t)] = Nobody
              /\ owner' = [owner EXCEPT ![RunRow(t)] = t]
  <2>1. CASE Poll(t)
    BY <2>1, Scripts DEF Poll, Kinds
  <2>2. CASE \E name \in {"collect", "evaluate"} :
               BeginAs(t, "heartbeat", <<LockRow(name)>>) /\ owner' = owner
    <3>1. PICK name \in {"collect", "evaluate"} :
            BeginAs(t, "heartbeat", <<LockRow(name)>>) /\ owner' = owner
      BY <2>2
    <3>2. LockRow(name) \in Statement /\ LockRow(name).call = "lock"
      BY Statements DEF RowKinds, LockRow
    <3>3. /\ <<LockRow(name)>> \in Seq(Statement)
          /\ \A i \in 1..Len(<<LockRow(name)>>) : <<LockRow(name)>>[i].call = "lock"
      BY <3>2
    <3>. QED
      BY <3>1, <3>3 DEF Kinds
  <2>3. CASE BeginAs(t, "fenced", FencedScript(t)) /\ owner' = owner
    BY <2>3, Scripts DEF Kinds
  <2>4. CASE BeginAs(t, "cancel", CancelScript) /\ owner' = owner
    BY <2>4, Scripts DEF Kinds
  <2>5. CASE BeginAs(t, "request", RequestScript) /\ owner' = owner
    BY <2>5, Scripts DEF Kinds
  <2>. QED
    BY <2>1, <2>2, <2>3, <2>4, <2>5 DEF Begin
<1>2. /\ phase[t] = "idle"
      /\ phase' = [phase EXCEPT ![t] = "open"] /\ kind' = [kind EXCEPT ![t] = k]
      /\ todo' = [todo EXCEPT ![t] = script]
      /\ UNCHANGED <<log, target, number, drafts>>
  BY <1>1 DEF BeginAs
<1>3. RunRow(t) \in Rows
  BY DEF IInv, TypeOK, RunRow, Rows, RowKinds
<1>4. /\ phase'[t] = "open" /\ kind'[t] = k /\ todo'[t] = script
      /\ \A p \in Txs \ {t} :
           phase'[p] = phase[p] /\ kind'[p] = kind[p] /\ todo'[p] = todo[p]
  BY <1>2 DEF IInv, TypeOK
<1>5. \A row \in Rows : owner[row] # Nobody => owner'[row] = owner[row]
  BY <1>1, <1>3 DEF IInv, TypeOK
<1>6. TypeOK'
  BY <1>1, <1>2, <1>3 DEF IInv, TypeOK
<1>7. OthersStay(t)
  <2>1. \A p \in Txs : RunRow(p) \in Rows
    BY DEF IInv, TypeOK, RunRow, Rows, RowKinds
  <2>. QED
    BY <1>2, <1>4, <1>5, <2>1, NobodyAssumption DEF OthersStay
<1>8. OwnsOrWaits(t)'
  <2>1. number[t] = 0 /\ drafts[t] = {}
    BY <1>2 DEF IInv, Transaction, ClosedIsEmpty
  <2>2. RunRow(t)' = RunRow(t)
    BY <1>2 DEF RunRow
  <2>3. owner' = [owner EXCEPT ![RunRow(t)] = t] => owner'[RunRow(t)] = t
    BY <1>3 DEF IInv, TypeOK
  <2>. QED
    BY <1>1, <1>2, <1>4, <2>1, <2>2, <2>3 DEF OwnsOrWaits
<1>9. HeartbeatOnlyLocks(t)'
  BY <1>1, <1>4 DEF HeartbeatOnlyLocks
<1>. QED
  BY <1>2, <1>4, <1>6, <1>7, <1>8, <1>9, Quiet

(* A row is locked.                                                        *)
LEMMA Locks ==
  ASSUME IInv, NEW t \in Txs, Lock(t)
  PROVE  IInv'
<1>1. /\ phase[t] = "open" /\ todo[t] # <<>> /\ Head(todo[t]).call = "lock"
      /\ owner[RowDue(t)] \in {Nobody, t}
      /\ owner' = [owner EXCEPT ![RowDue(t)] = t]
      /\ todo' = [todo EXCEPT ![t] = Tail(todo[t])]
      /\ UNCHANGED <<log, phase, kind, target, number, drafts>>
  BY DEF Lock, Due, Proceed
<1>2. /\ todo[t] \in Seq(Statement) /\ Head(todo[t]) \in Statement
      /\ Tail(todo[t]) \in Seq(Statement)
      /\ Len(Tail(todo[t])) = Len(todo[t]) - 1
      /\ \A i \in 1..Len(Tail(todo[t])) : Tail(todo[t])[i] = todo[t][i + 1]
  BY <1>1, HeadTailProperties DEF IInv, TypeOK
<1>3. /\ RowDue(t) \in Rows /\ \A p \in Txs : RunRow(p) \in Rows
  BY <1>1, <1>2 DEF IInv, TypeOK, RowDue, RunRow, Rows, Statement, RowKinds
<1>4. /\ owner'[RowDue(t)] = t
      /\ \A row \in Rows : owner[row] \notin {Nobody} => owner'[row] = owner[row]
  BY <1>1, <1>3 DEF IInv, TypeOK
<1>5. TypeOK'
  BY <1>1, <1>2, <1>3 DEF IInv, TypeOK
<1>6. OthersStay(t)
  BY <1>1, <1>3, <1>4, NobodyAssumption DEF OthersStay, IInv, TypeOK
<1>7. RunRow(t)' = RunRow(t) /\ todo'[t] = Tail(todo[t])
  BY <1>1 DEF RunRow, IInv, TypeOK
<1>8. OwnsOrWaits(t)'
  <2>1. CASE Head(todo[t]) = LockRow("run")
    <3>1. RowDue(t) = RunRow(t)
      BY <2>1 DEF RowDue, RunRow, LockRow
    <3>. QED
      BY <1>4, <1>7, <3>1 DEF OwnsOrWaits
  <2>2. CASE Head(todo[t]) # LockRow("run")
    <3>1. owner[RunRow(t)] = t => owner'[RunRow(t)] = t
      BY <1>3, <1>4, NobodyAssumption
    <3>2. OwnsOrWaits(t)
      BY DEF IInv, Transaction
    <3>. QED
      BY <1>1, <1>7, <2>2, <3>1, <3>2 DEF OwnsOrWaits
  <2>. QED
    BY <2>1, <2>2
<1>9. HeartbeatOnlyLocks(t)'
  <2>1. HeartbeatOnlyLocks(t)
    BY DEF IInv, Transaction
  <2>. QED
    BY <1>1, <1>2, <1>7, <2>1 DEF HeartbeatOnlyLocks
<1>. QED
  BY <1>1, <1>5, <1>6, <1>8, <1>9, Quiet

(* An owner of the row of its run that only goes on.                       *)
LEMMA OwnerGoesOn ==
  ASSUME IInv, NEW t \in Txs, phase[t] = "open", owner[RunRow(t)] = t,
         kind[t] # "heartbeat",
         NEW rest \in Seq(Statement), todo' = [todo EXCEPT ![t] = rest],
         UNCHANGED <<owner, log, phase, kind, target, number, drafts>>
  PROVE  IInv'
<1>1. TypeOK'
  BY DEF IInv, TypeOK
<1>2. OthersStay(t)
  BY DEF OthersStay, IInv, TypeOK
<1>3. OwnsOrWaits(t)' /\ HeartbeatOnlyLocks(t)'
  BY DEF OwnsOrWaits, HeartbeatOnlyLocks, RunRow
<1>. QED
  BY <1>1, <1>2, <1>3, Quiet

(* A cancel of a cancelled run leaves its steps alone.                     *)
LEMMA LeavesStepsAlone ==
  ASSUME IInv, NEW t \in Txs, LeaveStepsAlone(t)
  PROVE  IInv'
<1>1. /\ phase[t] = "open" /\ kind[t] = "cancel" /\ todo[t] = Tail(CancelScript)
      /\ todo' = [todo EXCEPT ![t] = SubSeq(todo[t], 3, Len(todo[t]))]
      /\ UNCHANGED <<owner, log, phase, kind, target, number, drafts>>
  BY DEF LeaveStepsAlone, Due, AlreadyCancelled
<1>2. owner[RunRow(t)] = t
  BY <1>1, RestOfCancel DEF IInv, Transaction, OwnsOrWaits
<1>3. SubSeq(todo[t], 3, Len(todo[t])) \in Seq(Statement)
  <2>1. todo[t] \in Seq(Statement) /\ Len(todo[t]) = 4
    BY <1>1, RestOfCancel
  <2>2. \A i \in 3..Len(todo[t]) : todo[t][i] \in Statement
    BY <2>1
  <2>. QED
    BY <2>1, <2>2, SubSeqProperties
<1>. QED
  BY <1>1, <1>2, <1>3, OwnerGoesOn

(* No heartbeat is due to append.                                          *)
LEMMA HeartbeatsDoNotAppend ==
  ASSUME IInv, NEW t \in Txs, Due(t, "append")
  PROVE  /\ kind[t] # "heartbeat" /\ phase[t] = "open"
         /\ todo[t] \in Seq(Statement) /\ todo[t] # <<>>
         /\ Tail(todo[t]) \in Seq(Statement) /\ Operation(t) \in Operations
<1>1. /\ phase[t] = "open" /\ todo[t] \in Seq(Statement) /\ todo[t] # <<>>
      /\ Head(todo[t]).call = "append" /\ Head(todo[t]) \in Statement
      /\ Tail(todo[t]) \in Seq(Statement)
  BY HeadTailProperties DEF Due, IInv, TypeOK
<1>2. kind[t] # "heartbeat"
  BY <1>1 DEF IInv, Transaction, HeartbeatOnlyLocks
<1>3. Operation(t) \in Operations
  BY <1>1 DEF Operation, Statement
<1>. QED
  BY <1>1, <1>2, <1>3

(* An event that is logged is passed over.                                 *)
LEMMA FindsLogged ==
  ASSUME IInv, NEW t \in Txs, FindLogged(t)
  PROVE  IInv'
<1>1. /\ Due(t, "append") /\ todo' = [todo EXCEPT ![t] = Tail(todo[t])]
      /\ UNCHANGED <<owner, log, phase, kind, target, number, drafts>>
  BY DEF FindLogged, Proceed
<1>. QED
  BY <1>1, AppendersOwn, HeartbeatsDoNotAppend, OwnerGoesOn

(* MAX + 1 is read under the lock of the run.                              *)
LEMMA TakesNumber ==
  ASSUME IInv, NEW t \in Txs, TakeNumber(t)
  PROVE  IInv'
<1> DEFINE new == MaxSequence(t) + 1
<1>1. /\ Due(t, "append") /\ number' = [number EXCEPT ![t] = new]
      /\ UNCHANGED <<owner, log, phase, kind, target, todo, drafts>>
  BY DEF TakeNumber
<1>2. MaxSequence(t) \in Nat /\ \A n \in Sequences(Seen(t)) : n <= MaxSequence(t)
  BY SeenType, GreatestIsGreatest DEF IInv, LogsHaveGreatest, MaxSequence
<1>3. new \in Nat /\ \A n \in Sequences(Seen(t)) : n < new
  <2>1. Sequences(Seen(t)) \subseteq Nat
    BY SeenType DEF IInv
  <2>. QED
    BY <1>2, <2>1
<1>. HIDE DEF new
<1>4. TypeOK'
  BY <1>1, <1>3 DEF IInv, TypeOK
<1>5. \A p \in Txs : Seen(p)' = Seen(p) /\ RunRow(p)' = RunRow(p)
  BY <1>1 DEF Seen, RunRow
<1>6. LogsHaveGreatest' /\ NoNumberIsTakenTwice'
  BY <1>1, <1>5 DEF IInv, LogsHaveGreatest, HasGreatest, Sequences, NoNumberIsTakenTwice
<1>7. number'[t] = new /\ \A p \in Txs \ {t} : number'[p] = number[p]
  BY <1>1 DEF IInv, TypeOK
<1>8. Transaction(t)'
  <2>1. owner[RunRow(t)] = t /\ phase[t] = "open" /\ kind[t] # "heartbeat"
    BY <1>1, AppendersOwn, HeartbeatsDoNotAppend
  <2>. QED
    BY <1>1, <1>3, <1>5, <1>7, <2>1 DEF Transaction, OwnsOrWaits, HeartbeatOnlyLocks,
       ClosedIsEmpty, NumberIsNew, Sequences
<1>9. ASSUME NEW p \in Txs, p # t PROVE Transaction(p)'
  <2>1. Transaction(p)
    BY DEF IInv
  <2>. QED
    BY <1>1, <1>5, <1>7, <1>9, <2>1 DEF Transaction, OwnsOrWaits, HeartbeatOnlyLocks,
       ClosedIsEmpty, NumberIsNew, Sequences
<1>10. \A p \in Txs : Transaction(p)'
  BY <1>8, <1>9
<1>. QED
  BY <1>4, <1>6, <1>10 DEF IInv

(* The number of a running INSERT is in no row it can see.                 *)
LEMMA NeverTaken ==
  ASSUME IInv, NEW t \in Txs, Inserting(t)
  PROVE  ~SequenceTaken(t)
<1>1. number[t] # 0 /\ NumberIsNew(t)
  BY DEF Inserting, IInv, Transaction
<1>2. number[t] \in Nat /\ ~(number[t] < number[t])
  BY DEF IInv, TypeOK
<1>. QED
  BY <1>1, <1>2 DEF NumberIsNew, SequenceTaken

(* An event is inserted, or found to be there.                             *)
LEMMA Inserts ==
  ASSUME IInv, NEW t \in Txs, Insert(t)
  PROVE  IInv'
<1> DEFINE e == [operation |-> Operation(t), sequence |-> number[t]]
<1>1. /\ Due(t, "append") /\ number[t] # 0
      /\ drafts' = Written(t) /\ number' = [number EXCEPT ![t] = 0]
      /\ todo' = [todo EXCEPT ![t] = Tail(todo[t])]
      /\ UNCHANGED <<owner, log, phase, kind, target>>
  BY NeverTaken DEF Insert, Inserting, Proceed
<1>2. /\ owner[RunRow(t)] = t /\ phase[t] = "open" /\ kind[t] # "heartbeat"
      /\ Tail(todo[t]) \in Seq(Statement) /\ Operation(t) \in Operations
  BY <1>1, AppendersOwn, HeartbeatsDoNotAppend
<1>3. e \in Event /\ e.sequence = number[t]
  BY <1>1, <1>2 DEF Event, IInv, TypeOK
<1>4. \/ drafts' = drafts
      \/ drafts' = [drafts EXCEPT ![t] = drafts[t] \cup {e}]
  BY <1>1 DEF Written
<1>. HIDE DEF e
<1>5. TypeOK'
  <2>1. drafts' \in [Txs -> SUBSET Event]
    <3>1. drafts \in [Txs -> SUBSET Event] /\ drafts[t] \cup {e} \in SUBSET Event
      BY <1>3 DEF IInv, TypeOK
    <3>. QED
      BY <1>4, <3>1
  <2>2. number' \in [Txs -> Nat] /\ todo' \in [Txs -> Seq(Statement)]
    BY <1>1, <1>2 DEF IInv, TypeOK
  <2>. QED
    BY <1>1, <2>1, <2>2 DEF IInv, TypeOK
<1>6. /\ \A p \in Txs : RunRow(p)' = RunRow(p)
      /\ \A p \in Txs \ {t} : /\ Seen(p)' = Seen(p) /\ drafts'[p] = drafts[p]
                              /\ number'[p] = number[p] /\ todo'[p] = todo[p]
      /\ number'[t] = 0
      /\ Seen(t)' = Seen(t) \/ Seen(t)' = Seen(t) \cup {e}
  BY <1>1, <1>4 DEF Seen, RunRow, IInv, TypeOK
<1>7. HasGreatest(Sequences(Seen(t) \cup {e}))
  BY <1>1, <1>3, SeenType, OneMore DEF IInv, Transaction, NumberIsNew
<1>8. LogsHaveGreatest'
  <2>1. \A r \in Runs : HasGreatest(Sequences(log[r]))'
    BY <1>1 DEF IInv, LogsHaveGreatest, HasGreatest, Sequences
  <2>2. ASSUME NEW p \in Txs PROVE HasGreatest(Sequences(Seen(p)))'
    <3>1. Seen(p)' = Seen(p) \/ (p = t /\ Seen(p)' = Seen(t) \cup {e})
      BY <1>6 DEF Seen
    <3>2. HasGreatest(Sequences(Seen(p)))
      BY DEF IInv, LogsHaveGreatest
    <3>. QED
      BY <1>7, <3>1, <3>2 DEF HasGreatest, Sequences
  <2>. QED
    BY <2>1, <2>2 DEF LogsHaveGreatest
<1>9. NoNumberIsTakenTwice'
  BY <1>1 DEF IInv, NoNumberIsTakenTwice
<1>10. Transaction(t)'
  BY <1>1, <1>2, <1>6 DEF Transaction, OwnsOrWaits, HeartbeatOnlyLocks, ClosedIsEmpty,
     NumberIsNew
<1>11. ASSUME NEW p \in Txs, p # t PROVE Transaction(p)'
  <2>1. Transaction(p)
    BY DEF IInv
  <2>. QED
    BY <1>1, <1>6, <1>11, <2>1 DEF Transaction, OwnsOrWaits, HeartbeatOnlyLocks,
       ClosedIsEmpty, NumberIsNew, Sequences
<1>12. \A p \in Txs : Transaction(p)'
  BY <1>10, <1>11
<1>. QED
  BY <1>5, <1>8, <1>9, <1>12 DEF IInv

(* What others work on is not changed by the end of a transaction: each    *)
(* log is as it was, or as the transaction saw it.                         *)
LEMMA LogAfterEnd ==
  ASSUME IInv, NEW t \in Txs, NEW outcome, End(t, outcome),
         \/ log' = log
         \/ log' = [log EXCEPT ![target[t]] = log[target[t]] \cup drafts[t]]
  PROVE  /\ log' \in [Runs -> SUBSET Event]
         /\ \A r \in Runs : log'[r] = log[r] \/ (r = target[t] /\ log'[r] = Seen(t))
         /\ \A p \in Txs : p # t /\ (number[p] # 0 \/ drafts[p] # {}) =>
                           Seen(p)' = Seen(p)
         /\ \A p \in Txs : \/ Seen(p)' = log'[target[p]]
                           \/ p # t /\ Seen(p)' = Seen(p)
<1>1. /\ drafts' = [drafts EXCEPT ![t] = {}] /\ target' = target
      /\ target \in [Txs -> Runs] /\ log \in [Runs -> SUBSET Event]
      /\ drafts \in [Txs -> SUBSET Event]
  BY DEF End, IInv, TypeOK
<1>2. /\ log' \in [Runs -> SUBSET Event]
      /\ \A r \in Runs : log'[r] = log[r] \/ (r = target[t] /\ log'[r] = Seen(t))
  <2>1. CASE log' = log
    BY <1>1, <2>1
  <2>2. CASE log' = [log EXCEPT ![target[t]] = log[target[t]] \cup drafts[t]]
    BY <1>1, <2>2 DEF Seen
  <2>. QED
    BY <2>1, <2>2
<1>3. ASSUME NEW p \in Txs, p # t, number[p] # 0 \/ drafts[p] # {}
      PROVE  Seen(p)' = Seen(p)
  <2>1. owner[RunRow(p)] = p
    BY <1>3 DEF IInv, Transaction, OwnsOrWaits
  <2>2. log'[target[p]] = log[target[p]]
    <3>1. CASE target[p] # target[t]
      BY <1>1, <1>2, <3>1
    <3>2. CASE target[p] = target[t]
      <4>1. owner[RunRow(t)] # t
        BY <1>3, <2>1, <3>2 DEF RunRow
      <4>2. drafts[t] = {}
        BY <4>1 DEF IInv, Transaction, OwnsOrWaits
      <4>3. Seen(t) = log[target[t]]
        BY <4>2 DEF Seen
      <4>. QED
        BY <1>1, <1>2, <3>2, <4>3
    <3>. QED
      BY <3>1, <3>2
  <2>. QED
    BY <1>1, <1>3, <2>2 DEF Seen
<1>4. ASSUME NEW p \in Txs
      PROVE  \/ Seen(p)' = log'[target[p]]
             \/ p # t /\ Seen(p)' = Seen(p)
  <2>1. CASE p = t \/ drafts[p] = {}
    BY <1>1, <2>1 DEF Seen
  <2>2. CASE p # t /\ drafts[p] # {}
    BY <1>3, <2>2
  <2>. QED
    BY <2>1, <2>2
<1>. QED
  BY <1>2, <1>3, <1>4

(* A transaction ends: its events are in the log from now on, or nowhere.  *)
LEMMA Ends ==
  ASSUME IInv, NEW t \in Txs, phase[t] = "open",
         NEW outcome \in {"committed", "aborted"}, End(t, outcome),
         \/ outcome = "aborted" /\ log' = log
         \/ log' = [log EXCEPT ![target[t]] = log[target[t]] \cup drafts[t]]
  PROVE  IInv'
<1>1. /\ owner' = [row \in Rows |-> IF owner[row] = t THEN Nobody ELSE owner[row]]
      /\ phase' = [phase EXCEPT ![t] = outcome] /\ todo' = [todo EXCEPT ![t] = <<>>]
      /\ number' = [number EXCEPT ![t] = 0] /\ drafts' = [drafts EXCEPT ![t] = {}]
      /\ UNCHANGED <<kind, target>>
  BY DEF End, Unlock
<1>2. /\ target[t] \in Runs /\ log[target[t]] \in SUBSET Event
      /\ drafts[t] \in SUBSET Event /\ <<>> \in Seq(Statement)
  BY DEF IInv, TypeOK
<1>3. /\ log' \in [Runs -> SUBSET Event]
      /\ \A r \in Runs : log'[r] = log[r] \/ (r = target[t] /\ log'[r] = Seen(t))
      /\ \A p \in Txs : p # t /\ number[p] # 0 => Seen(p)' = Seen(p)
      /\ \A p \in Txs : \/ Seen(p)' = log'[target[p]]
                        \/ p # t /\ Seen(p)' = Seen(p)
  BY LogAfterEnd
<1>4. TypeOK'
  <2>1. owner' \in [Rows -> Txs \cup {Nobody}]
    BY <1>1 DEF IInv, TypeOK
  <2>. QED
    BY <1>1, <1>2, <1>3, <2>1 DEF IInv, TypeOK
<1>5. /\ \A p \in Txs : RunRow(p)' = RunRow(p) /\ RunRow(p) \in Rows
      /\ phase'[t] = outcome /\ todo'[t] = <<>> /\ number'[t] = 0 /\ drafts'[t] = {}
      /\ \A p \in Txs \ {t} :
           /\ phase'[p] = phase[p] /\ todo'[p] = todo[p] /\ number'[p] = number[p]
           /\ drafts'[p] = drafts[p]
           /\ owner[RunRow(p)] = p => owner'[RunRow(p)] = p
  BY <1>1 DEF RunRow, Rows, RowKinds, IInv, TypeOK
<1>6. \A r \in Runs : HasGreatest(Sequences(log'[r]))
  BY <1>3 DEF IInv, LogsHaveGreatest
<1>7. LogsHaveGreatest'
  <2>1. ASSUME NEW p \in Txs PROVE HasGreatest(Sequences(Seen(p)'))
    BY <1>3, <1>6 DEF IInv, LogsHaveGreatest, TypeOK
  <2>. QED
    BY <1>6, <2>1 DEF LogsHaveGreatest, HasGreatest, Sequences
<1>8. NoNumberIsTakenTwice'
  BY <1>5 DEF IInv, NoNumberIsTakenTwice
<1>9. Transaction(t)'
  BY <1>1, <1>5 DEF Transaction, OwnsOrWaits, HeartbeatOnlyLocks, ClosedIsEmpty,
     NumberIsNew
<1>10. ASSUME NEW p \in Txs, p # t PROVE Transaction(p)'
  <2>1. Transaction(p)
    BY DEF IInv
  <2>2. number[p] # 0 => Seen(p)' = Seen(p)
    BY <1>3, <1>10
  <2>3. NumberIsNew(p)'
    BY <1>5, <1>10, <2>1, <2>2 DEF Transaction, NumberIsNew, Sequences
  <2>4. OwnsOrWaits(p)' /\ HeartbeatOnlyLocks(p)' /\ ClosedIsEmpty(p)'
    BY <1>1, <1>5, <1>10, <2>1 DEF Transaction, OwnsOrWaits, HeartbeatOnlyLocks,
       ClosedIsEmpty
  <2>. QED
    BY <2>3, <2>4 DEF Transaction
<1>11. \A p \in Txs : Transaction(p)'
  BY <1>9, <1>10
<1>. QED
  BY <1>4, <1>7, <1>8, <1>11 DEF IInv

(* Every step keeps the invariant.                                         *)
LEMMA NextIInv == ASSUME IInv, [Next]_vars PROVE IInv'
<1>1. ASSUME NEW t \in Txs, Begin(t) \/ Poll(t) PROVE IInv'
  BY <1>1, Begins
<1>2. ASSUME NEW t \in Txs, Step(t) PROVE IInv'
  <2>1. CASE Commit(t)
    BY <2>1, Ends DEF Commit
  <2>. QED
    BY <1>2, <2>1, Locks, LeavesStepsAlone, FindsLogged, TakesNumber, Inserts DEF Step
<1>3. ASSUME NEW t \in Txs, Abort(t) PROVE IInv'
  BY <1>3, Ends DEF Abort
<1>4. CASE UNCHANGED vars
  <2>1. /\ \A p \in Txs : Seen(p)' = Seen(p) /\ RunRow(p)' = RunRow(p)
        /\ UNCHANGED <<owner, log, phase, kind, target, todo, number, drafts>>
    BY <1>4 DEF vars, Seen, RunRow
  <2>2. TypeOK' /\ NoNumberIsTakenTwice'
    BY <2>1 DEF IInv, TypeOK, NoNumberIsTakenTwice
  <2>3. LogsHaveGreatest'
    BY <2>1 DEF IInv, LogsHaveGreatest, HasGreatest, Sequences
  <2>4. \A t \in Txs : Transaction(t)'
    BY <2>1 DEF IInv, Transaction, OwnsOrWaits, HeartbeatOnlyLocks, ClosedIsEmpty,
       NumberIsNew, Sequences
  <2>. QED
    BY <2>2, <2>3, <2>4 DEF IInv
<1>. QED
  BY <1>1, <1>2, <1>3, <1>4 DEF Next

(* The inductive invariant holds.                                          *)
THEOREM LogInvariant == Spec => []IInv
<1>. QED
  BY InitIInv, NextIInv, PTL DEF Spec

(* The types of the log, the locks and the transactions.                   *)
THEOREM TypeCorrect == Spec => []TypeOK
<1>1. IInv => TypeOK
  BY DEF IInv
<1>. QED
  BY <1>1, LogInvariant, PTL

(* MAX + 1 under the lock of the run is a number nobody else takes: no     *)
(* transaction is ever thrown out by the index on the sequence.            *)
THEOREM NumbersAreUnique == Spec => []NoNumberIsTakenTwice
<1>1. IInv => NoNumberIsTakenTwice
  BY DEF IInv
<1>. QED
  BY <1>1, LogInvariant, PTL
----------------------------------------------------------------------------
(* What a log looks like, and who holds which row.                         *)

\* The numbers are 1, 2, 3 and so on; no number and no operation comes twice.
Dense(events) ==
  /\ IsFiniteSet(events)
  /\ Sequences(events) = 1..Cardinality(events)
  /\ \A e, f \in events :
       (e.sequence = f.sequence \/ e.operation = f.operation) => e = f

NumberIsNext(t) == number[t] # 0 => number[t] = Cardinality(Seen(t)) + 1

\* Events are appended by the last two statements of a script, if at all.
AppendsLast(script) ==
  \A i \in 1..Len(script) : script[i].call = "append" => i + 1 >= Len(script)

BatchFits(t) ==
  /\ AppendsLast(todo[t])
  /\ drafts[t] = {} \/ Cardinality(drafts[t]) + Len(todo[t]) <= 2

\* Rows are locked in one order: first that of the run, except by a heartbeat,
\* which locks one row and is done.
HoldsItsOwn(t) ==
  \A row \in Rows : owner[row] = t =>
    /\ phase[t] = "open" /\ row[2] = target[t]
    /\ kind[t] # "heartbeat" => owner[RunRow(t)] = t
    /\ kind[t] = "heartbeat" => todo[t] = <<>>

ClaimHolds(t) ==
  /\ kind[t] = "claim" /\ phase[t] = "open" => owner[RunRow(t)] = t
  /\ kind[t] = "heartbeat" => Len(todo[t]) <= 1

Orderly(t) ==
  Dense(Seen(t)) /\ NumberIsNext(t) /\ BatchFits(t) /\ HoldsItsOwn(t) /\ ClaimHolds(t)

JInv == (\A r \in Runs : Dense(log[r])) /\ \A t \in Txs : Orderly(t)

(* A dense log has as greatest number that of its events.                  *)
LEMMA GreatestOfDense ==
  ASSUME NEW events, Dense(events)
  PROVE  /\ Cardinality(events) \in Nat
         /\ Greatest(Sequences(events)) = Cardinality(events)
<1> DEFINE size == Cardinality(events)
<1>1. size \in Nat /\ Sequences(events) = 1..size
  BY FS_CardinalityType DEF Dense
<1>. HIDE DEF size
<1>2. \A n \in {0} \cup 1..size : (\A m \in 1..size : m <= n) <=> n = size
  BY <1>1
<1>3. size \in {0} \cup 1..size
  BY <1>1
<1>4. Greatest(1..size) = size
  BY <1>2, <1>3, Zenon DEF Greatest
<1>. QED
  BY <1>1, <1>4 DEF size

(* The next number and a new operation keep it dense.                      *)
LEMMA DenseGrows ==
  ASSUME NEW events, Dense(events), NEW e,
         e.sequence = Cardinality(events) + 1,
         \A f \in events : f.operation # e.operation
  PROVE  /\ Dense(events \cup {e})
         /\ Cardinality(events \cup {e}) = Cardinality(events) + 1
<1> DEFINE size == Cardinality(events)
<1>1. size \in Nat /\ Sequences(events) = 1..size /\ IsFiniteSet(events)
  BY FS_CardinalityType DEF Dense
<1>2. e \notin events
  OBVIOUS
<1>3. IsFiniteSet(events \cup {e}) /\ Cardinality(events \cup {e}) = size + 1
  BY <1>1, <1>2, FS_AddElement
<1>4. Sequences(events \cup {e}) = Sequences(events) \cup {e.sequence}
  BY DEF Sequences
<1>5. (1..size) \cup {size + 1} = 1..(size + 1)
  BY <1>1
<1>6. \A f \in events : f.sequence # e.sequence
  <2> SUFFICES ASSUME NEW f \in events PROVE f.sequence # e.sequence
    OBVIOUS
  <2>1. f.sequence \in Sequences(events)
    BY DEF Sequences
  <2>. QED
    BY <1>1, <2>1
<1>7. \A f, g \in events \cup {e} :
        (f.sequence = g.sequence \/ f.operation = g.operation) => f = g
  BY <1>6 DEF Dense
<1>. QED
  BY <1>1, <1>3, <1>4, <1>5, <1>7 DEF Dense

(* Nothing is dense.                                                       *)
LEMMA EmptyIsDense == Dense({})
<1>1. 1..0 = {} /\ Sequences({}) = {}
  BY DEF Sequences
<1>. QED
  BY <1>1, FS_EmptySet DEF Dense

(* The rest of a script whose appends come last.                           *)
LEMMA RestAppendsLast ==
  ASSUME NEW script \in Seq(Statement), script # <<>>, AppendsLast(script)
  PROVE  /\ AppendsLast(Tail(script)) /\ Len(Tail(script)) = Len(script) - 1
         /\ Len(script) \in Nat /\ Len(Tail(script)) \in Nat
         /\ Head(script).call = "append" => Len(script) <= 2
<1>1. /\ Tail(script) \in Seq(Statement) /\ Len(Tail(script)) = Len(script) - 1
      /\ \A i \in 1..Len(Tail(script)) : Tail(script)[i] = script[i + 1]
      /\ Len(script) \in Nat /\ Len(script) >= 1 /\ Head(script) = script[1]
  BY HeadTailProperties
<1>2. AppendsLast(Tail(script))
  <2> SUFFICES ASSUME NEW i \in 1..Len(Tail(script)), Tail(script)[i].call = "append"
               PROVE  i + 1 >= Len(Tail(script))
    BY DEF AppendsLast
  <2>1. i + 1 \in 1..Len(script) /\ script[i + 1].call = "append"
    BY <1>1
  <2>2. (i + 1) + 1 >= Len(script)
    BY <2>1 DEF AppendsLast
  <2>. QED
    BY <1>1, <2>2
<1>3. Head(script).call = "append" => Len(script) <= 2
  BY <1>1 DEF AppendsLast
<1>. QED
  BY <1>1, <1>2, <1>3

(* Two appends after any locks come last.                                  *)
LEMMA LocksThenAppends ==
  ASSUME NEW locks \in Seq(Statement), NEW appends \in Seq(Statement),
         \A i \in 1..Len(locks) : locks[i].call = "lock",
         Len(appends) = 2
  PROVE  AppendsLast(locks \o appends)
<1>1. /\ Len(locks \o appends) = Len(locks) + Len(appends)
      /\ Len(locks) \in Nat /\ Len(appends) \in Nat
      /\ \A i \in 1..Len(locks) + Len(appends) : (locks \o appends)[i] =
           IF i <= Len(locks) THEN locks[i] ELSE appends[i - Len(locks)]
  <2>1. Len(locks) \in Nat /\ Len(appends) \in Nat
    OBVIOUS
  <2>. QED
    BY <2>1, ConcatProperties, Zenon
<1>2. ASSUME NEW i \in 1..Len(locks \o appends), (locks \o appends)[i].call = "append"
      PROVE  i + 1 >= Len(locks \o appends)
  <2>1. i > Len(locks)
    BY <1>1, <1>2
  <2>. QED
    BY <1>1, <2>1
<1>. QED
  BY <1>2 DEF AppendsLast

(* The scripts append last.                                                *)
LEMMA ScriptsAppendLast ==
  ASSUME NEW t \in Txs
  PROVE  /\ AppendsLast(FencedScript(t)) /\ AppendsLast(CancelScript)
         /\ AppendsLast(RequestScript) /\ AppendsLast(StepLocks \o OwnEvents(t))
         /\ \A name \in RowKinds : AppendsLast(<<LockRow(name)>>)
<1> DEFINE run == <<LockRow("run")>>
           cancelled == <<SharedEvent("run_cancelled"), SharedEvent("step_cancelled")>>
<1>1. /\ run \in Seq(Statement) /\ cancelled \in Seq(Statement) /\ Len(cancelled) = 2
      /\ StepLocks \in Seq(Statement) /\ OwnEvents(t) \in Seq(Statement)
  BY Pieces
<1>2. Len(OwnEvents(t)) = 2
  BY DEF OwnEvents
<1>3. \A i \in 1..Len(StepLocks) : StepLocks[i].call = "lock"
  BY DEF StepLocks, LockRow
<1>4. Len(run) = 1 /\ run[1].call = "lock"
  BY DEF LockRow
<1>5. FencedScript(t) = (run \o StepLocks) \o OwnEvents(t)
  BY DEF FencedScript
<1>6. CancelScript = (run \o StepLocks) \o cancelled
  BY DEF CancelScript
<1>. HIDE DEF run, cancelled
<1>7. /\ run \o StepLocks \in Seq(Statement)
      /\ \A i \in 1..Len(run \o StepLocks) : (run \o StepLocks)[i].call = "lock"
  <2>1. /\ run \o StepLocks \in Seq(Statement)
        /\ Len(run \o StepLocks) = Len(run) + Len(StepLocks)
        /\ \A i \in 1..Len(run) + Len(StepLocks) : (run \o StepLocks)[i] =
             IF i <= Len(run) THEN run[i] ELSE StepLocks[i - Len(run)]
    BY <1>1, ConcatProperties, Zenon
  <2>2. Len(StepLocks) \in Nat
    BY <1>1
  <2>. QED
    BY <1>3, <1>4, <2>1, <2>2
<1>8. \A locks, appends \in Seq(Statement) :
        (\A i \in 1..Len(locks) : locks[i].call = "lock") /\ Len(appends) = 2
          => AppendsLast(locks \o appends)
  BY LocksThenAppends
<1>9. /\ AppendsLast(FencedScript(t)) /\ AppendsLast(CancelScript)
      /\ AppendsLast(StepLocks \o OwnEvents(t))
  BY <1>1, <1>2, <1>3, <1>5, <1>6, <1>7, <1>8, Zenon
<1>10. AppendsLast(RequestScript)
  BY DEF RequestScript, LockRow, AppendsLast
<1>11. \A name \in RowKinds : AppendsLast(<<LockRow(name)>>)
  BY DEF LockRow, AppendsLast
<1>. QED
  BY <1>9, <1>10, <1>11
----------------------------------------------------------------------------
(* What a step of one transaction leaves to the others.                    *)

\* A step of t takes rows from nobody and gives none away but its own.
TakesFreeRows(t) == \A row \in Rows : owner'[row] \in {owner[row], t, Nobody}

(* No step takes a row from another transaction, or touches its statements.*)
LEMMA OthersKeepTheirs ==
  ASSUME IInv, NEW t \in Txs, Begin(t) \/ Poll(t) \/ Step(t) \/ Abort(t)
  PROVE  OthersStay(t) /\ TakesFreeRows(t) /\ target' = target
<1>1. /\ owner \in [Rows -> Txs \cup {Nobody}]
      /\ phase \in [Txs -> {"idle", "open", "committed", "aborted", "collided"}]
      /\ kind \in [Txs -> Kinds \cup {"none"}] /\ todo \in [Txs -> Seq(Statement)]
      /\ number \in [Txs -> Nat] /\ drafts \in [Txs -> SUBSET Event]
      /\ target \in [Txs -> Runs]
  BY DEF IInv, TypeOK
<1>2. \A p \in Txs : RunRow(p) \in Rows /\ RunRow(p)[2] = target[p]
  BY <1>1 DEF RunRow, Rows, RowKinds
<1>3. ASSUME owner' = owner
      PROVE  TakesFreeRows(t) /\ \A p \in Txs : owner[RunRow(p)] = p => owner'[RunRow(p)] = p
  BY <1>3 DEF TakesFreeRows
<1>4. ASSUME NEW row \in Rows, owner[row] \in {Nobody, t},
             owner' = [owner EXCEPT ![row] = t]
      PROVE  /\ TakesFreeRows(t)
             /\ \A p \in Txs \ {t} : owner[RunRow(p)] = p => owner'[RunRow(p)] = p
  BY <1>1, <1>2, <1>4, NobodyAssumption DEF TakesFreeRows
<1>5. CASE Begin(t)
  <2>1. /\ owner' = owner /\ UNCHANGED <<target, number, drafts>>
        /\ \A p \in Txs \ {t} : phase'[p] = phase[p] /\ kind'[p] = kind[p] /\ todo'[p] = todo[p]
    BY <1>1, <1>5 DEF Begin, BeginAs
  <2>. QED
    BY <1>3, <2>1 DEF OthersStay
<1>6. CASE Poll(t)
  <2>1. /\ owner[RunRow(t)] = Nobody /\ owner' = [owner EXCEPT ![RunRow(t)] = t]
        /\ UNCHANGED <<target, number, drafts>>
        /\ \A p \in Txs \ {t} : phase'[p] = phase[p] /\ kind'[p] = kind[p] /\ todo'[p] = todo[p]
    BY <1>1, <1>6 DEF Poll, BeginAs
  <2>. QED
    BY <1>2, <1>4, <2>1 DEF OthersStay
<1>7. CASE Lock(t)
  <2>1. /\ todo[t] # <<>> /\ owner[RowDue(t)] \in {Nobody, t}
        /\ Head(todo[t]).call = "lock"
        /\ owner' = [owner EXCEPT ![RowDue(t)] = t]
        /\ UNCHANGED <<phase, kind, target, number, drafts>>
        /\ \A p \in Txs \ {t} : todo'[p] = todo[p]
    BY <1>1, <1>7 DEF Lock, Due, Proceed
  <2>2. RowDue(t) \in Rows
    <3>1. Head(todo[t]) \in Statement
      BY <1>1, <2>1, HeadTailProperties
    <3>. QED
      BY <1>1, <2>1, <3>1 DEF RowDue, Rows, Statement
  <2>. QED
    BY <1>4, <2>1, <2>2 DEF OthersStay
<1>8. CASE LeaveStepsAlone(t) \/ FindLogged(t) \/ TakeNumber(t)
  <2>1. /\ owner' = owner /\ UNCHANGED <<phase, kind, target, drafts>>
        /\ \A p \in Txs \ {t} : todo'[p] = todo[p] /\ number'[p] = number[p]
    BY <1>1, <1>8 DEF LeaveStepsAlone, FindLogged, TakeNumber, Proceed
  <2>. QED
    BY <1>3, <2>1 DEF OthersStay
<1>9. ASSUME NEW outcome, End(t, outcome) PROVE OthersStay(t) /\ TakesFreeRows(t) /\ target' = target
  <2>1. /\ owner' = [row \in Rows |-> IF owner[row] = t THEN Nobody ELSE owner[row]]
        /\ UNCHANGED <<kind, target>>
        /\ \A p \in Txs \ {t} : /\ phase'[p] = phase[p] /\ todo'[p] = todo[p]
                                /\ number'[p] = number[p] /\ drafts'[p] = drafts[p]
    BY <1>1, <1>9 DEF End, Unlock
  <2>. QED
    BY <1>2, <2>1 DEF OthersStay, TakesFreeRows
<1>10. CASE Insert(t)
  <2>1. /\ owner' = owner /\ UNCHANGED <<phase, kind, target>>
        /\ drafts' = Written(t) /\ number' = [number EXCEPT ![t] = 0]
        /\ todo' = [todo EXCEPT ![t] = Tail(todo[t])]
    BY <1>10, NeverTaken DEF Insert, Proceed
  <2>2. \A p \in Txs \ {t} : /\ todo'[p] = todo[p] /\ number'[p] = number[p]
                             /\ drafts'[p] = drafts[p]
    BY <1>1, <2>1 DEF Written
  <2>. QED
    BY <1>3, <2>1, <2>2 DEF OthersStay
<1>11. CASE Commit(t)
  BY <1>9, <1>11 DEF Commit
<1>12. CASE Abort(t)
  BY <1>9, <1>12 DEF Abort
<1>. QED
  BY <1>5, <1>6, <1>7, <1>8, <1>10, <1>11, <1>12 DEF Step

(* What another transaction sees changes only when it works on nothing.    *)
LEMMA OthersOrderly ==
  ASSUME IInv, JInv, NEW t \in Txs, OthersStay(t), TakesFreeRows(t), target' = target,
         NEW p \in Txs, p # t,
         \/ Seen(p)' = Seen(p)
         \/ number[p] = 0 /\ Dense(Seen(p)')
  PROVE  Orderly(p)'
<1>1. Orderly(p)
  BY DEF JInv
<1>2. /\ phase'[p] = phase[p] /\ kind'[p] = kind[p] /\ todo'[p] = todo[p]
      /\ number'[p] = number[p] /\ drafts'[p] = drafts[p]
      /\ owner[RunRow(p)] = p => owner'[RunRow(p)] = p
  BY DEF OthersStay
<1>3. RunRow(p)' = RunRow(p) /\ target'[p] = target[p]
  BY DEF RunRow
<1>4. Dense(Seen(p)') /\ NumberIsNext(p)'
  BY <1>1, <1>2 DEF Orderly, NumberIsNext
<1>5. BatchFits(p)'
  BY <1>1, <1>2 DEF Orderly, BatchFits, AppendsLast
<1>6. \A row \in Rows : owner'[row] = p => owner[row] = p
  BY NobodyAssumption DEF TakesFreeRows
<1>7. HoldsItsOwn(p)' /\ ClaimHolds(p)'
  BY <1>1, <1>2, <1>3, <1>6 DEF Orderly, HoldsItsOwn, ClaimHolds
<1>8. Dense(Seen(p))'
  BY <1>4 DEF Dense, Sequences
<1>. QED
  BY <1>4, <1>5, <1>7, <1>8 DEF Orderly
----------------------------------------------------------------------------
(* The log is dense, step by step.                                         *)

(* What a transaction has inserted is finite.                              *)
LEMMA DraftsAreFinite ==
  ASSUME JInv, NEW t \in Txs
  PROVE  /\ BatchFits(t) /\ IsFiniteSet(drafts[t])
         /\ Cardinality(drafts[t]) \in Nat
<1>1. IsFiniteSet(Seen(t)) /\ BatchFits(t)
  BY DEF JInv, Orderly, Dense
<1>2. drafts[t] \subseteq Seen(t)
  BY DEF Seen
<1>3. IsFiniteSet(drafts[t])
  BY <1>1, <1>2, FS_Subset
<1>. QED
  BY <1>1, <1>3, FS_CardinalityType

(* Nothing is logged and nothing is locked.                                *)
LEMMA InitJInv == Init => JInv
<1> SUFFICES ASSUME Init PROVE JInv
  OBVIOUS
<1>1. \A r \in Runs : Dense(log[r])
  BY EmptyIsDense DEF Init
<1>2. ASSUME NEW t \in Txs PROVE Orderly(t)
  <2>1. Seen(t) = {}
    BY DEF Init, Seen
  <2>2. BatchFits(t)
    BY DEF Init, BatchFits, AppendsLast
  <2>3. NumberIsNext(t) /\ ClaimHolds(t)
    BY DEF Init, NumberIsNext, ClaimHolds
  <2>4. HoldsItsOwn(t)
    BY NobodyAssumption DEF Init, HoldsItsOwn
  <2>. QED
    BY <2>1, <2>2, <2>3, <2>4, EmptyIsDense DEF Orderly
<1>. QED
  BY <1>1, <1>2 DEF JInv

(* A step that leaves log, numbers and drafts alone.                       *)
LEMMA QuietlyOrderly ==
  ASSUME IInv, JInv, NEW t \in Txs, Begin(t) \/ Poll(t) \/ Step(t) \/ Abort(t),
         UNCHANGED <<log, number, drafts>>,
         BatchFits(t)', HoldsItsOwn(t)', ClaimHolds(t)'
  PROVE  JInv'
<1>1. OthersStay(t) /\ TakesFreeRows(t) /\ target' = target
  BY OthersKeepTheirs
<1>2. \A p \in Txs : Seen(p)' = Seen(p)
  BY <1>1 DEF Seen
<1>3. \A r \in Runs : Dense(log[r])'
  BY DEF JInv, Dense, Sequences
<1>4. ASSUME NEW p \in Txs, p # t PROVE Orderly(p)'
  BY <1>1, <1>2, <1>4, OthersOrderly
<1>5. Orderly(t)'
  <2>1. Dense(Seen(t)) /\ NumberIsNext(t)
    BY DEF JInv, Orderly
  <2>2. Dense(Seen(t))' /\ NumberIsNext(t)'
    BY <1>2, <2>1 DEF Dense, Sequences, NumberIsNext
  <2>. QED
    BY <2>2 DEF Orderly
<1>6. \A p \in Txs : Orderly(p)'
  BY <1>4, <1>5
<1>. QED
  BY <1>3, <1>6 DEF JInv

(* Whoever owns a row is open.                                             *)
LEMMA BeginsOrderly ==
  ASSUME IInv, JInv, NEW t \in Txs, Begin(t) \/ Poll(t)
  PROVE  JInv'
<1>1. PICK k \in Kinds, script \in Seq(Statement) :
        /\ BeginAs(t, k, script) /\ AppendsLast(script)
        /\ k = "heartbeat" => Len(script) <= 1
        /\ \/ owner' = owner /\ k # "claim"
           \/ k = "claim" /\ owner' = [owner EXCEPT ![RunRow(t)] = t]
  <2>1. CASE Poll(t)
    BY <2>1, Scripts, ScriptsAppendLast DEF Poll, Kinds
  <2>2. CASE \E name \in {"collect", "evaluate"} :
               BeginAs(t, "heartbeat", <<LockRow(name)>>) /\ owner' = owner
    <3>1. PICK name \in {"collect", "evaluate"} :
            BeginAs(t, "heartbeat", <<LockRow(name)>>) /\ owner' = owner
      BY <2>2
    <3>2. LockRow(name) \in Statement /\ AppendsLast(<<LockRow(name)>>)
      BY Statements, ScriptsAppendLast DEF RowKinds
    <3>3. <<LockRow(name)>> \in Seq(Statement) /\ Len(<<LockRow(name)>>) <= 1
      BY <3>2
    <3>. QED
      BY <3>1, <3>2, <3>3 DEF Kinds
  <2>3. CASE BeginAs(t, "fenced", FencedScript(t)) /\ owner' = owner
    BY <2>3, Scripts, ScriptsAppendLast DEF Kinds
  <2>4. CASE BeginAs(t, "cancel", CancelScript) /\ owner' = owner
    BY <2>4, Scripts, ScriptsAppendLast DEF Kinds
  <2>5. CASE BeginAs(t, "request", RequestScript) /\ owner' = owner
    BY <2>5, Scripts, ScriptsAppendLast DEF Kinds
  <2>. QED
    BY <2>1, <2>2, <2>3, <2>4, <2>5 DEF Begin
<1>2. /\ phase[t] = "idle" /\ phase'[t] = "open" /\ kind'[t] = k /\ todo'[t] = script
      /\ UNCHANGED <<log, target, number, drafts>>
  BY <1>1 DEF BeginAs, IInv, TypeOK
<1>3. BatchFits(t)'
  <2>1. drafts[t] = {}
    BY <1>2 DEF IInv, Transaction, ClosedIsEmpty
  <2>. QED
    BY <1>1, <1>2, <2>1 DEF BatchFits, AppendsLast
<1>4. \A row \in Rows : owner[row] # t
  BY <1>2 DEF JInv, Orderly, HoldsItsOwn
<1>5. RunRow(t) \in Rows /\ RunRow(t)[2] = target[t] /\ RunRow(t)' = RunRow(t)
  BY <1>2 DEF RunRow, Rows, RowKinds, IInv, TypeOK
<1>6. CASE owner' = owner /\ k # "claim"
  BY <1>1, <1>2, <1>3, <1>4, <1>6, QuietlyOrderly DEF HoldsItsOwn, ClaimHolds
<1>7. CASE k = "claim" /\ owner' = [owner EXCEPT ![RunRow(t)] = t]
  <2>1. /\ owner'[RunRow(t)] = t
        /\ \A row \in Rows : owner'[row] = t => row = RunRow(t)
    BY <1>4, <1>5, <1>7 DEF IInv, TypeOK
  <2>2. HoldsItsOwn(t)' /\ ClaimHolds(t)'
    BY <1>2, <1>5, <1>7, <2>1 DEF HoldsItsOwn, ClaimHolds
  <2>. QED
    BY <1>2, <1>3, <2>2, QuietlyOrderly
<1>. QED
  BY <1>1, <1>6, <1>7

(* A transaction that goes on to its next statements.                      *)
LEMMA GoesOnOrderly ==
  ASSUME IInv, JInv, NEW t \in Txs, phase[t] = "open", kind[t] # "heartbeat",
         UNCHANGED <<owner, phase, kind, target>>
  PROVE  HoldsItsOwn(t)' /\ ClaimHolds(t)'
BY DEF JInv, Orderly, HoldsItsOwn, ClaimHolds, RunRow

(* Rows are locked in order.                                               *)
LEMMA LocksOrderly ==
  ASSUME IInv, JInv, NEW t \in Txs, Lock(t)
  PROVE  JInv'
<1>1. /\ phase[t] = "open" /\ todo[t] # <<>> /\ Head(todo[t]).call = "lock"
      /\ owner' = [owner EXCEPT ![RowDue(t)] = t]
      /\ todo' = [todo EXCEPT ![t] = Tail(todo[t])]
      /\ UNCHANGED <<log, phase, kind, target, number, drafts>>
  BY DEF Lock, Due, Proceed
<1>2. /\ todo[t] \in Seq(Statement) /\ Head(todo[t]) \in Statement
      /\ Tail(todo[t]) \in Seq(Statement)
  BY <1>1, HeadTailProperties DEF IInv, TypeOK
<1>3. RowDue(t) \in Rows /\ RowDue(t)[2] = target[t] /\ RunRow(t) \in Rows
  BY <1>1, <1>2 DEF IInv, TypeOK, RowDue, RunRow, Rows, Statement, RowKinds
<1>4. /\ todo'[t] = Tail(todo[t]) /\ owner'[RowDue(t)] = t
      /\ \A row \in Rows : row # RowDue(t) => owner'[row] = owner[row]
  BY <1>1, <1>3 DEF IInv, TypeOK
<1>5. BatchFits(t) /\ HoldsItsOwn(t) /\ ClaimHolds(t) /\ OwnsOrWaits(t)
  BY DEF JInv, Orderly, IInv, Transaction
<1>6. /\ AppendsLast(Tail(todo[t])) /\ Len(Tail(todo[t])) = Len(todo[t]) - 1
      /\ Len(todo[t]) \in Nat
  BY <1>1, <1>2, <1>5, RestAppendsLast DEF BatchFits
<1>7. BatchFits(t)'
  <2>1. Cardinality(drafts[t]) \in Nat
    BY DraftsAreFinite
  <2>. QED
    BY <1>1, <1>4, <1>5, <1>6, <2>1 DEF BatchFits, AppendsLast
<1>8. kind[t] = "heartbeat" => Tail(todo[t]) = <<>>
  BY <1>1, <1>2, <1>5, <1>6 DEF ClaimHolds
<1>9. kind[t] # "heartbeat" => owner'[RunRow(t)] = t
  <2>1. CASE owner[RunRow(t)] = t
    BY <1>3, <1>4, <2>1
  <2>2. CASE owner[RunRow(t)] # t /\ kind[t] # "heartbeat"
    <3>1. Head(todo[t]) = LockRow("run")
      BY <1>1, <1>5, <2>2 DEF OwnsOrWaits
    <3>2. RowDue(t) = RunRow(t)
      BY <3>1 DEF RowDue, RunRow, LockRow
    <3>. QED
      BY <1>4, <3>2
  <2>. QED
    BY <2>1, <2>2
<1>10. RunRow(t)' = RunRow(t)
  BY <1>1 DEF RunRow
<1>11. HoldsItsOwn(t)'
  BY <1>1, <1>3, <1>4, <1>5, <1>8, <1>9, <1>10 DEF HoldsItsOwn
<1>12. ClaimHolds(t)'
  BY <1>1, <1>4, <1>5, <1>6, <1>9, <1>10 DEF ClaimHolds
<1>. QED
  BY <1>1, <1>7, <1>11, <1>12, QuietlyOrderly DEF Step

(* A cancel of a cancelled run leaves its steps alone.                     *)
LEMMA LeavesStepsOrderly ==
  ASSUME IInv, JInv, NEW t \in Txs, LeaveStepsAlone(t)
  PROVE  JInv'
<1>1. /\ phase[t] = "open" /\ kind[t] = "cancel" /\ todo[t] = Tail(CancelScript)
      /\ todo' = [todo EXCEPT ![t] = SubSeq(todo[t], 3, Len(todo[t]))]
      /\ UNCHANGED <<owner, log, phase, kind, target, number, drafts>>
  BY DEF LeaveStepsAlone, Due, AlreadyCancelled
<1>2. todo[t] \in Seq(Statement) /\ Len(todo[t]) = 4
  BY <1>1, RestOfCancel
<1>3. BatchFits(t) /\ IsFiniteSet(drafts[t])
  BY DraftsAreFinite
<1>4. todo'[t] = SubSeq(todo[t], 3, 4)
  BY <1>1, <1>2 DEF IInv, TypeOK
<1>5. Len(SubSeq(todo[t], 3, 4)) = 2
  BY <1>2
<1>6. AppendsLast(SubSeq(todo[t], 3, 4))
  BY <1>5 DEF AppendsLast
<1>7. BatchFits(t)'
  <2>1. drafts[t] = {}
    <3>1. Cardinality(drafts[t]) \in Nat
      BY <1>3, FS_CardinalityType
    <3>. QED
      BY <1>2, <1>3, <3>1 DEF BatchFits
  <2>. QED
    BY <1>1, <1>4, <1>6, <2>1 DEF BatchFits, AppendsLast
<1>. QED
  BY <1>1, <1>7, GoesOnOrderly, QuietlyOrderly DEF Step

(* An event that is logged is passed over.                                 *)
LEMMA FindsLoggedOrderly ==
  ASSUME IInv, JInv, NEW t \in Txs, FindLogged(t)
  PROVE  JInv'
<1>1. /\ Due(t, "append") /\ todo' = [todo EXCEPT ![t] = Tail(todo[t])]
      /\ UNCHANGED <<owner, log, phase, kind, target, number, drafts>>
  BY DEF FindLogged, Proceed
<1>2. /\ phase[t] = "open" /\ kind[t] # "heartbeat"
      /\ todo[t] \in Seq(Statement) /\ todo[t] # <<>>
  BY <1>1, HeartbeatsDoNotAppend
<1>3. BatchFits(t) /\ IsFiniteSet(drafts[t])
  BY DraftsAreFinite
<1>4. /\ AppendsLast(Tail(todo[t])) /\ Len(Tail(todo[t])) = Len(todo[t]) - 1
      /\ Len(todo[t]) \in Nat
  BY <1>2, <1>3, RestAppendsLast DEF BatchFits
<1>5. BatchFits(t)'
  <2>1. todo'[t] = Tail(todo[t]) /\ Cardinality(drafts[t]) \in Nat
    BY <1>1, <1>3, FS_CardinalityType DEF IInv, TypeOK
  <2>. QED
    BY <1>1, <1>3, <1>4, <2>1 DEF BatchFits, AppendsLast
<1>. QED
  BY <1>1, <1>2, <1>5, GoesOnOrderly, QuietlyOrderly DEF Step
(* The number read is the one after the last.                              *)
LEMMA TakesNumberOrderly ==
  ASSUME IInv, JInv, NEW t \in Txs, TakeNumber(t)
  PROVE  JInv'
<1>1. /\ Due(t, "append") /\ number' = [number EXCEPT ![t] = MaxSequence(t) + 1]
      /\ UNCHANGED <<owner, log, phase, kind, target, todo, drafts>>
  BY DEF TakeNumber
<1>2. phase[t] = "open" /\ kind[t] # "heartbeat" /\ Orderly(t)
  BY <1>1, HeartbeatsDoNotAppend DEF JInv
<1>3. OthersStay(t) /\ TakesFreeRows(t)
  BY OthersKeepTheirs DEF Step
<1>4. \A p \in Txs : Seen(p)' = Seen(p)
  BY <1>1 DEF Seen
<1>5. \A r \in Runs : Dense(log[r])'
  BY <1>1 DEF JInv, Dense, Sequences
<1>6. ASSUME NEW p \in Txs, p # t PROVE Orderly(p)'
  BY <1>1, <1>3, <1>4, <1>6, OthersOrderly
<1>7. number'[t] = Cardinality(Seen(t)) + 1
  BY <1>1, <1>2, GreatestOfDense DEF IInv, TypeOK, MaxSequence, Orderly
<1>8. Dense(Seen(t))' /\ NumberIsNext(t)'
  BY <1>2, <1>4, <1>7 DEF Orderly, Dense, Sequences, NumberIsNext
<1>9. BatchFits(t)'
  BY <1>1, <1>2 DEF Orderly, BatchFits, AppendsLast
<1>10. Orderly(t)'
  BY <1>1, <1>2, <1>8, <1>9, GoesOnOrderly DEF Orderly
<1>11. \A p \in Txs : Orderly(p)'
  BY <1>6, <1>10
<1>. QED
  BY <1>5, <1>11 DEF JInv

(* An event is inserted with the number after the last.                    *)
LEMMA InsertsOrderly ==
  ASSUME IInv, JInv, NEW t \in Txs, Insert(t)
  PROVE  JInv'
<1> DEFINE e == [operation |-> Operation(t), sequence |-> number[t]]
<1>1. /\ Due(t, "append") /\ number[t] # 0
      /\ drafts' = Written(t) /\ number' = [number EXCEPT ![t] = 0]
      /\ todo' = [todo EXCEPT ![t] = Tail(todo[t])]
      /\ UNCHANGED <<owner, log, phase, kind, target>>
  BY NeverTaken DEF Insert, Inserting, Proceed
<1>2. /\ phase[t] = "open" /\ kind[t] # "heartbeat" /\ Orderly(t)
      /\ todo[t] \in Seq(Statement) /\ todo[t] # <<>> /\ Head(todo[t]).call = "append"
  BY <1>1, HeartbeatsDoNotAppend DEF JInv, Due
<1>3. OthersStay(t) /\ TakesFreeRows(t)
  BY OthersKeepTheirs DEF Step
<1>4. \A p \in Txs \ {t} : Seen(p)' = Seen(p)
  BY <1>1, <1>3 DEF Seen, OthersStay
<1>5. \A r \in Runs : Dense(log[r])'
  BY <1>1 DEF JInv, Dense, Sequences
<1>6. ASSUME NEW p \in Txs, p # t PROVE Orderly(p)'
  BY <1>1, <1>3, <1>4, <1>6, OthersOrderly
<1>7. number'[t] = 0 /\ todo'[t] = Tail(todo[t])
  BY <1>1 DEF IInv, TypeOK
<1>8. /\ AppendsLast(Tail(todo[t])) /\ Len(Tail(todo[t])) = Len(todo[t]) - 1
      /\ Len(todo[t]) \in Nat /\ Len(todo[t]) <= 2
  BY <1>2, RestAppendsLast DEF Orderly, BatchFits
<1>9. Dense(Seen(t)') /\ BatchFits(t)'
  <2>1. CASE IsLogged(t)
    <3>1. drafts' = drafts
      BY <1>1, <2>1 DEF Written
    <3>2. Seen(t)' = Seen(t)
      BY <1>1, <3>1 DEF Seen
    <3>. QED
      BY <1>2, <1>7, <1>8, <3>1, <3>2, DraftsAreFinite
      DEF Orderly, BatchFits, AppendsLast
  <2>2. CASE ~IsLogged(t)
    <3>1. drafts'[t] = drafts[t] \cup {e}
      BY <1>1, <2>2 DEF Written, IInv, TypeOK
    <3>2. Seen(t)' = Seen(t) \cup {e}
      BY <1>1, <3>1 DEF Seen
    <3>3. /\ e.sequence = Cardinality(Seen(t)) + 1
          /\ \A f \in Seen(t) : f.operation # e.operation
      BY <1>1, <1>2, <2>2 DEF Orderly, NumberIsNext, IsLogged
    <3>. HIDE DEF e
    <3>4. Dense(Seen(t)')
      BY <1>2, <3>2, <3>3, DenseGrows DEF Orderly
    <3>5. Cardinality(drafts[t] \cup {e}) <= Cardinality(drafts[t]) + 1
      <4>1. /\ Cardinality(drafts[t] \cup {e}) =
                 IF e \in drafts[t] THEN Cardinality(drafts[t])
                                   ELSE Cardinality(drafts[t]) + 1
            /\ Cardinality(drafts[t]) \in Nat
        BY DraftsAreFinite, FS_AddElement
      <4>. QED
        BY <4>1
    <3>6. Cardinality(drafts[t] \cup {e}) \in Nat
      BY DraftsAreFinite, FS_AddElement, FS_CardinalityType
    <3>7. drafts[t] = {} => Cardinality(drafts[t]) = 0
      BY FS_EmptySet
    <3>8. Cardinality(drafts'[t]) + Len(todo'[t]) <= 2
      BY <1>2, <1>7, <1>8, <3>1, <3>5, <3>6, <3>7, DraftsAreFinite DEF Orderly, BatchFits
    <3>. QED
      BY <1>7, <1>8, <3>4, <3>8 DEF BatchFits, AppendsLast
  <2>. QED
    BY <2>1, <2>2
<1>10. Dense(Seen(t))' /\ NumberIsNext(t)'
  BY <1>7, <1>9 DEF Dense, Sequences, NumberIsNext
<1>11. Orderly(t)'
  BY <1>1, <1>2, <1>9, <1>10, GoesOnOrderly DEF Orderly
<1>12. \A p \in Txs : Orderly(p)'
  BY <1>6, <1>11
<1>. QED
  BY <1>5, <1>12 DEF JInv
(* A transaction ends.                                                     *)
LEMMA EndsOrderly ==
  ASSUME IInv, JInv, NEW t \in Txs, Commit(t) \/ Abort(t)
  PROVE  JInv'
<1>1. PICK outcome \in {"committed", "aborted"} :
        /\ phase[t] = "open" /\ End(t, outcome)
        /\ \/ log' = log
           \/ log' = [log EXCEPT ![target[t]] = log[target[t]] \cup drafts[t]]
  BY DEF Commit, Abort
<1>2. OthersStay(t) /\ TakesFreeRows(t) /\ target' = target
  BY OthersKeepTheirs DEF Step
<1>3. /\ \A r \in Runs : log'[r] = log[r] \/ (r = target[t] /\ log'[r] = Seen(t))
      /\ \A p \in Txs : p # t /\ number[p] # 0 => Seen(p)' = Seen(p)
      /\ \A p \in Txs : \/ Seen(p)' = log'[target[p]]
                        \/ p # t /\ Seen(p)' = Seen(p)
  BY <1>1, LogAfterEnd
<1>4. \A r \in Runs : Dense(log'[r])
  BY <1>3 DEF JInv, Orderly
<1>5. \A p \in Txs : Dense(Seen(p)')
  <2> TAKE p \in Txs
  <2>1. target[p] \in Runs /\ Dense(Seen(p))
    BY DEF JInv, Orderly, IInv, TypeOK
  <2>. QED
    BY <1>3, <1>4, <2>1
<1>6. \A r \in Runs : Dense(log[r])'
  BY <1>4 DEF Dense, Sequences
<1>7. ASSUME NEW p \in Txs, p # t PROVE Orderly(p)'
  BY <1>2, <1>3, <1>5, <1>7, OthersOrderly
<1>8. /\ owner' = [row \in Rows |-> IF owner[row] = t THEN Nobody ELSE owner[row]]
      /\ phase'[t] = outcome /\ todo'[t] = <<>> /\ number'[t] = 0 /\ drafts'[t] = {}
  BY <1>1 DEF End, Unlock, IInv, TypeOK
<1>9. Orderly(t)'
  <2>1. Dense(Seen(t))' /\ NumberIsNext(t)'
    BY <1>5, <1>8 DEF Dense, Sequences, NumberIsNext
  <2>2. BatchFits(t)'
    BY <1>8 DEF BatchFits, AppendsLast
  <2>3. \A row \in Rows : owner'[row] # t
    BY <1>8, NobodyAssumption
  <2>4. HoldsItsOwn(t)' /\ ClaimHolds(t)'
    BY <1>8, <2>3 DEF HoldsItsOwn, ClaimHolds
  <2>. QED
    BY <2>1, <2>2, <2>4 DEF Orderly
<1>10. \A p \in Txs : Orderly(p)'
  BY <1>7, <1>9
<1>. QED
  BY <1>6, <1>10 DEF JInv

(* Every step keeps the logs dense and the rows in order.                  *)
LEMMA NextJInv == ASSUME IInv, JInv, [Next]_vars PROVE JInv'
<1>1. ASSUME NEW t \in Txs, Begin(t) \/ Poll(t) \/ Step(t) \/ Abort(t) PROVE JInv'
  BY <1>1, BeginsOrderly, LocksOrderly, LeavesStepsOrderly, FindsLoggedOrderly,
     TakesNumberOrderly, InsertsOrderly, EndsOrderly DEF Step
<1>2. CASE UNCHANGED vars
  <2>1. /\ \A p \in Txs : Seen(p)' = Seen(p) /\ RunRow(p)' = RunRow(p)
        /\ UNCHANGED <<owner, log, phase, kind, target, todo, number, drafts>>
    BY <1>2 DEF vars, Seen, RunRow
  <2>2. \A r \in Runs : Dense(log[r])'
    BY <2>1 DEF JInv, Dense, Sequences
  <2>3. \A p \in Txs : Orderly(p)'
    BY <2>1 DEF JInv, Orderly, Dense, Sequences, NumberIsNext, BatchFits, AppendsLast,
       HoldsItsOwn, ClaimHolds
  <2>. QED
    BY <2>2, <2>3 DEF JInv
<1>. QED
  BY <1>1, <1>2 DEF Next

(* The second invariant holds.                                             *)
THEOREM LogsAreDense == Spec => [](IInv /\ JInv)
<1>1. Init => IInv /\ JInv
  BY InitIInv, InitJInv
<1>2. IInv /\ JInv /\ [Next]_vars => (IInv /\ JInv)'
  BY NextIInv, NextJInv
<1>. QED
  BY <1>1, <1>2, PTL DEF Spec
----------------------------------------------------------------------------
(* Waiting.                                                                *)

(* A worker that polls waits at most for a heartbeat, and that for nobody. *)
LEMMA OnlyHeartbeatsInTheWay ==
  ASSUME IInv, JInv
  PROVE  PollIsNotHeldUp
<1> SUFFICES ASSUME NEW t \in Txs, NEW other \in Txs, kind[t] = "claim",
                    WaitsFor(t, other)
             PROVE  /\ kind[other] = "heartbeat"
                    /\ \A third \in Txs : ~WaitsFor(other, third)
  BY DEF PollIsNotHeldUp
<1>1. phase[t] = "open" /\ other # t
  BY DEF WaitsFor, Due, KeyHeldBy
<1>2. owner[RunRow(t)] = t
  BY <1>1 DEF JInv, Orderly, ClaimHolds
<1>3. ASSUME Due(t, "append"), KeyHeldBy(t, other) PROVE FALSE
  <2>1. target[other] = target[t] /\ drafts[other] # {}
    BY <1>3 DEF KeyHeldBy
  <2>2. owner[RunRow(other)] = other
    BY <2>1 DEF IInv, Transaction, OwnsOrWaits
  <2>. QED
    BY <1>1, <1>2, <2>1, <2>2 DEF RunRow
<1>4. Due(t, "lock") /\ owner[RowDue(t)] = other
  BY <1>3 DEF WaitsFor
<1>5. RowDue(t) \in Rows /\ RowDue(t)[2] = target[t]
  <2>1. todo[t] \in Seq(Statement) /\ todo[t] # <<>> /\ Head(todo[t]).call = "lock"
    BY <1>4 DEF Due, IInv, TypeOK
  <2>2. Head(todo[t]) \in Statement
    BY <2>1, HeadTailProperties
  <2>. QED
    BY <2>1, <2>2 DEF RowDue, Rows, Statement, IInv, TypeOK
<1>6. /\ target[other] = target[t]
      /\ kind[other] # "heartbeat" => owner[RunRow(other)] = other
      /\ kind[other] = "heartbeat" => todo[other] = <<>>
  BY <1>4, <1>5 DEF JInv, Orderly, HoldsItsOwn
<1>7. kind[other] = "heartbeat" /\ todo[other] = <<>>
  BY <1>1, <1>2, <1>6 DEF RunRow
<1>. QED
  BY <1>7 DEF WaitsFor, Due

(* SKIP LOCKED and the order of the locks keep a worker that polls from    *)
(* queueing behind anyone but a heartbeat.                                 *)
THEOREM PollsAreNotHeldUp == Spec => []PollIsNotHeldUp
BY LogsAreDense, OnlyHeartbeatsInTheWay, PTL
----------------------------------------------------------------------------
(* The log of a run grows by whole transactions.                           *)

Nth(events, n) == CHOOSE e \in events : e.sequence = n

LogsInOrder == [r \in Runs |-> InOrder(r)]

Ordered(events) == [n \in 1..Cardinality(events) |-> Nth(events, n).operation]

(* Each number of a dense log is that of one event.                        *)
LEMMA NthIsThere ==
  ASSUME NEW events, Dense(events), NEW n \in 1..Cardinality(events)
  PROVE  Nth(events, n) \in events /\ Nth(events, n).sequence = n
<1>1. \E e \in events : e.sequence = n
  BY DEF Dense, Sequences
<1>. QED
  BY <1>1, Zenon DEF Nth

(* It is a sequence of operations that does not repeat any.                *)
LEMMA OrderedIsInjective ==
  ASSUME NEW events \in SUBSET Event, Dense(events)
  PROVE  /\ Ordered(events) \in Seq(Operations) /\ Abstract!IsInjective(Ordered(events))
         /\ Len(Ordered(events)) = Cardinality(events) /\ Cardinality(events) \in Nat
<1> DEFINE size == Cardinality(events)
<1>1. size \in Nat
  BY FS_CardinalityType DEF Dense
<1>2. \A n \in 1..size : Nth(events, n) \in events /\ Nth(events, n).sequence = n
  BY NthIsThere
<1>3. /\ DOMAIN Ordered(events) = 1..size
      /\ \A n \in 1..size : Ordered(events)[n] = Nth(events, n).operation
  BY DEF Ordered
<1>4. \A n \in 1..size : Nth(events, n).operation \in Operations
  BY <1>2 DEF Event
<1>5. \A n, m \in 1..size : Ordered(events)[n] = Ordered(events)[m] => n = m
  <2> SUFFICES ASSUME NEW n \in 1..size, NEW m \in 1..size,
                      Ordered(events)[n] = Ordered(events)[m]
               PROVE  n = m
    OBVIOUS
  <2>1. Nth(events, n).operation = Nth(events, m).operation
    BY <1>3
  <2>2. Nth(events, n) = Nth(events, m)
    BY <1>2, <2>1 DEF Dense
  <2>. QED
    BY <1>2, <2>2
<1>6. Ordered(events) \in [1..size -> Operations]
  BY <1>4 DEF Ordered
<1>. HIDE DEF size
<1>7. Ordered(events) \in Seq(Operations) /\ Len(Ordered(events)) = size
  BY <1>1, <1>6
<1>8. Abstract!IsInjective(Ordered(events))
  BY <1>3, <1>5 DEF Abstract!IsInjective
<1>. QED
  BY <1>1, <1>7, <1>8 DEF size

(* What was in a dense log keeps its place when it grows.                  *)
LEMMA OrderedGrows ==
  ASSUME NEW before \in SUBSET Event, NEW after \in SUBSET Event,
         Dense(before), Dense(after), before \subseteq after
  PROVE  Abstract!IsPrefix(Ordered(before), Ordered(after))
<1>1. /\ Cardinality(before) \in Nat /\ Cardinality(after) \in Nat
      /\ Cardinality(before) <= Cardinality(after)
  BY FS_CardinalityType, FS_Subset DEF Dense
<1>2. ASSUME NEW n \in 1..Cardinality(before) PROVE Ordered(before)[n] = Ordered(after)[n]
  <2>1. n \in 1..Cardinality(after)
    BY <1>1
  <2>2. /\ Nth(before, n) \in after /\ Nth(before, n).sequence = n
        /\ Nth(after, n) \in after /\ Nth(after, n).sequence = n
    BY <2>1, NthIsThere
  <2>3. Nth(before, n) = Nth(after, n)
    BY <2>2 DEF Dense
  <2>. QED
    BY <2>1, <2>3 DEF Ordered
<1>3. /\ Ordered(before) \in Seq(Operations) /\ Len(Ordered(before)) = Cardinality(before)
      /\ Ordered(after) \in Seq(Operations) /\ Len(Ordered(after)) = Cardinality(after)
  BY OrderedIsInjective
<1>4. SubSeq(Ordered(before), 1, Len(Ordered(before)))
        = SubSeq(Ordered(after), 1, Len(Ordered(before)))
  BY <1>1, <1>2, <1>3
<1>. QED
  BY <1>1, <1>3, <1>4 DEF Abstract!IsPrefix

(* A transaction that commits events appends one or two operations.        *)
LEMMA CommitAppends ==
  ASSUME IInv, JInv, NEW t \in Txs, Commit(t), NEW r \in Runs, r = target[t],
         ~(drafts[t] \subseteq log[r])
  PROVE  Abstract!AppendBatch(r)
<1> DEFINE before == log[r]
           after == log[r] \cup drafts[t]
<1>1. /\ phase[t] = "open" /\ todo[t] = <<>> /\ r \in Runs
      /\ before \in SUBSET Event /\ after \in SUBSET Event
      /\ log' = [log EXCEPT ![r] = after]
  BY DEF Commit, IInv, TypeOK
<1>2. log'[r] = after /\ \A q \in Runs \ {r} : log'[q] = log[q]
  BY <1>1 DEF IInv, TypeOK
<1>3. Dense(before) /\ Dense(after)
  BY <1>1 DEF JInv, Orderly, Seen
<1>4. /\ IsFiniteSet(before) /\ IsFiniteSet(drafts[t]) /\ IsFiniteSet(after)
      /\ Cardinality(drafts[t]) \in Nat /\ Cardinality(drafts[t]) <= 2
  <2>1. drafts[t] # {}
    OBVIOUS
  <2>2. Len(todo[t]) = 0
    BY <1>1
  <2>. QED
    BY <1>3, <2>1, <2>2, DraftsAreFinite DEF Dense, BatchFits
<1>5. /\ before \subseteq after /\ before # after
  OBVIOUS
<1>. HIDE DEF before, after
<1>6. /\ Cardinality(before) \in Nat /\ Cardinality(after) \in Nat
      /\ Cardinality(before) <= Cardinality(after)
      /\ Cardinality(before) # Cardinality(after)
  BY <1>4, <1>5, FS_CardinalityType, FS_Subset
<1>7. Cardinality(after) <= Cardinality(before) + Cardinality(drafts[t])
  <2>1. after = before \cup drafts[t]
    BY DEF before, after
  <2>2. Cardinality(before \cup drafts[t])
          = Cardinality(before) + Cardinality(drafts[t]) - Cardinality(before \cap drafts[t])
    BY <1>4, FS_Union
  <2>3. Cardinality(before \cap drafts[t]) \in Nat
    BY <1>4, FS_Intersection, FS_CardinalityType
  <2>. QED
    BY <1>4, <1>6, <2>1, <2>2, <2>3
<1>8. /\ InOrder(r) = Ordered(before) /\ InOrder(r)' = Ordered(after)
      /\ \A q \in Runs \ {r} : InOrder(q)' = InOrder(q)
  <2>1. InOrder(r) = Ordered(before)
    BY DEF InOrder, Ordered, Nth, before
  <2>2. InOrder(r)' = Ordered(after)
    BY <1>2 DEF InOrder, Ordered, Nth
  <2>3. ASSUME NEW q \in Runs \ {r} PROVE InOrder(q)' = InOrder(q)
    <3>1. log'[q] = log[q]
      BY <1>2
    <3>. QED
      BY <3>1 DEF InOrder
  <2>. QED
    BY <2>1, <2>2, <2>3
<1>9. /\ Abstract!IsPrefix(Ordered(before), Ordered(after))
      /\ Len(Ordered(after)) - Len(Ordered(before)) \in 1..2
      /\ Ordered(after) \in Seq(Operations)
      /\ Abstract!IsInjective(Ordered(after))
  BY <1>1, <1>3, <1>4, <1>5, <1>6, <1>7, OrderedIsInjective, OrderedGrows DEF before, after
<1> DEFINE grown == [q \in Runs |-> InOrder(q)]
           grownNext == [q \in Runs |-> InOrder(q)']
<1>10. /\ grown[r] = Ordered(before) /\ grownNext[r] = Ordered(after)
       /\ grownNext = [grown EXCEPT ![r] = grownNext[r]]
  BY <1>8
<1>. QED
  BY <1>9, <1>10 DEF Abstract!AppendBatch

(* The abstract log changes when the committed rows do.                    *)
LEMMA StaysInOrder ==
  ASSUME log' = log
  PROVE  UNCHANGED LogsInOrder
<1>1. ASSUME NEW r \in Runs PROVE InOrder(r)' = InOrder(r)
  BY DEF InOrder
<1>. QED
  BY <1>1 DEF LogsInOrder

(* Every step is a batch, or changes no log.                               *)
LEMMA StepsAreBatches ==
  ASSUME IInv, JInv, [Next]_vars
  PROVE  [Abstract!Next]_LogsInOrder
<1>1. ASSUME NEW t \in Txs, Commit(t) PROVE [Abstract!Next]_LogsInOrder
  <2>1. PICK r \in Runs : r = target[t]
    BY DEF IInv, TypeOK
  <2>2. CASE drafts[t] \subseteq log[r]
    <3>1. log' = log
      BY <1>1, <2>1, <2>2 DEF Commit, IInv, TypeOK
    <3>. QED
      BY <3>1, StaysInOrder
  <2>3. CASE ~(drafts[t] \subseteq log[r])
    BY <1>1, <2>1, <2>3, CommitAppends DEF Abstract!Next
  <2>. QED
    BY <2>2, <2>3
<1>2. CASE log' = log
  BY <1>2, StaysInOrder
<1>3. ASSUME NEW t \in Txs, Begin(t) \/ Poll(t) \/ Step(t) \/ Abort(t), ~Commit(t)
      PROVE  log' = log
  BY <1>3 DEF Begin, BeginAs, Poll, Step, Lock, LeaveStepsAlone, FindLogged, TakeNumber,
     Insert, Abort
<1>4. UNCHANGED vars => log' = log
  BY DEF vars
<1>. QED
  BY <1>1, <1>2, <1>3, <1>4 DEF Next

(* Statement by statement, with waits and rollbacks in between, each log   *)
(* grows at its end by whole transactions, one after the other.            *)
THEOREM AtomicLogImplemented == Spec => ImplementsAtomicLog
<1>1. Init => Abstract!Init
  <2> SUFFICES ASSUME Init PROVE Abstract!Init
    OBVIOUS
  <2>1. \A r \in Runs : InOrder(r) = <<>>
    BY FS_EmptySet DEF Init, InOrder
  <2>. QED
    BY <2>1 DEF Abstract!Init
<1>2. IInv /\ JInv /\ [Next]_vars => [Abstract!Next]_LogsInOrder
  BY StepsAreBatches
<1>. QED
  BY <1>1, <1>2, LogsAreDense, PTL
     DEF Spec, ImplementsAtomicLog, Abstract!Spec, LogsInOrder
============================================================================

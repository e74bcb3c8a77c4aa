--------------------------- MODULE EnqueueProofs ---------------------------
(***************************************************************************)
(* For every number of requests, actors, keys and bodies: the types, that  *)
(* a spent grant has made exactly one run, that every answer is true and   *)
(* every refusal founded, that no requests wait for each other for ever,   *)
(* and the refinement of GrantLedger.                                      *)
(*                                                                         *)
(* None of it is inductive.  SpentMeansOneRun rests on the row lock that a *)
(* transaction holds on the grant between consumeGrant and COMMIT, under   *)
(* which nobody else can have spent it, and on each request writing at     *)
(* most once (IInv).  The answers rest on the records telling of exactly   *)
(* the rows that exist, and on the locks a request has taken at each       *)
(* statement, under which its key stays free until COMMIT (JInv).          *)
(***************************************************************************)
EXTENDS EnqueueProperties, TLAPS

Asked(q) ==
  pc[q] # "idle" => /\ ask[q].actor \in Actors /\ ask[q].key \in Keys
                    /\ q \in Authorising => ask[q].body \in Bodies
                    /\ q \in Enqueuing => ask[q].body \in Authorising
                    /\ pc[q] \in {"find", "consume", "backfill", "fetch"} =>
                         q \in Enqueuing

\* Past the check of an enqueue its grant exists.
GrantIsThere(q) ==
  q \in Enqueuing /\ pc[q] \in {"find", "begin", "consume", "insert", "record", "commit"}
    => grants[ask[q].body] # NoRow

\* From consumeGrant on its row is locked, and not spent.
GrantIsHeld(q) ==
  q \in Enqueuing /\ pc[q] \in {"insert", "record", "commit"} =>
    /\ GrantRow(ask[q].body) \in held[q]
    /\ ~grants[ask[q].body].consumed

\* The write is the last thing a request does but to read its answer.
WritesLast(q) ==
  /\ q \in Authorising /\ grants[q] # NoRow => pc[q] = "done"
  /\ q \in Enqueuing /\ runs[q] # NoRow => pc[q] \in {"fetch", "done"}

LocksAreExclusive ==
  \A p, q \in Requests : p # q => held[p] \cap held[q] = {}

RequestsFit ==
  \A q \in Requests :
    Asked(q) /\ GrantIsThere(q) /\ GrantIsHeld(q) /\ WritesLast(q)

IInv == TypeOK /\ LocksAreExclusive /\ RequestsFit /\ SpentMeansOneRun
----------------------------------------------------------------------------
(* Rows.                                                                   *)

(* To spend a grant changes nothing else of its row.                       *)
LEMMA SpentRow ==
  ASSUME NEW row \in Grant
  PROVE  /\ Spent(row) \in Grant /\ Spent(row) # NoRow
         /\ Spent(row).consumed = TRUE
<1>1. Spent(row) \in Grant /\ Spent(row).consumed = TRUE
  BY Zenon DEF Spent, Grant
<1>. QED
  BY <1>1, RowsAssumption

(* To expire a grant changes nothing else of its row.                      *)
LEMMA ExpiredRow ==
  ASSUME NEW row \in Grant
  PROVE  /\ Expired(row) \in Grant /\ Expired(row) # NoRow
         /\ Expired(row).consumed = row.consumed
<1>1. Expired(row) \in Grant /\ Expired(row).consumed = row.consumed
  BY Zenon DEF Expired, Grant
<1>. QED
  BY <1>1, RowsAssumption

(* The key of a record names an entry of the table.                        *)
LEMMA EntryType ==
  ASSUME NEW q \in Requests, pc[q] # "idle", Asked(q)
  PROVE  Entry(q) \in Entries
BY DEF Asked, Entry, Entries, Routes

(* What is recorded is a record.                                           *)
LEMMA RecordedType ==
  ASSUME IInv, NEW q \in Requests, pc[q] # "idle", NEW id \in Requests
  PROVE  Recorded(q, id) \in [Entries -> Record \cup {NoRow}]
<1>1. Asked(q)
  BY DEF IInv, RequestsFit
<1>2. Entry(q) \in Entries
  BY <1>1, EntryType
<1>3. [body |-> ask[q].body, id |-> id] \in Record
  BY <1>1 DEF Asked, Record, Requests
<1>. QED
  BY <1>2, <1>3 DEF Recorded, IInv, TypeOK
----------------------------------------------------------------------------
(* The steps.                                                              *)

(* Nothing has happened yet.                                               *)
LEMMA InitIInv == Init => IInv
<1> SUFFICES ASSUME Init PROVE IInv
  OBVIOUS
<1>1. TypeOK
  BY DEF Init, TypeOK, Points, Status, Locks, Requests
<1>2. LocksAreExclusive /\ RequestsFit
  BY RequestsAssumption DEF Init, LocksAreExclusive, RequestsFit, Asked, GrantIsThere,
     GrantIsHeld, WritesLast, Requests
<1>3. SpentMeansOneRun
  BY DEF Init, SpentMeansOneRun, RunsOf
<1>. QED
  BY <1>1, <1>2, <1>3 DEF IInv

(* A request that only reads moves on: the tables and the locks stay.      *)
LEMMA Reads ==
  ASSUME IInv, NEW q \in Requests, TypeOK',
         UNCHANGED <<grants, runs, held>>,
         \A p \in Requests \ {q} : pc'[p] = pc[p] /\ ask'[p] = ask[p],
         Asked(q)', GrantIsThere(q)', GrantIsHeld(q)', WritesLast(q)'
  PROVE  IInv'
<1>1. LocksAreExclusive' /\ SpentMeansOneRun'
  BY DEF IInv, LocksAreExclusive, SpentMeansOneRun, RunsOf
<1>2. ASSUME NEW p \in Requests, p # q
      PROVE  Asked(p)' /\ GrantIsThere(p)' /\ GrantIsHeld(p)' /\ WritesLast(p)'
  BY <1>2 DEF IInv, RequestsFit, Asked, GrantIsThere, GrantIsHeld, WritesLast,
     GrantRow
<1>3. RequestsFit'
  BY <1>2 DEF RequestsFit
<1>. QED
  BY <1>1, <1>3 DEF IInv

Waiting(q) == pc[q] \notin {"idle", "fetch", "done"}

(* A request goes to its next statement; at most the records have changed. *)
LEMMA GoesOn ==
  ASSUME IInv, NEW q \in Requests, Waiting(q),
         NEW point \in Points \ {"idle"}, Goto(q, point),
         UNCHANGED <<grants, runs, ask, held, error>>,
         records' \in [Entries -> Record \cup {NoRow}],
         timely' \in [Requests -> BOOLEAN],
         q \in Enqueuing => point \notin {"insert", "record", "commit"},
         point \in {"find", "consume", "backfill", "fetch"} => q \in Enqueuing,
         q \in Enqueuing /\ point \in {"find", "begin", "consume"} =>
           grants[ask[q].body] # NoRow
  PROVE  IInv'
<1>1. TypeOK'
  BY DEF IInv, TypeOK, Goto
<1>2. pc' \in [Requests -> Points] /\ pc'[q] = point
      /\ \A p \in Requests \ {q} : pc'[p] = pc[p]
  BY DEF IInv, TypeOK, Goto
<1>3. Asked(q) /\ WritesLast(q)
  BY DEF IInv, RequestsFit
<1>4. Asked(q)' /\ GrantIsThere(q)' /\ GrantIsHeld(q)' /\ WritesLast(q)'
  BY <1>2, <1>3, RequestsAssumption
  DEF Waiting, Asked, GrantIsThere, GrantIsHeld, WritesLast, Requests
<1>. QED
  BY <1>1, <1>2, <1>4, Reads

(* A request is answered outside a transaction.                            *)
LEMMA IsAnswered ==
  ASSUME IInv, NEW q \in Requests, pc[q] # "idle",
         NEW status \in Status, NEW id \in Requests \cup {NoRow},
         Answer(q, status, id),
         UNCHANGED <<tables, ask, held, timely, error>>
  PROVE  IInv'
<1>1. TypeOK'
  BY DEF IInv, TypeOK, Answer, Points, tables
<1>2. pc'[q] = "done" /\ \A p \in Requests \ {q} : pc'[p] = pc[p]
  BY DEF IInv, TypeOK, Answer
<1>3. Asked(q) /\ WritesLast(q)
  BY DEF IInv, RequestsFit
<1>4. Asked(q)' /\ GrantIsThere(q)' /\ GrantIsHeld(q)' /\ WritesLast(q)'
  BY <1>2, <1>3 DEF Asked, GrantIsThere, GrantIsHeld, WritesLast, tables
<1>. QED
  BY <1>1, <1>2, <1>4, Reads DEF tables

(* A statement takes a lock that is free.                                  *)
LEMMA TakesLock ==
  ASSUME IInv, NEW q \in Requests, Waiting(q),
         NEW lock \in Locks, Lock(q, lock),
         NEW point \in {"insert", "record", "commit"}, Goto(q, point),
         UNCHANGED <<tables, ask, timely, error>>,
         q \in Enqueuing =>
           \/ pc[q] \in {"insert", "record"}
           \/ /\ pc[q] = "consume" /\ lock = GrantRow(ask[q].body)
              /\ ~grants[ask[q].body].consumed
  PROVE  IInv'
<1>1. /\ held' = [held EXCEPT ![q] = held[q] \cup {lock}]
      /\ \A p \in Requests \ {q} : lock \notin held[p]
  BY DEF Lock, Free
<1>2. held'[q] = held[q] \cup {lock} /\ \A p \in Requests \ {q} : held'[p] = held[p]
  BY <1>1 DEF IInv, TypeOK
<1>3. pc'[q] = point /\ \A p \in Requests \ {q} : pc'[p] = pc[p]
  BY DEF IInv, TypeOK, Goto
<1>4. TypeOK'
  BY <1>1 DEF IInv, TypeOK, Goto, Points, tables
<1>5. LocksAreExclusive'
  BY <1>1, <1>2 DEF IInv, LocksAreExclusive
<1>6. SpentMeansOneRun'
  BY DEF IInv, SpentMeansOneRun, RunsOf, tables
<1>7. Asked(q)' /\ GrantIsThere(q)' /\ GrantIsHeld(q)' /\ WritesLast(q)'
  <2>1. Asked(q) /\ GrantIsThere(q) /\ GrantIsHeld(q) /\ WritesLast(q)
    BY DEF IInv, RequestsFit
  <2>. QED
    BY <1>2, <1>3, <2>1
    DEF Waiting, Asked, GrantIsThere, GrantIsHeld, WritesLast, tables, GrantRow
<1>8. ASSUME NEW p \in Requests, p # q
      PROVE  Asked(p)' /\ GrantIsThere(p)' /\ GrantIsHeld(p)' /\ WritesLast(p)'
  <2>1. Asked(p) /\ GrantIsThere(p) /\ GrantIsHeld(p) /\ WritesLast(p)
    BY <1>8 DEF IInv, RequestsFit
  <2>. QED
    BY <1>2, <1>3, <1>8, <2>1
    DEF Asked, GrantIsThere, GrantIsHeld, WritesLast, tables, GrantRow
<1>9. RequestsFit'
  BY <1>7, <1>8 DEF RequestsFit
<1>. QED
  BY <1>4, <1>5, <1>6, <1>9 DEF IInv

(* A transaction is rolled back and lets its locks go.                     *)
LEMMA RollsBack ==
  ASSUME IInv, NEW q \in Requests, pc[q] \notin {"idle", "done"}, Rollback(q),
         NEW point \in {"reread", "done"}, pc' = [pc EXCEPT ![q] = point],
         reply' \in [Requests -> [status : Status, id : Requests \cup {NoRow}]],
         error' \in [Requests -> {0, 400, 409}],
         UNCHANGED <<ask, timely>>,
         point = "reread" => Waiting(q)
  PROVE  IInv'
<1>1. UNCHANGED <<grants, runs, records>> /\ held' = [held EXCEPT ![q] = {}]
  BY DEF Rollback, RolledBack, EndTransaction
<1>2. held'[q] = {} /\ \A p \in Requests \ {q} : held'[p] = held[p]
  BY <1>1 DEF IInv, TypeOK
<1>3. pc'[q] = point /\ \A p \in Requests \ {q} : pc'[p] = pc[p]
  BY DEF IInv, TypeOK
<1>4. TypeOK'
  BY <1>1 DEF IInv, TypeOK, Points
<1>5. LocksAreExclusive'
  BY <1>2 DEF IInv, LocksAreExclusive
<1>6. SpentMeansOneRun'
  BY <1>1 DEF IInv, SpentMeansOneRun, RunsOf
<1>7. Asked(q)' /\ GrantIsThere(q)' /\ GrantIsHeld(q)' /\ WritesLast(q)'
  <2>1. Asked(q) /\ WritesLast(q)
    BY DEF IInv, RequestsFit
  <2>. QED
    BY <1>1, <1>3, <2>1, RequestsAssumption
    DEF Waiting, Asked, GrantIsThere, GrantIsHeld, WritesLast
<1>8. ASSUME NEW p \in Requests, p # q
      PROVE  Asked(p)' /\ GrantIsThere(p)' /\ GrantIsHeld(p)' /\ WritesLast(p)'
  <2>1. Asked(p) /\ GrantIsThere(p) /\ GrantIsHeld(p) /\ WritesLast(p)
    BY <1>8 DEF IInv, RequestsFit
  <2>. QED
    BY <1>1, <1>2, <1>3, <1>8, <2>1
    DEF Asked, GrantIsThere, GrantIsHeld, WritesLast, GrantRow
<1>9. RequestsFit'
  BY <1>7, <1>8 DEF RequestsFit
<1>. QED
  BY <1>4, <1>5, <1>6, <1>9 DEF IInv

(* An authorisation commits its grant.                                     *)
LEMMA CommitsGrant ==
  ASSUME IInv, NEW q \in Requests, CommitGrant(q),
         NEW status \in Status, NEW id \in Requests \cup {NoRow},
         Answer(q, status, id)
  PROVE  IInv'
<1> DEFINE row == [actor |-> ask[q].actor, key |-> ask[q].key,
                   body |-> ask[q].body, consumed |-> FALSE, expired |-> FALSE]
<1>1. /\ q \in Authorising /\ q \notin Enqueuing /\ pc[q] = "commit"
      /\ grants' = [grants EXCEPT ![q] = row]
      /\ UNCHANGED <<runs, ask, timely, error>>
      /\ held' = [held EXCEPT ![q] = {}]
      /\ records' = Recorded(q, q)
  BY RequestsAssumption DEF CommitGrant, EndTransaction
<1>2. Asked(q) /\ WritesLast(q)
  BY DEF IInv, RequestsFit
<1>3. row \in Grant /\ row # NoRow /\ row.consumed = FALSE
  <2>1. ask[q].actor \in Actors /\ ask[q].key \in Keys /\ ask[q].body \in Bodies
    BY <1>1, <1>2 DEF Asked
  <2>2. row \in Grant /\ row.consumed = FALSE
    BY <2>1 DEF Grant
  <2>. QED
    BY <2>2, RowsAssumption
<1>4. grants[q] = NoRow
  BY <1>1, <1>2 DEF WritesLast
<1>5. /\ grants'[q] = row
      /\ \A g \in Authorising \ {q} : grants'[g] = grants[g]
  BY <1>1 DEF IInv, TypeOK
<1>6. held'[q] = {} /\ \A p \in Requests \ {q} : held'[p] = held[p]
  BY <1>1 DEF IInv, TypeOK
<1>7. pc'[q] = "done" /\ \A p \in Requests \ {q} : pc'[p] = pc[p]
  BY DEF IInv, TypeOK, Answer
<1>8. TypeOK'
  <2>1. records' \in [Entries -> Record \cup {NoRow}]
    BY <1>1, RecordedType
  <2>2. grants' \in [Authorising -> Grant \cup {NoRow}]
    BY <1>1, <1>3 DEF IInv, TypeOK
  <2>. HIDE DEF row
  <2>. QED
    BY <1>1, <2>1, <2>2 DEF IInv, TypeOK, Answer, Points
<1>. HIDE DEF row
<1>9. LocksAreExclusive'
  BY <1>6 DEF IInv, LocksAreExclusive
<1>10. SpentMeansOneRun'
  <2>1. \A g \in Authorising : RunsOf(g)' = RunsOf(g)
    BY <1>1 DEF RunsOf
  <2>. QED
    BY <1>1, <1>3, <1>4, <1>5, <2>1 DEF IInv, SpentMeansOneRun
<1>11. Asked(q)' /\ GrantIsThere(q)' /\ GrantIsHeld(q)' /\ WritesLast(q)'
  BY <1>1, <1>2, <1>7 DEF Asked, GrantIsThere, GrantIsHeld, WritesLast
<1>12. ASSUME NEW p \in Requests, p # q
       PROVE  Asked(p)' /\ GrantIsThere(p)' /\ GrantIsHeld(p)' /\ WritesLast(p)'
  <2>1. Asked(p) /\ GrantIsThere(p) /\ GrantIsHeld(p) /\ WritesLast(p)
    BY <1>12 DEF IInv, RequestsFit
  <2>2. p \in Enqueuing /\ pc[p] # "idle" => ask[p].body \in Authorising
    BY <2>1 DEF Asked
  <2>. QED
    BY <1>1, <1>3, <1>4, <1>5, <1>6, <1>7, <1>12, <2>1, <2>2
    DEF Asked, GrantIsThere, GrantIsHeld, WritesLast, GrantRow
<1>13. RequestsFit'
  BY <1>11, <1>12 DEF RequestsFit
<1>. QED
  BY <1>8, <1>9, <1>10, <1>13 DEF IInv

(* An enqueue commits its run and spends the grant it has locked.          *)
LEMMA CommitsRun ==
  ASSUME IInv, NEW q \in Requests, CommitRun(q),
         NEW point \in {"fetch", "done"}, pc' = [pc EXCEPT ![q] = point],
         reply' \in [Requests -> [status : Status, id : Requests \cup {NoRow}]]
  PROVE  IInv'
<1>1. /\ q \in Enqueuing /\ q \notin Authorising /\ pc[q] = "commit"
      /\ grants' = [grants EXCEPT ![ask[q].body] = Spent(grants[ask[q].body])]
      /\ runs' = [runs EXCEPT ![q] = [grant |-> ask[q].body, key |-> ask[q].key,
                                     actor |-> grants[ask[q].body].actor]]
      /\ UNCHANGED <<ask, timely, error>>
      /\ held' = [held EXCEPT ![q] = {}]
      /\ records' = Recorded(q, q)
  BY RequestsAssumption DEF CommitRun, EndTransaction
<1>2. Asked(q) /\ GrantIsThere(q) /\ GrantIsHeld(q) /\ WritesLast(q)
  BY DEF IInv, RequestsFit
<1>g. PICK g \in Authorising : g = ask[q].body
  BY <1>1, <1>2 DEF Asked
<1> DEFINE row == [grant |-> g, key |-> ask[q].key, actor |-> grants[g].actor]
<1>r. /\ grants' = [grants EXCEPT ![g] = Spent(grants[g])]
      /\ runs' = [runs EXCEPT ![q] = row]
  BY <1>1, <1>g
<1>3. /\ grants[g] \in Grant /\ grants[g] # NoRow
      /\ ~grants[g].consumed /\ GrantRow(g) \in held[q]
  BY <1>1, <1>2, <1>g DEF GrantIsThere, GrantIsHeld, IInv, TypeOK
<1>4. row \in Run /\ row # NoRow /\ row.grant = g
  <2>1. ask[q].key \in Keys /\ grants[g].actor \in Actors
    BY <1>1, <1>2, <1>3 DEF Asked, Grant
  <2>2. row \in Run /\ row.grant = g
    BY <2>1 DEF Run
  <2>. QED
    BY <2>2, RowsAssumption
<1>5. runs[q] = NoRow
  BY <1>1, <1>2 DEF WritesLast
<1>6. /\ Spent(grants[g]) \in Grant /\ Spent(grants[g]) # NoRow
      /\ Spent(grants[g]).consumed = TRUE
  BY <1>3, SpentRow
<1>7. /\ runs'[q] = row
      /\ \A r \in Enqueuing \ {q} : runs'[r] = runs[r]
      /\ grants'[g] = Spent(grants[g])
      /\ \A h \in Authorising \ {g} : grants'[h] = grants[h]
  BY <1>1, <1>r DEF IInv, TypeOK
<1>8. held'[q] = {} /\ \A p \in Requests \ {q} : held'[p] = held[p]
  BY <1>1 DEF IInv, TypeOK
<1>9. pc'[q] = point /\ \A p \in Requests \ {q} : pc'[p] = pc[p]
  BY DEF IInv, TypeOK
<1>. HIDE DEF row
<1>10. TypeOK'
  <2>1. records' \in [Entries -> Record \cup {NoRow}]
    BY <1>1, RecordedType
  <2>. QED
    BY <1>1, <1>r, <1>4, <1>6, <2>1 DEF IInv, TypeOK, Points
<1>11. LocksAreExclusive'
  BY <1>8 DEF IInv, LocksAreExclusive
<1>12. SpentMeansOneRun'
  <2>1. RunsOf(g) = {}
    BY <1>3 DEF IInv, SpentMeansOneRun
  <2>2. RunsOf(g)' = {q}
    BY <1>1, <1>4, <1>7, <2>1 DEF RunsOf
  <2>3. ASSUME NEW h \in Authorising, h # g PROVE RunsOf(h)' = RunsOf(h)
    BY <1>1, <1>4, <1>5, <1>7, <2>3 DEF RunsOf
  <2>4. grants'[g] # NoRow /\ grants'[g].consumed
    BY <1>6, <1>7
  <2>. QED
    BY <1>1, <1>7, <2>2, <2>3, <2>4 DEF IInv, SpentMeansOneRun
<1>13. Asked(q)' /\ GrantIsThere(q)' /\ GrantIsHeld(q)' /\ WritesLast(q)'
  BY <1>1, <1>2, <1>9 DEF Asked, GrantIsThere, GrantIsHeld, WritesLast
<1>14. ASSUME NEW p \in Requests, p # q
       PROVE  Asked(p)' /\ GrantIsThere(p)' /\ GrantIsHeld(p)' /\ WritesLast(p)'
  <2>1. Asked(p) /\ GrantIsThere(p) /\ GrantIsHeld(p) /\ WritesLast(p)
    BY <1>14 DEF IInv, RequestsFit
  <2>2. p \in Enqueuing /\ pc[p] # "idle" => ask[p].body \in Authorising
    BY <2>1 DEF Asked
  <2>3. GrantRow(g) \notin held[p]
    BY <1>3, <1>14 DEF IInv, LocksAreExclusive
  <2>4. p \in Authorising /\ grants'[p] # NoRow => pc'[p] = "done"
    BY <1>3, <1>7, <1>9, <1>14, <2>1 DEF WritesLast
  <2>. QED
    BY <1>1, <1>3, <1>6, <1>7, <1>8, <1>9, <1>14, <2>1, <2>2, <2>3, <2>4
    DEF Asked, GrantIsThere, GrantIsHeld, WritesLast, GrantRow
<1>15. RequestsFit'
  BY <1>13, <1>14 DEF RequestsFit
<1>. QED
  BY <1>10, <1>11, <1>12, <1>15 DEF IInv

(* Time passes for a grant.                                                *)
LEMMA Expires ==
  ASSUME IInv, NEW g \in Authorising, Expire(g)
  PROVE  IInv'
<1>1. /\ grants' = [grants EXCEPT ![g] = Expired(grants[g])]
      /\ UNCHANGED <<runs, records, pc, ask, held, timely, error, reply>>
      /\ grants[g] # NoRow /\ grants[g] \in Grant
  BY DEF Expire, IInv, TypeOK
<1>2. /\ Expired(grants[g]) \in Grant /\ Expired(grants[g]) # NoRow
      /\ Expired(grants[g]).consumed = grants[g].consumed
  BY <1>1, ExpiredRow
<1>3. \A h \in Authorising : /\ grants'[h] = NoRow <=> grants[h] = NoRow
                             /\ grants'[h].consumed = grants[h].consumed
  BY <1>1, <1>2 DEF IInv, TypeOK
<1>4. TypeOK'
  BY <1>1, <1>2 DEF IInv, TypeOK
<1>5. LocksAreExclusive'
  BY <1>1 DEF IInv, LocksAreExclusive
<1>6. SpentMeansOneRun'
  BY <1>1, <1>3 DEF IInv, SpentMeansOneRun, RunsOf
<1>7. RequestsFit'
  BY <1>1, <1>3 DEF IInv, RequestsFit, Asked, GrantIsThere, GrantIsHeld,
     WritesLast, GrantRow
<1>. QED
  BY <1>4, <1>5, <1>6, <1>7 DEF IInv

(* A request arrives.                                                      *)
LEMMA Arrives ==
  ASSUME IInv, NEW q \in Requests, Receive(q)
  PROVE  IInv'
<1>1. PICK a \in Actors, k \in Keys,
           body \in (IF q \in Authorising THEN Bodies ELSE Authorising) :
        ask' = [ask EXCEPT ![q] = [actor |-> a, key |-> k, body |-> body]]
  BY DEF Receive
<1>2. /\ pc[q] = "idle" /\ pc' = [pc EXCEPT ![q] = "lookup"]
      /\ UNCHANGED <<grants, runs, records, held, timely, error, reply>>
  BY DEF Receive, Goto, tables
<1>3. /\ ask'[q] = [actor |-> a, key |-> k, body |-> body] /\ pc'[q] = "lookup"
      /\ \A p \in Requests \ {q} : pc'[p] = pc[p] /\ ask'[p] = ask[p]
  BY <1>1, <1>2 DEF IInv, TypeOK
<1>4. TypeOK'
  BY <1>1, <1>2 DEF IInv, TypeOK, Points
<1>5. Asked(q)' /\ GrantIsThere(q)' /\ GrantIsHeld(q)'
  BY <1>3, RequestsAssumption DEF Asked, GrantIsThere, GrantIsHeld
<1>6. WritesLast(q)'
  <2>1. WritesLast(q)
    BY DEF IInv, RequestsFit
  <2>. QED
    BY <1>2, <2>1 DEF WritesLast
<1>. QED
  BY <1>2, <1>3, <1>4, <1>5, <1>6, Reads

(* What is looked up is a row of the table.                                *)
LEMMA RowFound ==
  ASSUME IInv, NEW q \in Requests, pc[q] # "idle", records[Entry(q)] # NoRow
  PROVE  records[Entry(q)].id \in Requests
<1>1. Asked(q)
  BY DEF IInv, RequestsFit
<1>2. records[Entry(q)] \in Record
  BY <1>1, EntryType DEF IInv, TypeOK
<1>. QED
  BY <1>2 DEF Record

(* An error of a statement rolls the transaction back.                     *)
LEMMA Aborts ==
  ASSUME IInv, NEW q \in Requests, Waiting(q), NEW status \in {400, 409},
         Abort(q, status), UNCHANGED <<ask, timely>>
  PROVE  IInv'
<1>1. Rollback(q) /\ pc' = [pc EXCEPT ![q] = "reread"]
  BY DEF Abort, Goto
<1>2. /\ reply' \in [Requests -> [status : Status, id : Requests \cup {NoRow}]]
      /\ error' \in [Requests -> {0, 400, 409}]
  BY DEF Abort, Goto, IInv, TypeOK
<1>3. pc[q] \notin {"idle", "done"}
  BY DEF Waiting
<1>4. ASSUME NEW point \in {"reread", "done"}, pc' = [pc EXCEPT ![q] = point],
             point = "reread" => Waiting(q)
      PROVE  IInv'
  BY <1>1, <1>2, <1>3, <1>4, RollsBack
<1>. QED
  BY <1>1, <1>4

(* A transaction is rolled back and its request answered.                  *)
LEMMA IsRefused ==
  ASSUME IInv, NEW q \in Requests, pc[q] \notin {"idle", "done"},
         NEW status \in Status, Rollback(q), Answer(q, status, NoRow),
         UNCHANGED <<ask, timely, error>>
  PROVE  IInv'
<1>1. /\ pc' = [pc EXCEPT ![q] = "done"]
      /\ reply' \in [Requests -> [status : Status, id : Requests \cup {NoRow}]]
      /\ error' \in [Requests -> {0, 400, 409}]
  BY DEF Answer, IInv, TypeOK
<1>. QED
  BY <1>1, RollsBack DEF Waiting

(* What both routes do first keeps the invariant.                          *)
LEMMA LookUpIInv == ASSUME IInv, NEW q \in Requests, LookUp(q) PROVE IInv'
<1>1. /\ pc[q] = "lookup" /\ UNCHANGED <<tables, ask, held, timely, error>>
      /\ Waiting(q) /\ pc[q] # "idle"
  BY DEF LookUp, Waiting
<1>2. /\ records' \in [Entries -> Record \cup {NoRow}]
      /\ timely' \in [Requests -> BOOLEAN]
  BY <1>1 DEF IInv, TypeOK, tables
<1>3. CASE Goto(q, "check")
  BY <1>1, <1>2, <1>3, GoesOn DEF Points, tables
<1>4. CASE records[Entry(q)] # NoRow /\ Answer(q, 201, records[Entry(q)].id)
  BY <1>1, <1>4, RowFound, IsAnswered DEF Status
<1>5. CASE Answer(q, 409, NoRow)
  BY <1>1, <1>5, IsAnswered DEF Status
<1>. QED
  BY <1>3, <1>4, <1>5 DEF LookUp

(* So does the check of the body or of the grant.                          *)
LEMMA CheckIInv == ASSUME IInv, NEW q \in Requests, Check(q) PROVE IInv'
<1>1. /\ pc[q] = "check" /\ UNCHANGED <<tables, ask, held, timely, error>>
      /\ Waiting(q) /\ pc[q] # "idle"
  BY DEF Check, Waiting
<1>2. /\ records' \in [Entries -> Record \cup {NoRow}]
      /\ timely' \in [Requests -> BOOLEAN]
  BY <1>1 DEF IInv, TypeOK, tables
<1>3. CASE q \in Authorising /\ Goto(q, "begin")
  BY <1>1, <1>2, <1>3, RequestsAssumption, GoesOn DEF Points, tables
<1>4. ASSUME q \in Authorising, NEW status \in Outcomes[ask[q].body],
             Answer(q, status, NoRow)
      PROVE  IInv'
  <2>1. Asked(q)
    BY DEF IInv, RequestsFit
  <2>2. status \in Status
    BY <1>1, <1>4, <2>1, OutcomesAssumption DEF Asked, Status
  <2>. QED
    BY <1>1, <1>4, <2>2, IsAnswered
<1>5. CASE q \in Enqueuing /\ Owns(q, ask[q].body) /\ Goto(q, "find")
  BY <1>1, <1>2, <1>5, GoesOn DEF Points, tables, Owns
<1>6. CASE Answer(q, 404, NoRow)
  BY <1>1, <1>6, IsAnswered DEF Status
<1>. QED
  BY <1>3, <1>4, <1>5, <1>6 DEF Check

(* So does BEGIN.                                                          *)
LEMMA BeginIInv == ASSUME IInv, NEW q \in Requests, Begin(q) PROVE IInv'
<1>1. /\ pc[q] = "begin" /\ UNCHANGED <<tables, ask, held, error>> /\ Waiting(q)
      /\ GrantIsThere(q)
  BY DEF Begin, Waiting, IInv, RequestsFit
<1>2. /\ records' \in [Entries -> Record \cup {NoRow}]
      /\ timely' \in [Requests -> BOOLEAN]
  <2>. DEFINE before == ~grants[ask[q].body].expired
  <2>1. before \in BOOLEAN
    OBVIOUS
  <2>2. timely' = timely \/ timely' = [timely EXCEPT ![q] = before]
    BY DEF Begin
  <2>. HIDE DEF before
  <2>. QED
    BY <1>1, <2>1, <2>2 DEF IInv, TypeOK, tables
<1>3. CASE q \in Authorising /\ Goto(q, "insert")
  BY <1>1, <1>2, <1>3, RequestsAssumption, GoesOn DEF Points, tables
<1>4. CASE q \in Enqueuing /\ Goto(q, "consume")
  BY <1>1, <1>2, <1>4, GoesOn DEF Points, tables, GrantIsThere
<1>. QED
  BY <1>3, <1>4 DEF Begin

(* So does the record of the answer.                                       *)
LEMMA PutRecordIInv == ASSUME IInv, NEW q \in Requests, PutRecord(q) PROVE IInv'
<1>1. /\ pc[q] = "record" /\ UNCHANGED <<ask, timely>> /\ Waiting(q)
  BY DEF PutRecord, Waiting
<1>2. CASE /\ Lock(q, RecordEntry(q)) /\ Goto(q, "commit")
           /\ UNCHANGED <<tables, error>>
  <2>1. Asked(q)
    BY DEF IInv, RequestsFit
  <2>2. RecordEntry(q) \in Locks
    BY <1>1, <2>1, EntryType DEF RecordEntry, Locks
  <2>. QED
    BY <1>1, <1>2, <2>2, TakesLock
<1>3. CASE Abort(q, 409)
  BY <1>1, <1>3, Aborts
<1>4. CASE Rollback(q) /\ Answer(q, 409, NoRow) /\ UNCHANGED error
  BY <1>1, <1>4, IsRefused DEF Status
<1>. QED
  BY <1>2, <1>3, <1>4 DEF PutRecord

(* So do the statements of CreateAuthorisation.                            *)
LEMMA InsertGrantIInv == ASSUME IInv, NEW q \in Requests, InsertGrant(q) PROVE IInv'
<1>1. /\ pc[q] = "insert" /\ UNCHANGED <<ask, timely>> /\ Waiting(q)
  BY DEF InsertGrant, Waiting
<1>2. CASE Abort(q, 409)
  BY <1>1, <1>2, Aborts
<1>3. CASE /\ Lock(q, GrantKey(q)) /\ Goto(q, "record")
           /\ UNCHANGED <<tables, error>>
  <2>1. Asked(q)
    BY DEF IInv, RequestsFit
  <2>2. GrantKey(q) \in Locks
    BY <1>1, <2>1 DEF Asked, GrantKey, Locks
  <2>. QED
    BY <1>1, <1>3, <2>2, TakesLock
<1>. QED
  BY <1>2, <1>3 DEF InsertGrant

(* An answer that is replayed after an error is a recorded one.            *)
LEMMA RereadRecordIInv == ASSUME IInv, NEW q \in Requests, RereadRecord(q) PROVE IInv'
<1>1. /\ pc[q] = "reread" /\ UNCHANGED <<tables, ask, held, timely, error>>
      /\ pc[q] # "idle"
  BY DEF RereadRecord
<1>2. CASE records[Entry(q)] # NoRow /\ Answer(q, 201, records[Entry(q)].id)
  BY <1>1, <1>2, RowFound, IsAnswered DEF Status
<1>3. CASE Answer(q, 409, NoRow)
  BY <1>1, <1>3, IsAnswered DEF Status
<1>. QED
  BY <1>2, <1>3 DEF RereadRecord, ReplaysRecord

(* So do the statements of EnqueueRun.                                     *)
LEMMA FindRunIInv == ASSUME IInv, NEW q \in Requests, FindRun(q) PROVE IInv'
<1>1. /\ pc[q] = "find" /\ UNCHANGED <<tables, ask, held, timely, error>>
      /\ Waiting(q) /\ pc[q] # "idle" /\ GrantIsThere(q) /\ q \in Enqueuing
  BY DEF FindRun, Waiting, IInv, RequestsFit, Asked
<1>2. /\ records' \in [Entries -> Record \cup {NoRow}]
      /\ timely' \in [Requests -> BOOLEAN]
  BY <1>1 DEF IInv, TypeOK, tables
<1>3. CASE Goto(q, "begin")
  BY <1>1, <1>2, <1>3, GoesOn DEF Points, tables, GrantIsThere
<1>4. CASE Goto(q, "backfill")
  BY <1>1, <1>2, <1>4, GoesOn DEF Points, tables
<1>5. CASE Answer(q, 409, NoRow)
  BY <1>1, <1>5, IsAnswered DEF Status
<1>. QED
  BY <1>3, <1>4, <1>5 DEF FindRun

(* An answer recorded late names a run that exists.                        *)
LEMMA BackfillIInv == ASSUME IInv, NEW q \in Requests, Backfill(q) PROVE IInv'
<1>1. /\ pc[q] = "backfill" /\ UNCHANGED <<grants, runs, ask, held, timely, error>>
      /\ Waiting(q) /\ pc[q] # "idle" /\ q \in Enqueuing
  BY DEF Backfill, Waiting, IInv, RequestsFit, Asked
<1>2. CASE Answer(q, 409, NoRow) /\ UNCHANGED records
  BY <1>1, <1>2, IsAnswered DEF Status, tables
<1>3. ASSUME NEW r \in RunsOfKey(q), records' = Recorded(q, r), Goto(q, "fetch")
      PROVE  IInv'
  <2>1. r \in Requests
    BY DEF RunsOfKey, Requests
  <2>2. records' \in [Entries -> Record \cup {NoRow}]
    BY <1>1, <1>3, <2>1, RecordedType
  <2>3. timely' \in [Requests -> BOOLEAN]
    BY <1>1 DEF IInv, TypeOK
  <2>. QED
    BY <1>1, <1>3, <2>2, <2>3, GoesOn DEF Points
<1>. QED
  BY <1>2, <1>3 DEF Backfill

(* consumeGrant locks a grant nobody has spent.                            *)
LEMMA ConsumeGrantIInv == ASSUME IInv, NEW q \in Requests, ConsumeGrant(q) PROVE IInv'
<1>1. /\ pc[q] = "consume" /\ UNCHANGED <<ask, timely>> /\ Waiting(q)
      /\ q \in Enqueuing
  BY DEF ConsumeGrant, Waiting, IInv, RequestsFit, Asked
<1>2. CASE Abort(q, 400)
  BY <1>1, <1>2, Aborts
<1>3. CASE /\ ~grants[ask[q].body].consumed /\ Lock(q, GrantRow(ask[q].body))
           /\ Goto(q, "insert") /\ UNCHANGED <<tables, error>>
  <2>1. Asked(q)
    BY DEF IInv, RequestsFit
  <2>2. GrantRow(ask[q].body) \in Locks
    BY <1>1, <2>1 DEF Asked, GrantRow, Locks
  <2>. QED
    BY <1>1, <1>3, <2>2, TakesLock
<1>. QED
  BY <1>2, <1>3 DEF ConsumeGrant

(* insertRun takes a client key nobody has.                                *)
LEMMA InsertRunIInv == ASSUME IInv, NEW q \in Requests, InsertRun(q) PROVE IInv'
<1>1. /\ pc[q] = "insert" /\ UNCHANGED <<ask, timely>> /\ Waiting(q)
  BY DEF InsertRun, Waiting
<1>2. CASE Abort(q, 409)
  BY <1>1, <1>2, Aborts
<1>3. CASE /\ Lock(q, RunKey(q)) /\ Goto(q, "record")
           /\ UNCHANGED <<tables, error>>
  <2>1. Asked(q)
    BY DEF IInv, RequestsFit
  <2>2. RunKey(q) \in Locks
    BY <1>1, <2>1 DEF Asked, RunKey, Locks
  <2>. QED
    BY <1>1, <1>3, <2>2, TakesLock
<1>. QED
  BY <1>2, <1>3 DEF InsertRun

(* After an error the run of the key is looked for again.                  *)
LEMMA RereadRunIInv == ASSUME IInv, NEW q \in Requests, RereadRun(q) PROVE IInv'
<1>1. /\ pc[q] = "reread" /\ UNCHANGED <<tables, ask, held, timely, error>>
      /\ Waiting(q) /\ pc[q] # "idle" /\ q \in Enqueuing
  BY DEF RereadRun, Waiting
<1>2. /\ records' \in [Entries -> Record \cup {NoRow}]
      /\ timely' \in [Requests -> BOOLEAN]
      /\ error[q] \in Status
  BY <1>1 DEF IInv, TypeOK, tables, Status
<1>3. CASE Goto(q, "fetch")
  BY <1>1, <1>2, <1>3, GoesOn DEF Points, tables
<1>4. CASE Answer(q, error[q], NoRow)
  BY <1>1, <1>2, <1>4, IsAnswered
<1>. QED
  BY <1>3, <1>4 DEF RereadRun

(* The answer of an enqueue is a recorded one.                             *)
LEMMA FetchRecordIInv == ASSUME IInv, NEW q \in Requests, FetchRecord(q) PROVE IInv'
<1>1. /\ pc[q] = "fetch" /\ UNCHANGED <<tables, ask, held, timely, error>>
      /\ pc[q] # "idle"
  BY DEF FetchRecord
<1>2. CASE records[Entry(q)] # NoRow /\ Answer(q, 201, records[Entry(q)].id)
  BY <1>1, <1>2, RowFound, IsAnswered DEF Status
<1>3. CASE Answer(q, 500, NoRow)
  BY <1>1, <1>3, IsAnswered DEF Status
<1>. QED
  BY <1>2, <1>3 DEF FetchRecord

(* The three ways a transaction ends: COMMIT with or without its result,   *)
(* and the failure of a statement, of the process or of the connection.    *)
LEMMA EndsIInv ==
  ASSUME IInv, NEW q \in Requests,
         IssueGrant(q) \/ StartRun(q) \/ Fail(q) \/ LoseAcknowledgement(q)
  PROVE  IInv'
<1>1. \A status \in Status : \A id \in Requests \cup {NoRow} :
        Answer(q, status, id) =>
          /\ pc' = [pc EXCEPT ![q] = "done"]
          /\ reply' \in [Requests -> [status : Status, id : Requests \cup {NoRow}]]
  BY DEF Answer, IInv, TypeOK
<1>2. CASE IssueGrant(q)
  BY <1>2, CommitsGrant DEF IssueGrant, Status
<1>3. CASE StartRun(q)
  <2>1. /\ CommitRun(q) /\ pc' = [pc EXCEPT ![q] = "fetch"]
        /\ reply' \in [Requests -> [status : Status, id : Requests \cup {NoRow}]]
    BY <1>3 DEF StartRun, Goto, IInv, TypeOK
  <2>. QED
    BY <2>1, CommitsRun
<1>4. CASE Fail(q)
  BY <1>4, IsRefused DEF Fail, Status
<1>5. CASE CommitGrant(q) /\ Answer(q, 500, NoRow)
  BY <1>5, CommitsGrant DEF Status
<1>6. CASE CommitRun(q) /\ Answer(q, 500, NoRow)
  <2>1. 500 \in Status
    BY DEF Status
  <2>2. /\ pc' = [pc EXCEPT ![q] = "done"]
        /\ reply' \in [Requests -> [status : Status, id : Requests \cup {NoRow}]]
    BY <1>1, <1>6, <2>1
  <2>. QED
    BY <1>6, <2>2, CommitsRun
<1>. QED
  BY <1>2, <1>3, <1>4, <1>5, <1>6 DEF LoseAcknowledgement

(* Every step keeps the invariant.                                         *)
LEMMA NextIInv == ASSUME IInv, [Next]_vars PROVE IInv'
<1>1. ASSUME NEW q \in Requests, Step(q) PROVE IInv'
  BY <1>1, LookUpIInv, CheckIInv, BeginIInv, PutRecordIInv, InsertGrantIInv,
     RereadRecordIInv, FindRunIInv, BackfillIInv, ConsumeGrantIInv, InsertRunIInv,
     RereadRunIInv, FetchRecordIInv, EndsIInv DEF Step
<1>2. ASSUME NEW q \in Requests, Receive(q) PROVE IInv'
  BY <1>2, Arrives
<1>3. ASSUME NEW q \in Requests, Fail(q) \/ LoseAcknowledgement(q) PROVE IInv'
  BY <1>3, EndsIInv
<1>4. ASSUME NEW g \in Authorising, Expire(g) PROVE IInv'
  BY <1>4, Expires
<1>5. CASE UNCHANGED vars
  BY <1>5 DEF IInv, TypeOK, LocksAreExclusive, RequestsFit, SpentMeansOneRun, RunsOf,
     Asked, GrantIsThere, GrantIsHeld, WritesLast, vars, tables
<1>. QED
  BY <1>1, <1>2, <1>3, <1>4, <1>5 DEF Next

(* The inductive invariant holds: whoever has consumed a grant and not yet *)
(* committed holds its row lock, so the grant is unspent in the tables and *)
(* no other transaction can spend it.                                      *)
THEOREM GrantsInvariant == Spec => []IInv
<1>. QED
  BY InitIInv, NextIInv, PTL DEF Spec

(* The types of the tables, the requests and their answers.                *)
THEOREM TypeCorrect == Spec => []TypeOK
<1>1. IInv => TypeOK
  BY DEF IInv
<1>. QED
  BY <1>1, GrantsInvariant, PTL

(* However enqueue requests interleave, fail or lose their COMMIT, a grant *)
(* is consumed exactly when one run was made of it: consumeGrant and       *)
(* insertRun are one transaction.                                          *)
THEOREM SpentOnce == Spec => []SpentMeansOneRun
<1>1. IInv => SpentMeansOneRun
  BY DEF IInv
<1>. QED
  BY <1>1, GrantsInvariant, PTL
----------------------------------------------------------------------------
(* What the answers rest on: which locks each request holds, and that the  *)
(* records tell of exactly the rows that exist.                            *)

\* The locks a request has taken, statement by statement.
Acquired(q) ==
  LET at(points, lock) == IF pc[q] \in points THEN {lock} ELSE {}
  IN  IF q \in Authorising
        THEN at({"record", "commit"}, GrantKey(q))
               \cup at({"commit"}, RecordEntry(q))
        ELSE at({"insert", "record", "commit"}, GrantRow(ask[q].body))
               \cup at({"record", "commit"}, RunKey(q))
               \cup at({"commit"}, RecordEntry(q))

GrantsRecorded ==
  \A g \in Authorising : grants[g] # NoRow =>
    records[<<grants[g].actor, "authorisations", grants[g].key>>]
      = [body |-> grants[g].body, id |-> g]

RunsRecorded ==
  \A r \in Enqueuing : runs[r] # NoRow =>
    /\ grants[runs[r].grant] # NoRow
    /\ grants[runs[r].grant].actor = runs[r].actor
    /\ records[<<runs[r].actor, "runs", runs[r].key>>]
         = [body |-> runs[r].grant, id |-> r]

NamesGrant(a, k, row) ==
  /\ row.id \in Authorising /\ grants[row.id] # NoRow
  /\ grants[row.id].actor = a /\ grants[row.id].key = k
  /\ grants[row.id].body = row.body

NamesRun(a, k, row) ==
  /\ row.id \in Enqueuing /\ runs[row.id] # NoRow
  /\ runs[row.id].actor = a /\ runs[row.id].key = k
  /\ runs[row.id].grant = row.body

RecordsTrue ==
  \A a \in Actors, k \in Keys :
    /\ records[<<a, "authorisations", k>>] # NoRow =>
         NamesGrant(a, k, records[<<a, "authorisations", k>>])
    /\ records[<<a, "runs", k>>] # NoRow =>
         NamesRun(a, k, records[<<a, "runs", k>>])

\* From findRun on the grant of an enqueue is of its own actor.
OwnsGrant(q) ==
  q \in Enqueuing /\ pc[q] \notin {"idle", "lookup", "check", "done"}
    => Owns(q, ask[q].body)

\* From its INSERT to its COMMIT nobody else takes the client key.
KeyIsFree(q) ==
  pc[q] \in {"record", "commit"} =>
    /\ q \in Authorising => ~KeyTaken(q)
    /\ q \in Enqueuing => RunsOfKey(q) = {}

LateIsExpired(q) ==
  pc[q] = "consume" /\ ~timely[q] => grants[ask[q].body].expired

FoundRun(q) ==
  pc[q] = "backfill" => \E r \in RunsOfKey(q) : SameRun(q, r)

FetchesAnswer(q) ==
  pc[q] = "fetch" =>
    records[Entry(q)] # NoRow /\ SameRequest(q, records[Entry(q)])

\* What made a statement fail is still so when the catch block looks again.
LostRace(q) ==
  pc[q] = "reread" =>
    /\ q \in Authorising => KeyTaken(q)
    /\ q \in Enqueuing /\ error[q] = 409 => RunsOfKey(q) # {}
    /\ q \in Enqueuing /\ error[q] = 400 =>
         grants[ask[q].body].expired \/ grants[ask[q].body].consumed

IsAnsweredWell(q) ==
  reply[q].status # 0 =>
    /\ pc[q] = "done"
    /\ reply[q].status = 201 =>
         /\ records[Entry(q)] # NoRow
         /\ records[Entry(q)] = [body |-> ask[q].body, id |-> reply[q].id]
    /\ ConflictHasACause(q)
    /\ RefusedGrantWasGone(q)
    /\ reply[q].status = 400 /\ q \in Enqueuing => grants[ask[q].body] # NoRow

Settled(q) ==
  /\ held[q] = Acquired(q)
  /\ OwnsGrant(q) /\ KeyIsFree(q) /\ LateIsExpired(q) /\ FoundRun(q)
  /\ FetchesAnswer(q) /\ LostRace(q) /\ IsAnsweredWell(q)

TablesAgree == GrantsRecorded /\ RunsRecorded /\ RecordsTrue

AnswersInv == TablesAgree /\ \A q \in Requests : Settled(q)

JInv == IInv /\ AnswersInv

\* Rows are added and never deleted; of a row only the flags of a grant
\* change, and only once.
Grows ==
  /\ \A g \in Authorising : grants[g] # NoRow =>
       /\ grants'[g] # NoRow
       /\ grants'[g].actor = grants[g].actor /\ grants'[g].key = grants[g].key
       /\ grants'[g].body = grants[g].body
       /\ grants[g].consumed => grants'[g].consumed
       /\ grants[g].expired => grants'[g].expired
  /\ \A r \in Enqueuing : runs[r] # NoRow => runs'[r] = runs[r]
  /\ \A entry \in Entries : records[entry] # NoRow => records'[entry] = records[entry]

\* Only q moves.
Alone(q) ==
  \A p \in Requests \ {q} :
    /\ pc'[p] = pc[p] /\ ask'[p] = ask[p] /\ held'[p] = held[p]
    /\ timely'[p] = timely[p] /\ error'[p] = error[p] /\ reply'[p] = reply[p]

(* Whatever q does, the other requests stay where they are.                *)
LEMMA OneMoves ==
  ASSUME TypeOK, NEW q \in Requests,
         Receive(q) \/ Step(q) \/ Fail(q) \/ LoseAcknowledgement(q)
  PROVE  Alone(q)
<1> DEFINE At == \A p \in Requests \ {q} : pc'[p] = pc[p] /\ reply'[p] = reply[p]
           Holds == \A p \in Requests \ {q} : held'[p] = held[p]
<1>1. ASSUME NEW point, Goto(q, point) PROVE At
  BY <1>1 DEF TypeOK, Goto
<1>2. ASSUME NEW status, NEW id, Answer(q, status, id) PROVE At
  BY <1>2 DEF TypeOK, Answer
<1>3. ASSUME NEW lock, Lock(q, lock) PROVE Holds
  BY <1>3 DEF TypeOK, Lock
<1>4. ASSUME EndTransaction(q) PROVE Holds
  BY <1>4 DEF TypeOK, EndTransaction
<1>5. ASSUME NEW status, Abort(q, status) PROVE At /\ Holds
  BY <1>1, <1>4, <1>5 DEF Abort, Rollback
<1>6. ASSUME UNCHANGED held PROVE Holds
  BY <1>6
<1>. HIDE DEF At, Holds
<1>7. At
  BY <1>1, <1>2, <1>5 DEF Receive, Step, Fail, LoseAcknowledgement, LookUp, Check,
     Begin, PutRecord, InsertGrant, IssueGrant, RereadRecord, FindRun, Backfill,
     ConsumeGrant, InsertRun, StartRun, RereadRun, FetchRecord
<1>8. Holds
  BY <1>3, <1>4, <1>5, <1>6 DEF Receive, Step, Fail, LoseAcknowledgement, LookUp,
     Check, Begin, PutRecord, InsertGrant, IssueGrant, RereadRecord, FindRun, Backfill,
     ConsumeGrant, InsertRun, StartRun, RereadRun, FetchRecord, Rollback, CommitGrant,
     CommitRun
<1>9. \A p \in Requests \ {q} : ask'[p] = ask[p]
  <2>1. CASE Receive(q)
    BY <2>1 DEF Receive, TypeOK
  <2>2. CASE UNCHANGED ask
    BY <2>2
  <2>. QED
    BY <2>1, <2>2 DEF Step, Fail, LoseAcknowledgement, LookUp, Check,
       Begin, PutRecord, InsertGrant, IssueGrant, RereadRecord, FindRun, Backfill,
       ConsumeGrant, InsertRun, StartRun, RereadRun, FetchRecord, CommitGrant, CommitRun
<1>10. \A p \in Requests \ {q} : timely'[p] = timely[p]
  <2>1. CASE Begin(q)
    BY <2>1 DEF Begin, TypeOK
  <2>2. CASE UNCHANGED timely
    BY <2>2
  <2>. QED
    BY <2>1, <2>2 DEF Receive, Step, Fail, LoseAcknowledgement, LookUp, Check,
       PutRecord, InsertGrant, IssueGrant, RereadRecord, FindRun, Backfill,
       ConsumeGrant, InsertRun, StartRun, RereadRun, FetchRecord, CommitGrant, CommitRun
<1>11. \A p \in Requests \ {q} : error'[p] = error[p]
  <2>1. ASSUME NEW status, Abort(q, status)
        PROVE  \A p \in Requests \ {q} : error'[p] = error[p]
    BY <2>1 DEF Abort, TypeOK
  <2>2. CASE UNCHANGED error
    BY <2>2
  <2>. QED
    BY <2>1, <2>2 DEF Receive, Step, Fail, LoseAcknowledgement, LookUp, Check, Begin,
       PutRecord, InsertGrant, IssueGrant, RereadRecord, FindRun, Backfill,
       ConsumeGrant, InsertRun, StartRun, RereadRun, FetchRecord, CommitGrant, CommitRun
<1>. QED
  BY <1>7, <1>8, <1>9, <1>10, <1>11 DEF Alone, At, Holds

(* What holds of a request that does not move is not lost when the tables  *)
(* grow; that its key stays free is left to those who write a row.         *)
LEMMA Stays ==
  ASSUME JInv, IInv', Grows, NEW p \in Requests,
         pc'[p] = pc[p], ask'[p] = ask[p], held'[p] = held[p],
         timely'[p] = timely[p], error'[p] = error[p], reply'[p] = reply[p],
         KeyIsFree(p)'
  PROVE  Settled(p)'
<1>1. Settled(p) /\ Asked(p) /\ GrantIsThere(p)
  BY DEF JInv, AnswersInv, IInv, RequestsFit
<1>2. pc[p] # "idle" => Entry(p) \in Entries
  BY <1>1, EntryType
<1>3. Entry(p)' = Entry(p)
  BY DEF Entry
<1>4. held'[p] = Acquired(p)'
  <2>1. Acquired(p)' = Acquired(p)
    BY <1>3 DEF Acquired, GrantKey, RecordEntry, GrantRow, RunKey
  <2>. QED
    BY <1>1, <2>1 DEF Settled
<1>5. p \in Enqueuing /\ pc[p] # "idle" => ask[p].body \in Authorising
  BY <1>1 DEF Asked
<1>6. OwnsGrant(p)' /\ LateIsExpired(p)'
  BY <1>1, <1>5 DEF Settled, OwnsGrant, Owns, LateIsExpired, Asked, GrantIsThere, Grows
<1>7. \A r \in RunsOfKey(p) : /\ r \in RunsOfKey(p)' /\ runs'[r] = runs[r]
                              /\ SameRun(p, r) <=> SameRun(p, r)'
  BY DEF RunsOfKey, SameRun, Grows
<1>8. FoundRun(p)'
  BY <1>1, <1>7 DEF Settled, FoundRun
<1>9. FetchesAnswer(p)'
  BY <1>1, <1>2, <1>3 DEF Settled, FetchesAnswer, SameRequest, Grows
<1>10. KeyTaken(p) => KeyTaken(p)'
  BY DEF KeyTaken, Grows
<1>11. LostRace(p)'
  <2>1. pc[p] = "reread" /\ p \in Enqueuing => grants[ask[p].body] # NoRow
    BY <1>1 DEF Settled, OwnsGrant, Owns
  <2>. QED
    BY <1>1, <1>5, <1>7, <1>10, <2>1 DEF Settled, LostRace, Grows
<1>12. IsAnsweredWell(p)'
  <2> SUFFICES ASSUME reply[p].status # 0 PROVE IsAnsweredWell(p)'
    BY DEF IsAnsweredWell
  <2>1. pc[p] = "done" /\ IsAnsweredWell(p)
    BY <1>1 DEF Settled, IsAnsweredWell
  <2>2. reply[p].status = 201 =>
          /\ records'[Entry(p)] # NoRow
          /\ records'[Entry(p)] = [body |-> ask[p].body, id |-> reply[p].id]
    BY <1>2, <2>1 DEF IsAnsweredWell, Grows
  <2>3. ConflictHasACause(p)'
    <3>1. \A g \in Authorising : grants[g] # NoRow =>
            /\ grants'[g] # NoRow /\ grants'[g].actor = grants[g].actor
            /\ grants'[g].key = grants[g].key /\ grants'[g].body = grants[g].body
      BY DEF Grows
    <3>. QED
      BY <1>7, <2>1, <3>1 DEF IsAnsweredWell, ConflictHasACause
  <2>4. RefusedGrantWasGone(p)'
    <3> SUFFICES ASSUME reply[p].status = 400, p \in Enqueuing
                 PROVE  RefusedGrantWasGone(p)'
      BY RequestsAssumption DEF RefusedGrantWasGone, Requests
    <3>1. PICK g \in Authorising : g = ask[p].body
      BY <1>5, <2>1
    <3>2. grants[g] # NoRow /\ RefusedGrantWasGone(p)
      BY <2>1, <3>1 DEF IsAnsweredWell
    <3>3. CASE grants[g].expired
      BY <3>1, <3>2, <3>3 DEF RefusedGrantWasGone, Grows
    <3>4. CASE grants[g].consumed /\ \A r \in RunsOf(g) : runs[r].key # ask[p].key
      <4>1. grants'[g] # NoRow /\ grants'[g].consumed
        BY <3>2, <3>4 DEF Grows
      <4>2. PICK r \in Enqueuing : RunsOf(g) = {r}
        BY <3>2, <3>4 DEF JInv, IInv, SpentMeansOneRun
      <4>3. PICK s \in Enqueuing : RunsOf(g)' = {s}
        BY <4>1 DEF IInv, SpentMeansOneRun
      <4>4. runs[r] # NoRow /\ runs[r].grant = g
        BY <4>2 DEF RunsOf
      <4>5. runs'[r] = runs[r]
        BY <4>4 DEF Grows
      <4>6. r \in RunsOf(g)'
        BY <4>4, <4>5 DEF RunsOf
      <4>7. \A x \in RunsOf(g)' : runs'[x].key # ask[p].key
        BY <3>4, <4>2, <4>3, <4>5, <4>6
      <4>. QED
        BY <3>1, <4>1, <4>7 DEF RefusedGrantWasGone
    <3>5. \/ grants[g].expired
          \/ grants[g].consumed /\ \A r \in RunsOf(g) : runs[r].key # ask[p].key
      BY <3>1, <3>2, RequestsAssumption DEF RefusedGrantWasGone
    <3>. QED
      BY <3>3, <3>4, <3>5
  <2>. QED
    BY <1>3, <1>5, <2>1, <2>2, <2>3, <2>4 DEF IsAnsweredWell, Grows
<1>. QED
  BY <1>4, <1>6, <1>8, <1>9, <1>11, <1>12 DEF Settled

\* The key already stands for something else.
KeyMeansOther(q) ==
  \/ /\ q \in Authorising
     /\ \E g \in Authorising :
          /\ grants[g] # NoRow /\ grants[g].key = ask[q].key
          /\ grants[g].actor # ask[q].actor \/ grants[g].body # ask[q].body
  \/ q \in Enqueuing /\ \E r \in RunsOfKey(q) : ~SameRun(q, r)

\* The grant of an enqueue has expired or went to a run of another key.
GrantIsGone(q) ==
  /\ grants[ask[q].body] # NoRow
  /\ \/ grants[ask[q].body].expired
     \/ /\ grants[ask[q].body].consumed
        /\ \A r \in RunsOf(ask[q].body) : runs[r].key # ask[q].key

\* What an answer needs to be given.
Justified(q, status, id) ==
  /\ status = 201 =>
       /\ records[Entry(q)] # NoRow
       /\ records[Entry(q)] = [body |-> ask[q].body, id |-> id]
  /\ status = 409 => KeyMeansOther(q)
  /\ status = 400 /\ q \in Enqueuing => GrantIsGone(q)

(* Nobody is answered before it is done, and no lock is held outside the   *)
(* statements between BEGIN and COMMIT.                                    *)
LEMMA NotYet ==
  ASSUME JInv, NEW q \in Requests
  PROVE  /\ pc[q] # "done" => reply[q].status = 0
         /\ pc[q] \notin {"insert", "record", "commit"} => held[q] = {}
<1>1. Settled(q)
  BY DEF JInv, AnswersInv
<1>2. pc[q] # "done" => reply[q].status = 0
  BY <1>1 DEF Settled, IsAnsweredWell
<1>3. pc[q] \notin {"insert", "record", "commit"} => held[q] = {}
  BY <1>1 DEF Settled, Acquired
<1>. QED
  BY <1>2, <1>3

(* A record found names the row it was written with.                       *)
LEMMA RecordFound ==
  ASSUME JInv, NEW q \in Requests, pc[q] # "idle", records[Entry(q)] # NoRow
  PROVE  /\ q \in Authorising =>
              NamesGrant(ask[q].actor, ask[q].key, records[Entry(q)])
         /\ q \in Enqueuing => NamesRun(ask[q].actor, ask[q].key, records[Entry(q)])
         /\ records[Entry(q)].id \in Requests
         /\ SameRequest(q, records[Entry(q)]) =>
              records[Entry(q)] = [body |-> ask[q].body, id |-> records[Entry(q)].id]
<1>1. Asked(q)
  BY DEF JInv, IInv, RequestsFit
<1>2. Entry(q) \in Entries
  BY <1>1, EntryType
<1>3. PICK row \in Record : row = records[Entry(q)]
  BY <1>2 DEF JInv, IInv, TypeOK
<1>4. row.id \in Requests /\ row = [body |-> row.body, id |-> row.id]
  BY DEF Record
<1>5. ask[q].actor \in Actors /\ ask[q].key \in Keys
  BY <1>1 DEF Asked
<1>6. q \in Authorising =>
        NamesGrant(ask[q].actor, ask[q].key, records[Entry(q)])
  BY <1>5 DEF JInv, AnswersInv, TablesAgree, RecordsTrue, Entry
<1>7. q \in Enqueuing => NamesRun(ask[q].actor, ask[q].key, records[Entry(q)])
  BY <1>5, RequestsAssumption DEF JInv, AnswersInv, TablesAgree, RecordsTrue, Entry
<1>8. SameRequest(q, records[Entry(q)]) =>
        records[Entry(q)] = [body |-> ask[q].body, id |-> records[Entry(q)].id]
  BY <1>3, <1>4 DEF SameRequest
<1>. QED
  BY <1>3, <1>4, <1>6, <1>7, <1>8

(* A record of something else is a key that means something else.          *)
LEMMA OtherRecord ==
  ASSUME JInv, NEW q \in Requests, pc[q] # "idle", records[Entry(q)] # NoRow,
         ~SameRequest(q, records[Entry(q)])
  PROVE  KeyMeansOther(q)
<1>1. CASE q \in Authorising
  <2>1. NamesGrant(ask[q].actor, ask[q].key, records[Entry(q)])
    BY <1>1, RecordFound
  <2>. QED
    BY <1>1, <2>1 DEF NamesGrant, SameRequest, KeyMeansOther
<1>2. CASE q \in Enqueuing
  <2>1. NamesRun(ask[q].actor, ask[q].key, records[Entry(q)])
    BY <1>2, RecordFound
  <2>. QED
    BY <1>2, <2>1 DEF NamesRun, SameRequest, KeyMeansOther, RunsOfKey, SameRun
<1>. QED
  BY <1>1, <1>2 DEF Requests

(* A run that was made of the same request has left its answer.            *)
LEMMA RunAnswered ==
  ASSUME JInv, NEW q \in Requests, q \in Enqueuing, Owns(q, ask[q].body),
         NEW r \in RunsOfKey(q), SameRun(q, r)
  PROVE  /\ records[Entry(q)] = [body |-> ask[q].body, id |-> r]
         /\ pc[q] # "idle" => records[Entry(q)] # NoRow
         /\ SameRequest(q, records[Entry(q)])
<1>1. r \in Enqueuing /\ runs[r] # NoRow /\ runs[r].key = ask[q].key
      /\ runs[r].grant = ask[q].body
  BY DEF RunsOfKey, SameRun
<1>2. runs[r].actor = ask[q].actor
  BY <1>1 DEF JInv, AnswersInv, TablesAgree, RunsRecorded, Owns
<1>3. records[Entry(q)] = [body |-> ask[q].body, id |-> r]
  BY <1>1, <1>2, RequestsAssumption
  DEF JInv, AnswersInv, TablesAgree, RunsRecorded, Entry
<1>4. pc[q] # "idle" => [body |-> ask[q].body, id |-> r] \in Record
  BY <1>1 DEF JInv, IInv, RequestsFit, Asked, Record, Requests
<1>5. SameRequest(q, records[Entry(q)])
  BY <1>3 DEF SameRequest
<1>. QED
  BY <1>3, <1>4, <1>5, RowsAssumption

(* A request that changes no table moves on.                               *)
LEMMA MovesOn ==
  ASSUME JInv, IInv', NEW q \in Requests, UNCHANGED tables, Alone(q), Settled(q)'
  PROVE  JInv'
<1>1. TablesAgree'
  BY DEF JInv, AnswersInv, TablesAgree, GrantsRecorded, RunsRecorded, RecordsTrue,
     NamesGrant, NamesRun, tables
<1>2. Grows
  BY DEF Grows, tables
<1>3. ASSUME NEW p \in Requests, p # q PROVE Settled(p)'
  <2>1. /\ pc'[p] = pc[p] /\ ask'[p] = ask[p] /\ held'[p] = held[p]
        /\ timely'[p] = timely[p] /\ error'[p] = error[p] /\ reply'[p] = reply[p]
    BY <1>3 DEF Alone
  <2>2. KeyIsFree(p)'
    BY <2>1 DEF JInv, AnswersInv, Settled, KeyIsFree, KeyTaken, RunsOfKey, tables
  <2>. QED
    BY <1>2, <2>1, <2>2, Stays
<1>. QED
  BY <1>1, <1>3 DEF JInv, AnswersInv

(* A request goes to its next statement; it is not answered yet.           *)
LEMMA GoesTo ==
  ASSUME JInv, NEW q \in Requests, pc[q] # "done", UNCHANGED reply,
         held'[q] = Acquired(q)', OwnsGrant(q)', KeyIsFree(q)', LateIsExpired(q)',
         FoundRun(q)', FetchesAnswer(q)', LostRace(q)'
  PROVE  Settled(q)'
<1>1. reply'[q].status = 0
  BY NotYet
<1>. QED
  BY <1>1 DEF Settled, IsAnsweredWell

(* A request is answered, with a reason.                                   *)
LEMMA AnswersTo ==
  ASSUME JInv, NEW q \in Requests, UNCHANGED <<tables, ask>>, held'[q] = {},
         NEW status, NEW id, Answer(q, status, id), Justified(q, status, id)
  PROVE  Settled(q)'
<1>1. pc'[q] = "done" /\ reply'[q] = [status |-> status, id |-> id]
  BY DEF Answer, JInv, IInv, TypeOK
<1>2. held'[q] = Acquired(q)'
  BY <1>1 DEF Acquired
<1>3. /\ OwnsGrant(q)' /\ KeyIsFree(q)' /\ LateIsExpired(q)' /\ FoundRun(q)'
      /\ FetchesAnswer(q)' /\ LostRace(q)'
  BY <1>1 DEF OwnsGrant, KeyIsFree, LateIsExpired, FoundRun, FetchesAnswer, LostRace
<1>4. Entry(q)' = Entry(q)
  BY DEF Entry
<1>5. ConflictHasACause(q)'
  BY <1>1 DEF Justified, ConflictHasACause, KeyMeansOther, RunsOfKey, SameRun, tables
<1>6. RefusedGrantWasGone(q)'
  BY <1>1 DEF Justified, RefusedGrantWasGone, GrantIsGone, RunsOf, tables, Requests
<1>7. IsAnsweredWell(q)'
  BY <1>1, <1>4, <1>5, <1>6 DEF Justified, IsAnsweredWell, GrantIsGone, tables
<1>. QED
  BY <1>2, <1>3, <1>7 DEF Settled

(* Where a request is after the parts its actions are made of.             *)
LEMMA Parts ==
  ASSUME TypeOK, NEW q \in Requests
  PROVE  /\ \A point : Goto(q, point) => pc'[q] = point /\ UNCHANGED reply
         /\ \A lock : Lock(q, lock) => held'[q] = held[q] \cup {lock}
         /\ Rollback(q) => UNCHANGED tables /\ held'[q] = {}
         /\ \A status : Abort(q, status) =>
              /\ UNCHANGED tables /\ held'[q] = {} /\ UNCHANGED reply
              /\ pc'[q] = "reread" /\ error'[q] = status
<1>1. \A point : Goto(q, point) => pc'[q] = point /\ UNCHANGED reply
  BY DEF Goto, TypeOK
<1>2. \A lock : Lock(q, lock) => held'[q] = held[q] \cup {lock}
  BY DEF Lock, TypeOK
<1>3. Rollback(q) => UNCHANGED tables /\ held'[q] = {}
  BY DEF Rollback, RolledBack, EndTransaction, TypeOK, tables
<1>4. ASSUME NEW status, Abort(q, status)
      PROVE  error'[q] = status
  BY <1>4 DEF Abort, TypeOK
<1>5. ASSUME NEW status, Abort(q, status)
      PROVE  /\ UNCHANGED tables /\ held'[q] = {} /\ UNCHANGED reply
             /\ pc'[q] = "reread"
  BY <1>1, <1>3, <1>5 DEF Abort
<1>. QED
  BY <1>1, <1>2, <1>3, <1>4, <1>5


(* Outside a transaction only a few statements leave something behind.     *)
LEMMA Wanders ==
  ASSUME JInv, NEW q \in Requests, pc[q] \notin {"insert", "record", "commit", "done"},
         NEW point \in {"lookup", "check", "find", "begin", "backfill", "consume",
                        "fetch"},
         Goto(q, point), UNCHANGED held,
         q \in Enqueuing /\ point \notin {"lookup", "check"} => Owns(q, ask[q].body)',
         LateIsExpired(q)', FoundRun(q)', FetchesAnswer(q)'
  PROVE  Settled(q)'
<1>1. pc'[q] = point /\ UNCHANGED reply /\ held[q] = {}
  BY Parts, NotYet DEF JInv, IInv
<1>2. held'[q] = Acquired(q)'
  BY <1>1 DEF Acquired
<1>3. OwnsGrant(q)' /\ KeyIsFree(q)' /\ LostRace(q)'
  BY <1>1 DEF OwnsGrant, KeyIsFree, LostRace
<1>. QED
  BY <1>1, <1>2, <1>3, GoesTo

(* A request that has just arrived has nothing to show.                    *)
LEMMA ReceiveSettles ==
  ASSUME JInv, NEW q \in Requests, Receive(q) PROVE Settled(q)'
<1>1. pc[q] = "idle" /\ Goto(q, "lookup") /\ UNCHANGED held
  BY DEF Receive
<1>2. pc'[q] = "lookup"
  BY <1>1, Parts DEF JInv, IInv
<1>3. LateIsExpired(q)' /\ FoundRun(q)' /\ FetchesAnswer(q)'
  BY <1>2 DEF LateIsExpired, FoundRun, FetchesAnswer
<1>. QED
  BY <1>1, <1>3, Wanders

(* A recorded answer is given again, or the key means something else.      *)
LEMMA LookUpSettles ==
  ASSUME JInv, NEW q \in Requests, LookUp(q) PROVE Settled(q)'
<1>1. pc[q] = "lookup" /\ UNCHANGED <<tables, ask, held, timely, error>>
  BY DEF LookUp
<1>2. held'[q] = {} /\ pc[q] # "idle"
  BY <1>1, NotYet
<1>3. CASE Goto(q, "check")
  <2>1. pc'[q] = "check"
    BY <1>3, Parts DEF JInv, IInv
  <2>2. LateIsExpired(q)' /\ FoundRun(q)' /\ FetchesAnswer(q)'
    BY <2>1 DEF LateIsExpired, FoundRun, FetchesAnswer
  <2>. QED
    BY <1>1, <1>3, <2>2, Wanders
<1>4. CASE /\ records[Entry(q)] # NoRow /\ SameRequest(q, records[Entry(q)])
           /\ Answer(q, 201, records[Entry(q)].id)
  <2>1. Justified(q, 201, records[Entry(q)].id)
    BY <1>2, <1>4, RecordFound DEF Justified
  <2>. QED
    BY <1>1, <1>2, <1>4, <2>1, AnswersTo
<1>5. CASE /\ records[Entry(q)] # NoRow /\ ~SameRequest(q, records[Entry(q)])
           /\ Answer(q, 409, NoRow)
  <2>1. Justified(q, 409, NoRow)
    BY <1>2, <1>5, OtherRecord DEF Justified
  <2>. QED
    BY <1>1, <1>2, <1>5, <2>1, AnswersTo
<1>. QED
  BY <1>3, <1>4, <1>5 DEF LookUp

(* Only an actor's own grant is let through.                               *)
LEMMA CheckSettles ==
  ASSUME JInv, NEW q \in Requests, Check(q) PROVE Settled(q)'
<1>1. pc[q] = "check" /\ UNCHANGED <<tables, ask, held, timely, error>>
  BY DEF Check
<1>2. held'[q] = {} /\ pc[q] # "idle"
  BY <1>1, NotYet
<1>3. ASSUME NEW point \in {"begin", "find"}, Goto(q, point),
             q \in Enqueuing => Owns(q, ask[q].body)
      PROVE  Settled(q)'
  <2>1. pc'[q] = point
    BY <1>3, Parts DEF JInv, IInv
  <2>2. LateIsExpired(q)' /\ FoundRun(q)' /\ FetchesAnswer(q)'
    BY <2>1 DEF LateIsExpired, FoundRun, FetchesAnswer
  <2>3. q \in Enqueuing => Owns(q, ask[q].body)'
    BY <1>1, <1>3 DEF Owns, tables
  <2>. QED
    BY <1>1, <1>3, <2>2, <2>3, Wanders
<1>4. CASE q \in Authorising /\ Goto(q, "begin")
  BY <1>3, <1>4, RequestsAssumption
<1>5. ASSUME q \in Authorising, NEW status \in Outcomes[ask[q].body],
             status # 201, Answer(q, status, NoRow)
      PROVE  Settled(q)'
  <2>1. status \in {400, 404} /\ q \notin Enqueuing
    BY <1>1, <1>5, OutcomesAssumption, RequestsAssumption
    DEF JInv, IInv, RequestsFit, Asked
  <2>2. Justified(q, status, NoRow)
    BY <2>1 DEF Justified
  <2>. QED
    BY <1>1, <1>2, <1>5, <2>2, AnswersTo
<1>6. CASE q \in Enqueuing /\ Owns(q, ask[q].body) /\ Goto(q, "find")
  BY <1>3, <1>6
<1>7. CASE Answer(q, 404, NoRow)
  <2>1. Justified(q, 404, NoRow)
    BY DEF Justified
  <2>. QED
    BY <1>1, <1>2, <1>7, <2>1, AnswersTo
<1>. QED
  BY <1>4, <1>5, <1>6, <1>7 DEF Check

(* now() of the transaction tells whether the grant can still be consumed. *)
LEMMA BeginSettles ==
  ASSUME JInv, NEW q \in Requests, Begin(q) PROVE Settled(q)'
<1>1. pc[q] = "begin" /\ UNCHANGED <<tables, ask, held, error>>
  BY DEF Begin
<1>2. OwnsGrant(q) /\ held[q] = {}
  BY <1>1, NotYet DEF JInv, AnswersInv, Settled
<1>3. CASE q \in Authorising /\ Goto(q, "insert")
  <2>1. pc'[q] = "insert" /\ UNCHANGED reply /\ q \notin Enqueuing
    BY <1>3, Parts, RequestsAssumption DEF JInv, IInv
  <2>2. held'[q] = Acquired(q)'
    BY <1>1, <1>2, <1>3, <2>1 DEF Acquired
  <2>3. /\ OwnsGrant(q)' /\ KeyIsFree(q)' /\ LateIsExpired(q)' /\ FoundRun(q)'
        /\ FetchesAnswer(q)' /\ LostRace(q)'
    BY <2>1 DEF OwnsGrant, KeyIsFree, LateIsExpired, FoundRun, FetchesAnswer, LostRace
  <2>. QED
    BY <1>1, <2>1, <2>2, <2>3, GoesTo
<1>4. CASE /\ q \in Enqueuing /\ Goto(q, "consume")
           /\ timely' = [timely EXCEPT ![q] = ~grants[ask[q].body].expired]
  <2>1. pc'[q] = "consume"
    BY <1>4, Parts DEF JInv, IInv
  <2>2. timely'[q] = ~grants[ask[q].body].expired
    BY <1>4 DEF JInv, IInv, TypeOK
  <2>3. LateIsExpired(q)'
    BY <1>1, <2>2 DEF LateIsExpired, tables
  <2>4. FoundRun(q)' /\ FetchesAnswer(q)'
    BY <2>1 DEF FoundRun, FetchesAnswer
  <2>5. Owns(q, ask[q].body)'
    BY <1>1, <1>2, <1>4 DEF OwnsGrant, Owns, tables
  <2>. QED
    BY <1>1, <1>4, <2>3, <2>4, <2>5, Wanders
<1>. QED
  BY <1>3, <1>4 DEF Begin

(* A statement inside a transaction takes its lock and goes on.            *)
LEMMA LocksOn ==
  ASSUME JInv, NEW q \in Requests, pc[q] \notin {"idle", "done"}, NEW lock, NEW point,
         Lock(q, lock), Goto(q, point),
         UNCHANGED <<tables, ask, timely, error>>,
         \/ pc[q] = "record" /\ point = "commit" /\ lock = RecordEntry(q)
         \/ /\ pc[q] = "insert" /\ point = "record"
            /\ \/ q \in Authorising /\ lock = GrantKey(q) /\ ~KeyTaken(q)
               \/ q \in Enqueuing /\ lock = RunKey(q) /\ RunsOfKey(q) = {}
         \/ /\ pc[q] = "consume" /\ point = "insert" /\ q \in Enqueuing
            /\ lock = GrantRow(ask[q].body)
  PROVE  Settled(q)'
<1>1. /\ pc'[q] = point /\ UNCHANGED reply /\ held'[q] = held[q] \cup {lock}
      /\ point \in {"insert", "record", "commit"}
  BY Parts DEF JInv, IInv
<1>2. held[q] = Acquired(q) /\ OwnsGrant(q) /\ KeyIsFree(q)
  BY DEF JInv, AnswersInv, Settled
<1>3. held'[q] = Acquired(q)'
  <2>1. /\ RecordEntry(q)' = RecordEntry(q) /\ GrantKey(q)' = GrantKey(q)
        /\ RunKey(q)' = RunKey(q)
    BY DEF RecordEntry, Entry, GrantKey, RunKey
  <2>2. GrantRow(ask[q].body)' = GrantRow(ask[q].body)
    BY DEF GrantRow
  <2>. QED
    BY <1>1, <1>2, <2>1, <2>2, RequestsAssumption DEF Acquired, Requests
<1>4. OwnsGrant(q)'
  BY <1>1, <1>2 DEF OwnsGrant, Owns, tables
<1>5. KeyIsFree(q)'
  BY <1>1, <1>2, RequestsAssumption DEF KeyIsFree, KeyTaken, RunsOfKey, tables
<1>6. LateIsExpired(q)' /\ FoundRun(q)' /\ FetchesAnswer(q)' /\ LostRace(q)'
  BY <1>1 DEF LateIsExpired, FoundRun, FetchesAnswer, LostRace
<1>. QED
  BY <1>1, <1>3, <1>4, <1>5, <1>6, GoesTo

(* An error of a statement takes the request to the catch block.           *)
LEMMA AbortSettles ==
  ASSUME JInv, NEW q \in Requests, pc[q] \in {"consume", "insert"},
         NEW status, Abort(q, status), UNCHANGED <<ask, timely>>,
         q \in Authorising => KeyTaken(q),
         q \in Enqueuing /\ status = 409 => RunsOfKey(q) # {},
         q \in Enqueuing /\ status = 400 =>
           grants[ask[q].body].expired \/ grants[ask[q].body].consumed
  PROVE  Settled(q)'
<1>1. /\ UNCHANGED tables /\ held'[q] = {} /\ UNCHANGED reply
      /\ pc'[q] = "reread" /\ error'[q] = status
  BY Parts DEF JInv, IInv
<1>2. OwnsGrant(q)
  BY DEF JInv, AnswersInv, Settled
<1>3. held'[q] = Acquired(q)'
  BY <1>1 DEF Acquired
<1>4. OwnsGrant(q)'
  BY <1>1, <1>2 DEF OwnsGrant, Owns, tables
<1>5. LostRace(q)'
  BY <1>1 DEF LostRace, KeyTaken, RunsOfKey, tables
<1>6. KeyIsFree(q)' /\ LateIsExpired(q)' /\ FoundRun(q)' /\ FetchesAnswer(q)'
  BY <1>1 DEF KeyIsFree, LateIsExpired, FoundRun, FetchesAnswer
<1>. QED
  BY <1>1, <1>3, <1>4, <1>5, <1>6, GoesTo

(* Under the lock on the client key there is no record yet.                *)
LEMMA NoRecordYet ==
  ASSUME JInv, NEW q \in Requests, pc[q] \in {"record", "commit"}
  PROVE  records[Entry(q)] = NoRow
<1> SUFFICES ASSUME records[Entry(q)] # NoRow PROVE FALSE
  OBVIOUS
<1>1. KeyIsFree(q)
  BY DEF JInv, AnswersInv, Settled
<1>2. CASE q \in Authorising
  <2>1. NamesGrant(ask[q].actor, ask[q].key, records[Entry(q)])
    BY <1>2, RecordFound
  <2>. QED
    BY <1>1, <1>2, <2>1 DEF NamesGrant, KeyIsFree, KeyTaken
<1>3. CASE q \in Enqueuing
  <2>1. NamesRun(ask[q].actor, ask[q].key, records[Entry(q)])
    BY <1>3, RecordFound
  <2>. QED
    BY <1>1, <1>3, <2>1 DEF NamesRun, KeyIsFree, RunsOfKey
<1>. QED
  BY <1>2, <1>3 DEF Requests

(* So putHttpIdempotency never finds the answer of another request.        *)
LEMMA PutRecordSettles ==
  ASSUME JInv, NEW q \in Requests, PutRecord(q) PROVE Settled(q)'
<1>1. pc[q] = "record" /\ UNCHANGED <<ask, timely>>
  BY DEF PutRecord
<1>2. ~Conflicts(q)
  BY <1>1, NoRecordYet DEF Conflicts
<1>3. Lock(q, RecordEntry(q)) /\ Goto(q, "commit") /\ UNCHANGED <<tables, error>>
  BY <1>2 DEF PutRecord
<1>. QED
  BY <1>1, <1>3, LocksOn

(* insertTimedGrant meets the client key, or makes it its own.             *)
LEMMA InsertGrantSettles ==
  ASSUME JInv, NEW q \in Requests, InsertGrant(q) PROVE Settled(q)'
<1>1. /\ pc[q] = "insert" /\ UNCHANGED <<ask, timely>>
      /\ q \in Authorising /\ q \notin Enqueuing
  BY RequestsAssumption DEF InsertGrant
<1>2. CASE KeyTaken(q) /\ Abort(q, 409)
  BY <1>1, <1>2, AbortSettles
<1>3. CASE /\ ~KeyTaken(q) /\ Lock(q, GrantKey(q)) /\ Goto(q, "record")
           /\ UNCHANGED <<tables, error>>
  BY <1>1, <1>3, LocksOn
<1>. QED
  BY <1>2, <1>3 DEF InsertGrant

(* A grant under the key that was not recorded for this request was issued *)
(* to another actor or for another body.                                   *)
LEMMA RereadRecordSettles ==
  ASSUME JInv, NEW q \in Requests, RereadRecord(q) PROVE Settled(q)'
<1>1. /\ pc[q] = "reread" /\ q \in Authorising
      /\ UNCHANGED <<tables, ask, held, timely, error>>
  BY DEF RereadRecord
<1>2. held'[q] = {} /\ pc[q] # "idle" /\ LostRace(q)
  BY <1>1, NotYet DEF JInv, AnswersInv, Settled
<1>3. CASE ReplaysRecord(q) /\ Answer(q, 201, records[Entry(q)].id)
  <2>1. Justified(q, 201, records[Entry(q)].id)
    BY <1>2, <1>3, RecordFound DEF Justified, ReplaysRecord
  <2>. QED
    BY <1>1, <1>2, <1>3, <2>1, AnswersTo
<1>4. CASE ~ReplaysRecord(q) /\ Answer(q, 409, NoRow)
  <2>1. PICK g \in Authorising : grants[g] # NoRow /\ grants[g].key = ask[q].key
    BY <1>1, <1>2 DEF LostRace, KeyTaken
  <2>2. ASSUME grants[g].actor = ask[q].actor, grants[g].body = ask[q].body
        PROVE  FALSE
    <3>1. records[Entry(q)] = [body |-> ask[q].body, id |-> g]
      BY <1>1, <2>1, <2>2 DEF JInv, AnswersInv, TablesAgree, GrantsRecorded, Entry
    <3>2. Asked(q)
      BY DEF JInv, IInv, RequestsFit
    <3>3. [body |-> ask[q].body, id |-> g] \in Record
      BY <1>1, <1>2, <3>2 DEF Asked, Record, Requests
    <3>. QED
      BY <1>4, <3>1, <3>3, RowsAssumption DEF ReplaysRecord, SameRequest
  <2>3. Justified(q, 409, NoRow)
    BY <1>1, <2>1, <2>2 DEF Justified, KeyMeansOther
  <2>. QED
    BY <1>1, <1>2, <1>4, <2>3, AnswersTo
<1>. QED
  BY <1>3, <1>4 DEF RereadRecord

(* A run of the key is the one asked for, or the key means something else. *)
LEMMA FindRunSettles ==
  ASSUME JInv, NEW q \in Requests, FindRun(q) PROVE Settled(q)'
<1>1. /\ pc[q] = "find" /\ UNCHANGED <<tables, ask, held, timely, error>>
      /\ q \in Enqueuing
  BY DEF FindRun, JInv, IInv, RequestsFit, Asked
<1>2. held'[q] = {} /\ Owns(q, ask[q].body)
  BY <1>1, NotYet DEF JInv, AnswersInv, Settled, OwnsGrant
<1>3. Owns(q, ask[q].body)'
  BY <1>1, <1>2 DEF Owns, tables
<1>4. ASSUME NEW point \in {"begin", "backfill"}, Goto(q, point),
             point = "backfill" => \E r \in RunsOfKey(q) : SameRun(q, r)
      PROVE  Settled(q)'
  <2>1. pc'[q] = point
    BY <1>4, Parts DEF JInv, IInv
  <2>2. LateIsExpired(q)' /\ FetchesAnswer(q)'
    BY <2>1 DEF LateIsExpired, FetchesAnswer
  <2>3. FoundRun(q)'
    BY <1>1, <1>4, <2>1 DEF FoundRun, RunsOfKey, SameRun, tables
  <2>. QED
    BY <1>1, <1>3, <1>4, <2>2, <2>3, Wanders
<1>5. CASE Goto(q, "begin")
  BY <1>4, <1>5
<1>6. ASSUME NEW r \in RunsOfKey(q), SameRun(q, r), Goto(q, "backfill")
      PROVE  Settled(q)'
  BY <1>4, <1>6
<1>7. ASSUME NEW r \in RunsOfKey(q), ~SameRun(q, r), Answer(q, 409, NoRow)
      PROVE  Settled(q)'
  <2>1. Justified(q, 409, NoRow)
    BY <1>7, <1>1 DEF Justified, KeyMeansOther
  <2>. QED
    BY <1>1, <1>2, <1>7, <2>1, AnswersTo
<1>. QED
  BY <1>5, <1>6, <1>7 DEF FindRun

(* Backfill writes nothing: the run it has found left its answer.          *)
LEMMA BackfillWritesNothing ==
  ASSUME JInv, NEW q \in Requests, Backfill(q) PROVE UNCHANGED tables
<1>1. pc[q] = "backfill" /\ UNCHANGED <<grants, runs, ask>>
  BY DEF Backfill
<1>2. /\ Owns(q, ask[q].body) /\ q \in Enqueuing
      /\ \E r \in RunsOfKey(q) : SameRun(q, r)
  BY <1>1 DEF JInv, AnswersInv, Settled, OwnsGrant, FoundRun, IInv, RequestsFit, Asked
<1>3. records[Entry(q)] # NoRow
  BY <1>1, <1>2, RunAnswered
<1>4. \A r : Recorded(q, r) = records
  BY <1>3 DEF Recorded
<1>. QED
  BY <1>1, <1>4 DEF Backfill, tables

(* So the answer that is fetched next is the one of this request.          *)
LEMMA BackfillSettles ==
  ASSUME JInv, NEW q \in Requests, Backfill(q) PROVE Settled(q)'
<1>1. pc[q] = "backfill" /\ UNCHANGED <<tables, ask, held, timely, error>>
  BY BackfillWritesNothing DEF Backfill
<1>2. /\ Owns(q, ask[q].body) /\ q \in Enqueuing /\ held'[q] = {} /\ pc[q] # "idle"
      /\ \E r \in RunsOfKey(q) : SameRun(q, r)
  BY <1>1, NotYet
  DEF JInv, AnswersInv, Settled, OwnsGrant, FoundRun, IInv, RequestsFit, Asked
<1>3. records[Entry(q)] # NoRow /\ SameRequest(q, records[Entry(q)])
  BY <1>2, RunAnswered
<1>4. Goto(q, "fetch")
  BY <1>3 DEF Backfill, Conflicts, SameRequest
<1>5. pc'[q] = "fetch"
  BY <1>4, Parts DEF JInv, IInv
<1>6. LateIsExpired(q)' /\ FoundRun(q)'
  BY <1>5 DEF LateIsExpired, FoundRun
<1>7. Entry(q)' = Entry(q)
  BY <1>1 DEF Entry
<1>8. FetchesAnswer(q)' /\ Owns(q, ask[q].body)'
  BY <1>1, <1>2, <1>3, <1>7 DEF FetchesAnswer, SameRequest, Owns, tables
<1>. QED
  BY <1>1, <1>4, <1>6, <1>8, Wanders

(* A grant that cannot be consumed has expired or has been consumed.       *)
LEMMA ConsumeGrantSettles ==
  ASSUME JInv, NEW q \in Requests, ConsumeGrant(q) PROVE Settled(q)'
<1>1. /\ pc[q] = "consume" /\ UNCHANGED <<ask, timely>>
      /\ q \in Enqueuing /\ q \notin Authorising
  BY RequestsAssumption DEF ConsumeGrant, JInv, IInv, RequestsFit, Asked
<1>2. CASE (~timely[q] \/ grants[ask[q].body].consumed) /\ Abort(q, 400)
  <2>1. grants[ask[q].body].expired \/ grants[ask[q].body].consumed
    BY <1>1, <1>2 DEF JInv, AnswersInv, Settled, LateIsExpired
  <2>. QED
    BY <1>1, <1>2, <2>1, AbortSettles
<1>3. CASE /\ Lock(q, GrantRow(ask[q].body)) /\ Goto(q, "insert")
           /\ UNCHANGED <<tables, error>>
  BY <1>1, <1>3, LocksOn
<1>. QED
  BY <1>2, <1>3 DEF ConsumeGrant

(* insertRun is only ever stopped by the client key: under the lock on the *)
(* grant no other run was made of it.                                      *)
LEMMA InsertRunSettles ==
  ASSUME JInv, NEW q \in Requests, InsertRun(q) PROVE Settled(q)'
<1>1. /\ pc[q] = "insert" /\ UNCHANGED <<ask, timely>>
      /\ q \in Enqueuing /\ q \notin Authorising
  BY RequestsAssumption DEF InsertRun
<1>2. /\ ask[q].body \in Authorising
      /\ ~grants[ask[q].body].consumed
  BY <1>1 DEF JInv, IInv, RequestsFit, Asked, GrantIsHeld
<1>3. \A r \in Enqueuing : ~(runs[r] # NoRow /\ runs[r].grant = ask[q].body)
  BY <1>2 DEF JInv, IInv, SpentMeansOneRun, RunsOf
<1>4. CASE RunsOfKey(q) # {} /\ Abort(q, 409)
  BY <1>1, <1>4, AbortSettles
<1>5. CASE /\ RunsOfKey(q) = {} /\ Lock(q, RunKey(q)) /\ Goto(q, "record")
           /\ UNCHANGED <<tables, error>>
  BY <1>1, <1>5, LocksOn
<1>. QED
  BY <1>3, <1>4, <1>5 DEF InsertRun

(* The catch block replays the run of this request, or gives the cause.    *)
LEMMA RereadRunSettles ==
  ASSUME JInv, NEW q \in Requests, RereadRun(q) PROVE Settled(q)'
<1>1. /\ pc[q] = "reread" /\ q \in Enqueuing
      /\ UNCHANGED <<tables, ask, held, timely, error>>
  BY DEF RereadRun
<1>2. /\ held'[q] = {} /\ pc[q] # "idle" /\ LostRace(q) /\ Owns(q, ask[q].body)
  BY <1>1, NotYet DEF JInv, AnswersInv, Settled, OwnsGrant
<1>3. ASSUME NEW r \in RunsOfKey(q), SameRun(q, r), Goto(q, "fetch")
      PROVE  Settled(q)'
  <2>1. records[Entry(q)] # NoRow /\ SameRequest(q, records[Entry(q)])
    BY <1>1, <1>2, <1>3, RunAnswered
  <2>2. pc'[q] = "fetch"
    BY <1>3, Parts DEF JInv, IInv
  <2>3. LateIsExpired(q)' /\ FoundRun(q)'
    BY <2>2 DEF LateIsExpired, FoundRun
  <2>4. Entry(q)' = Entry(q)
    BY <1>1 DEF Entry
  <2>5. FetchesAnswer(q)' /\ Owns(q, ask[q].body)'
    BY <1>1, <1>2, <2>1, <2>4 DEF FetchesAnswer, SameRequest, Owns, tables
  <2>. QED
    BY <1>1, <1>3, <2>3, <2>5, Wanders
<1>4. CASE (\A r \in RunsOfKey(q) : ~SameRun(q, r)) /\ Answer(q, error[q], NoRow)
  <2>1. error[q] \in {0, 400, 409}
    BY DEF JInv, IInv, TypeOK
  <2>2. error[q] = 409 => KeyMeansOther(q)
    BY <1>1, <1>2, <1>4 DEF LostRace, KeyMeansOther
  <2>3. error[q] = 400 => GrantIsGone(q)
    BY <1>1, <1>2, <1>4
    DEF LostRace, GrantIsGone, Owns, RunsOf, RunsOfKey, SameRun
  <2>4. Justified(q, error[q], NoRow)
    BY <2>1, <2>2, <2>3 DEF Justified
  <2>. QED
    BY <1>1, <1>2, <1>4, <2>4, AnswersTo
<1>. QED
  BY <1>3, <1>4 DEF RereadRun, Replays

(* The answer read back is the one of this request.                        *)
LEMMA FetchRecordSettles ==
  ASSUME JInv, NEW q \in Requests, FetchRecord(q) PROVE Settled(q)'
<1>1. pc[q] = "fetch" /\ UNCHANGED <<tables, ask, held, timely, error>>
  BY DEF FetchRecord
<1>2. /\ held'[q] = {} /\ pc[q] # "idle" /\ records[Entry(q)] # NoRow
      /\ SameRequest(q, records[Entry(q)])
  BY <1>1, NotYet DEF JInv, AnswersInv, Settled, FetchesAnswer
<1>3. Answer(q, 201, records[Entry(q)].id)
  BY <1>2 DEF FetchRecord
<1>4. Justified(q, 201, records[Entry(q)].id)
  BY <1>2, RecordFound DEF Justified
<1>. QED
  BY <1>1, <1>2, <1>3, <1>4, AnswersTo

(* A request that fails is told nothing of its write.                      *)
LEMMA FailSettles ==
  ASSUME JInv, NEW q \in Requests, Fail(q) PROVE Settled(q)'
<1>1. /\ Rollback(q) /\ Answer(q, 500, NoRow) /\ UNCHANGED <<ask, timely, error>>
      /\ pc[q] # "idle"
  BY DEF Fail
<1>2. UNCHANGED tables /\ held'[q] = {}
  BY <1>1, Parts DEF JInv, IInv
<1>3. Justified(q, 500, NoRow)
  BY DEF Justified
<1>. QED
  BY <1>1, <1>2, <1>3, AnswersTo

(* COMMIT of an authorisation: its grant and its answer appear together,   *)
(* under a key that nobody else has or is about to have.                   *)
LEMMA CommitGrantSettles ==
  ASSUME JInv, IInv', NEW q \in Requests, Alone(q), CommitGrant(q),
         NEW status \in {201, 500}, NEW id, Answer(q, status, id),
         status = 201 => id = q
  PROVE  JInv'
<1> DEFINE row == [actor |-> ask[q].actor, key |-> ask[q].key,
                   body |-> ask[q].body, consumed |-> FALSE, expired |-> FALSE]
           answer == [body |-> ask[q].body, id |-> q]
<1>1. /\ q \in Authorising /\ q \notin Enqueuing /\ pc[q] = "commit"
      /\ grants' = [grants EXCEPT ![q] = row]
      /\ UNCHANGED <<runs, ask>>
      /\ held' = [held EXCEPT ![q] = {}]
      /\ records' = Recorded(q, q)
  BY RequestsAssumption DEF CommitGrant, EndTransaction
<1>2. Asked(q) /\ WritesLast(q) /\ Settled(q)
  BY DEF JInv, IInv, RequestsFit, AnswersInv
<1>3. /\ ask[q].actor \in Actors /\ ask[q].key \in Keys /\ Entry(q) \in Entries
      /\ Entry(q) = <<ask[q].actor, "authorisations", ask[q].key>>
  BY <1>1, <1>2, EntryType DEF Asked, Entry
<1>4. grants[q] = NoRow /\ records[Entry(q)] = NoRow /\ ~KeyTaken(q)
  BY <1>1, <1>2, NoRecordYet DEF WritesLast, Settled, KeyIsFree
<1>5. records' = [records EXCEPT ![Entry(q)] = answer]
  BY <1>1, <1>4 DEF Recorded
<1>6. /\ row.actor = ask[q].actor /\ row.key = ask[q].key /\ row.body = ask[q].body
      /\ answer.body = ask[q].body /\ answer.id = q
  OBVIOUS
<1>7. /\ row # NoRow /\ answer # NoRow
  <2>1. answer \in Record
    BY <1>1, <1>2 DEF Asked, Record
  <2>2. row \in Grant
    BY <1>1, <1>2 DEF Asked, Grant
  <2>. HIDE DEF row, answer
  <2>. QED
    BY <2>1, <2>2, RowsAssumption
<1>. HIDE DEF row, answer
<1>8. /\ grants'[q] = row /\ \A g \in Authorising \ {q} : grants'[g] = grants[g]
      /\ records'[Entry(q)] = answer
      /\ \A entry \in Entries \ {Entry(q)} : records'[entry] = records[entry]
  BY <1>1, <1>3, <1>5 DEF JInv, IInv, TypeOK
<1>9. Grows
  BY <1>1, <1>4, <1>8 DEF Grows
<1>10. GrantsRecorded'
  <2> SUFFICES ASSUME NEW g \in Authorising, grants'[g] # NoRow
               PROVE  records'[<<grants'[g].actor, "authorisations", grants'[g].key>>]
                        = [body |-> grants'[g].body, id |-> g]
    BY DEF GrantsRecorded
  <2>1. CASE g = q
    BY <1>3, <1>6, <1>8, <2>1 DEF answer
  <2>2. CASE g # q
    <3>1. grants'[g] = grants[g] /\ grants[g] \in Grant /\ grants[g].key # ask[q].key
      BY <1>4, <1>8, <2>2 DEF KeyTaken, JInv, IInv, TypeOK
    <3>2. <<grants[g].actor, "authorisations", grants[g].key>> \in Entries \ {Entry(q)}
      BY <1>3, <3>1 DEF Grant, Entries, Routes
    <3>. QED
      BY <1>8, <3>1, <3>2 DEF JInv, AnswersInv, TablesAgree, GrantsRecorded
  <2>. QED
    BY <2>1, <2>2
<1>11. RunsRecorded'
  <2> SUFFICES ASSUME NEW r \in Enqueuing, runs[r] # NoRow
               PROVE  /\ grants'[runs[r].grant] # NoRow
                      /\ grants'[runs[r].grant].actor = runs[r].actor
                      /\ records'[<<runs[r].actor, "runs", runs[r].key>>]
                           = [body |-> runs[r].grant, id |-> r]
    BY <1>1 DEF RunsRecorded
  <2>1. runs[r] \in Run
    BY DEF JInv, IInv, TypeOK
  <2>2. <<runs[r].actor, "runs", runs[r].key>> \in Entries \ {Entry(q)}
    BY <1>3, <2>1 DEF Run, Entries, Routes
  <2>3. /\ grants[runs[r].grant] # NoRow
        /\ grants[runs[r].grant].actor = runs[r].actor
        /\ records[<<runs[r].actor, "runs", runs[r].key>>]
             = [body |-> runs[r].grant, id |-> r]
    BY DEF JInv, AnswersInv, TablesAgree, RunsRecorded
  <2>4. runs[r].grant \in Authorising \ {q}
    BY <1>4, <2>1, <2>3 DEF Run
  <2>. QED
    BY <1>8, <2>2, <2>3, <2>4
<1>12. RecordsTrue'
  <2> SUFFICES ASSUME NEW a \in Actors, NEW k \in Keys
               PROVE  /\ records'[<<a, "authorisations", k>>] # NoRow =>
                           NamesGrant(a, k, records[<<a, "authorisations", k>>])'
                      /\ records'[<<a, "runs", k>>] # NoRow =>
                           NamesRun(a, k, records[<<a, "runs", k>>])'
    BY DEF RecordsTrue
  <2>1. /\ <<a, "authorisations", k>> \in Entries
        /\ <<a, "runs", k>> \in Entries \ {Entry(q)}
    BY <1>3 DEF Entries, Routes
  <2>2. /\ records[<<a, "authorisations", k>>] # NoRow =>
             NamesGrant(a, k, records[<<a, "authorisations", k>>])
        /\ records[<<a, "runs", k>>] # NoRow =>
             NamesRun(a, k, records[<<a, "runs", k>>])
    BY DEF JInv, AnswersInv, TablesAgree, RecordsTrue
  <2>3. CASE <<a, "authorisations", k>> = Entry(q)
    <3>1. a = ask[q].actor /\ k = ask[q].key
      BY <1>3, <2>3
    <3>2. records'[<<a, "authorisations", k>>] = answer
      BY <1>8, <2>3
    <3>3. NamesGrant(a, k, records[<<a, "authorisations", k>>])'
      BY <1>1, <1>6, <1>7, <1>8, <3>1, <3>2 DEF NamesGrant
    <3>. QED
      BY <1>1, <1>8, <2>1, <2>2, <3>3 DEF NamesRun
  <2>4. CASE <<a, "authorisations", k>> # Entry(q)
    <3>1. records'[<<a, "authorisations", k>>] = records[<<a, "authorisations", k>>]
      BY <1>8, <2>1, <2>4
    <3>2. records[<<a, "authorisations", k>>] # NoRow =>
            records[<<a, "authorisations", k>>].id # q
      BY <1>4, <2>2 DEF NamesGrant
    <3>3. records'[<<a, "authorisations", k>>] # NoRow =>
            NamesGrant(a, k, records[<<a, "authorisations", k>>])'
      BY <1>8, <2>2, <3>1, <3>2 DEF NamesGrant
    <3>. QED
      BY <1>1, <1>8, <2>1, <2>2, <3>3 DEF NamesRun
  <2>. QED
    BY <2>3, <2>4
<1>13. ASSUME NEW p \in Requests, p # q PROVE Settled(p)'
  <2>1. /\ pc'[p] = pc[p] /\ ask'[p] = ask[p] /\ held'[p] = held[p]
        /\ timely'[p] = timely[p] /\ error'[p] = error[p] /\ reply'[p] = reply[p]
    BY <1>13 DEF Alone
  <2>2. Settled(p) /\ held[p] \cap held[q] = {}
    BY <1>13 DEF JInv, IInv, LocksAreExclusive, AnswersInv
  <2>3. pc[p] \in {"record", "commit"} /\ p \in Authorising => ask[p].key # ask[q].key
    <3>1. GrantKey(q) \in held[q]
      BY <1>1, <1>2 DEF Settled, Acquired
    <3>2. pc[p] \in {"record", "commit"} /\ p \in Authorising => GrantKey(p) \in held[p]
      BY <2>2 DEF Settled, Acquired
    <3>3. GrantKey(p) \in held[p] => GrantKey(p) # GrantKey(q)
      BY <2>2, <3>1
    <3>. QED
      BY <3>2, <3>3 DEF GrantKey
  <2>4. pc[p] \in {"record", "commit"} /\ p \in Authorising => ~KeyTaken(p)'
    BY <1>1, <1>6, <1>8, <2>1, <2>2, <2>3 DEF Settled, KeyIsFree, KeyTaken
  <2>5. RunsOfKey(p)' = RunsOfKey(p)
    BY <1>1 DEF RunsOfKey
  <2>6. KeyIsFree(p)'
    BY <2>1, <2>2, <2>4, <2>5 DEF Settled, KeyIsFree
  <2>. QED
    BY <1>9, <2>1, <2>6, Stays
<1>14. Settled(q)'
  <2>1. /\ pc'[q] = "done" /\ reply'[q] = [status |-> status, id |-> id]
        /\ held'[q] = {}
    BY <1>1 DEF Answer, JInv, IInv, TypeOK
  <2>2. held'[q] = Acquired(q)'
    BY <2>1 DEF Acquired
  <2>3. /\ OwnsGrant(q)' /\ KeyIsFree(q)' /\ LateIsExpired(q)' /\ FoundRun(q)'
        /\ FetchesAnswer(q)' /\ LostRace(q)'
    BY <2>1 DEF OwnsGrant, KeyIsFree, LateIsExpired, FoundRun, FetchesAnswer, LostRace
  <2>4. Entry(q)' = Entry(q)
    BY <1>1 DEF Entry
  <2>5. IsAnsweredWell(q)'
    BY <1>1, <1>7, <1>8, <2>1, <2>4
    DEF IsAnsweredWell, ConflictHasACause, RefusedGrantWasGone, answer
  <2>. QED
    BY <2>2, <2>3, <2>5 DEF Settled
<1>. QED
  BY <1>10, <1>11, <1>12, <1>13, <1>14 DEF JInv, AnswersInv, TablesAgree

(* To spend a grant, or to see it expire, leaves what it was issued for.   *)
LEMMA RowKept ==
  ASSUME NEW row \in Grant
  PROVE  /\ Spent(row).actor = row.actor /\ Spent(row).key = row.key
         /\ Spent(row).body = row.body /\ Spent(row).expired = row.expired
         /\ Expired(row).actor = row.actor /\ Expired(row).key = row.key
         /\ Expired(row).body = row.body /\ Expired(row).expired = TRUE
BY Zenon DEF Spent, Expired, Grant

(* COMMIT of an enqueue: its run and its answer appear together, and its   *)
(* grant is spent, all of it under locks.                                  *)
LEMMA CommitRunSettles ==
  ASSUME JInv, IInv', NEW q \in Requests, Alone(q), CommitRun(q),
         StartRun(q) \/ Answer(q, 500, NoRow)
  PROVE  JInv'
<1>1. /\ q \in Enqueuing /\ q \notin Authorising /\ pc[q] = "commit"
      /\ UNCHANGED ask /\ held' = [held EXCEPT ![q] = {}]
      /\ records' = Recorded(q, q)
  BY RequestsAssumption DEF CommitRun, EndTransaction
<1>2. Asked(q) /\ GrantIsThere(q) /\ WritesLast(q) /\ Settled(q)
  BY DEF JInv, IInv, RequestsFit, AnswersInv
<1>g. PICK g \in Authorising : g = ask[q].body
  BY <1>1, <1>2 DEF Asked
<1> DEFINE row == [grant |-> g, key |-> ask[q].key, actor |-> grants[g].actor]
           answer == [body |-> ask[q].body, id |-> q]
<1>r. /\ grants' = [grants EXCEPT ![g] = Spent(grants[g])]
      /\ runs' = [runs EXCEPT ![q] = row]
  BY <1>g DEF CommitRun
<1>3. /\ ask[q].actor \in Actors /\ ask[q].key \in Keys /\ Entry(q) \in Entries
      /\ Entry(q) = <<ask[q].actor, "runs", ask[q].key>>
  BY <1>1, <1>2, EntryType DEF Asked, Entry
<1>4. /\ runs[q] = NoRow /\ records[Entry(q)] = NoRow /\ RunsOfKey(q) = {}
      /\ grants[g] # NoRow /\ grants[g].actor = ask[q].actor
  BY <1>1, <1>2, <1>g, NoRecordYet
  DEF WritesLast, Settled, KeyIsFree, OwnsGrant, Owns
<1>5. records' = [records EXCEPT ![Entry(q)] = answer]
  BY <1>1, <1>4 DEF Recorded
<1>6. /\ row.actor = ask[q].actor /\ row.key = ask[q].key /\ row.grant = g
      /\ answer.body = g /\ answer.id = q /\ answer = [body |-> g, id |-> q]
  BY <1>4, <1>g
<1>7. row # NoRow /\ answer # NoRow
  <2>1. answer \in Record
    BY <1>1, <1>2 DEF Asked, Record
  <2>2. row \in Run
    BY <1>3, <1>4 DEF Run
  <2>. HIDE DEF row, answer
  <2>. QED
    BY <2>1, <2>2, RowsAssumption
<1>. HIDE DEF row, answer
<1>8. /\ runs'[q] = row /\ \A r \in Enqueuing \ {q} : runs'[r] = runs[r]
      /\ records'[Entry(q)] = answer
      /\ \A entry \in Entries \ {Entry(q)} : records'[entry] = records[entry]
      /\ grants'[g] = Spent(grants[g])
      /\ \A h \in Authorising \ {g} : grants'[h] = grants[h]
  BY <1>1, <1>3, <1>5, <1>r DEF JInv, IInv, TypeOK
<1>9. \A h \in Authorising :
        /\ grants'[h] # NoRow <=> grants[h] # NoRow
        /\ grants[h] # NoRow =>
             /\ grants'[h].actor = grants[h].actor /\ grants'[h].key = grants[h].key
             /\ grants'[h].body = grants[h].body
             /\ grants'[h].expired = grants[h].expired
             /\ grants[h].consumed => grants'[h].consumed
  <2>1. grants[g] \in Grant
    BY <1>4 DEF JInv, IInv, TypeOK
  <2>2. /\ grants'[g] # NoRow /\ grants[g] # NoRow
        /\ grants'[g].actor = grants[g].actor /\ grants'[g].key = grants[g].key
        /\ grants'[g].body = grants[g].body
        /\ grants'[g].expired = grants[g].expired /\ grants'[g].consumed = TRUE
    BY <1>4, <1>8, <2>1, RowKept, SpentRow
  <2>. QED
    BY <1>8, <2>2
<1>10. Grows
  BY <1>4, <1>8, <1>9 DEF Grows
<1>11. GrantsRecorded'
  <2> SUFFICES ASSUME NEW h \in Authorising, grants'[h] # NoRow
               PROVE  records'[<<grants'[h].actor, "authorisations", grants'[h].key>>]
                        = [body |-> grants'[h].body, id |-> h]
    BY DEF GrantsRecorded
  <2>1. /\ grants[h] # NoRow /\ grants[h] \in Grant
        /\ grants'[h].actor = grants[h].actor /\ grants'[h].key = grants[h].key
        /\ grants'[h].body = grants[h].body
    BY <1>9 DEF JInv, IInv, TypeOK
  <2>2. <<grants[h].actor, "authorisations", grants[h].key>> \in Entries \ {Entry(q)}
    BY <1>3, <2>1 DEF Grant, Entries, Routes
  <2>. QED
    BY <1>8, <2>1, <2>2 DEF JInv, AnswersInv, TablesAgree, GrantsRecorded
<1>12. RunsRecorded'
  <2> SUFFICES ASSUME NEW r \in Enqueuing, runs'[r] # NoRow
               PROVE  /\ grants'[runs'[r].grant] # NoRow
                      /\ grants'[runs'[r].grant].actor = runs'[r].actor
                      /\ records'[<<runs'[r].actor, "runs", runs'[r].key>>]
                           = [body |-> runs'[r].grant, id |-> r]
    BY DEF RunsRecorded
  <2>1. CASE r = q
    BY <1>3, <1>4, <1>6, <1>8, <1>9, <2>1
  <2>2. CASE r # q
    <3>1. runs'[r] = runs[r] /\ runs[r] \in Run /\ runs[r].key # ask[q].key
      BY <1>4, <1>8, <2>2 DEF RunsOfKey, JInv, IInv, TypeOK
    <3>2. <<runs[r].actor, "runs", runs[r].key>> \in Entries \ {Entry(q)}
      BY <1>3, <3>1 DEF Run, Entries, Routes
    <3>3. /\ grants[runs[r].grant] # NoRow
          /\ grants[runs[r].grant].actor = runs[r].actor
          /\ records[<<runs[r].actor, "runs", runs[r].key>>]
               = [body |-> runs[r].grant, id |-> r]
      BY <3>1 DEF JInv, AnswersInv, TablesAgree, RunsRecorded
    <3>4. runs[r].grant \in Authorising
      BY <3>1 DEF Run
    <3>. QED
      BY <1>8, <1>9, <3>1, <3>2, <3>3, <3>4
  <2>. QED
    BY <2>1, <2>2
<1>13. RecordsTrue'
  <2> SUFFICES ASSUME NEW a \in Actors, NEW k \in Keys
               PROVE  /\ records'[<<a, "authorisations", k>>] # NoRow =>
                           NamesGrant(a, k, records[<<a, "authorisations", k>>])'
                      /\ records'[<<a, "runs", k>>] # NoRow =>
                           NamesRun(a, k, records[<<a, "runs", k>>])'
    BY DEF RecordsTrue
  <2>1. /\ <<a, "runs", k>> \in Entries
        /\ <<a, "authorisations", k>> \in Entries \ {Entry(q)}
    BY <1>3 DEF Entries, Routes
  <2>2. /\ records[<<a, "authorisations", k>>] # NoRow =>
             NamesGrant(a, k, records[<<a, "authorisations", k>>])
        /\ records[<<a, "runs", k>>] # NoRow =>
             NamesRun(a, k, records[<<a, "runs", k>>])
    BY DEF JInv, AnswersInv, TablesAgree, RecordsTrue
  <2>3. records'[<<a, "authorisations", k>>] # NoRow =>
          NamesGrant(a, k, records[<<a, "authorisations", k>>])'
    BY <1>8, <1>9, <2>1, <2>2 DEF NamesGrant
  <2>4. CASE <<a, "runs", k>> = Entry(q)
    <3>1. a = ask[q].actor /\ k = ask[q].key
      BY <1>3, <2>4
    <3>2. records'[<<a, "runs", k>>] = answer
      BY <1>8, <2>4
    <3>3. NamesRun(a, k, records[<<a, "runs", k>>])'
      BY <1>1, <1>6, <1>7, <1>8, <3>1, <3>2 DEF NamesRun
    <3>. QED
      BY <2>3, <3>3
  <2>5. CASE <<a, "runs", k>> # Entry(q)
    <3>1. records'[<<a, "runs", k>>] = records[<<a, "runs", k>>]
      BY <1>8, <2>1, <2>5
    <3>2. records[<<a, "runs", k>>] # NoRow => records[<<a, "runs", k>>].id # q
      BY <1>4, <2>2 DEF NamesRun
    <3>3. records'[<<a, "runs", k>>] # NoRow =>
            NamesRun(a, k, records[<<a, "runs", k>>])'
      BY <1>8, <2>2, <3>1, <3>2 DEF NamesRun
    <3>. QED
      BY <2>3, <3>3
  <2>. QED
    BY <2>4, <2>5
<1>14. ASSUME NEW p \in Requests, p # q PROVE Settled(p)'
  <2>1. /\ pc'[p] = pc[p] /\ ask'[p] = ask[p] /\ held'[p] = held[p]
        /\ timely'[p] = timely[p] /\ error'[p] = error[p] /\ reply'[p] = reply[p]
    BY <1>14 DEF Alone
  <2>2. Settled(p) /\ held[p] \cap held[q] = {}
    BY <1>14 DEF JInv, IInv, LocksAreExclusive, AnswersInv
  <2>3. pc[p] \in {"record", "commit"} /\ p \in Enqueuing => ask[p].key # ask[q].key
    <3>1. RunKey(q) \in held[q]
      BY <1>1, <1>2 DEF Settled, Acquired
    <3>2. pc[p] \in {"record", "commit"} /\ p \in Enqueuing => RunKey(p) \in held[p]
      BY <2>2, RequestsAssumption DEF Settled, Acquired
    <3>3. RunKey(p) \in held[p] => RunKey(p) # RunKey(q)
      BY <2>2, <3>1
    <3>. QED
      BY <3>2, <3>3 DEF RunKey
  <2>4. pc[p] \in {"record", "commit"} /\ p \in Enqueuing => RunsOfKey(p)' = {}
    BY <1>6, <1>8, <2>1, <2>2, <2>3 DEF Settled, KeyIsFree, RunsOfKey
  <2>5. KeyTaken(p)' <=> KeyTaken(p)
    BY <1>9, <2>1 DEF KeyTaken
  <2>6. KeyIsFree(p)'
    BY <2>1, <2>2, <2>4, <2>5 DEF Settled, KeyIsFree
  <2>. QED
    BY <1>10, <2>1, <2>6, Stays
<1>15. Settled(q)'
  <2>1. held'[q] = {} /\ reply[q].status = 0 /\ Entry(q)' = Entry(q)
    BY <1>1, NotYet DEF JInv, IInv, TypeOK, Entry
  <2>2. records'[Entry(q)] # NoRow /\ SameRequest(q, records[Entry(q)])'
    BY <1>1, <1>6, <1>7, <1>8, <1>g, <2>1 DEF SameRequest
  <2>3. grants'[g] # NoRow /\ grants'[g].actor = ask[q].actor
    BY <1>4, <1>9
  <2>4. CASE StartRun(q)
    <3>1. pc'[q] = "fetch" /\ UNCHANGED reply
      BY <2>4, Parts DEF StartRun, JInv, IInv
    <3>2. held'[q] = Acquired(q)'
      BY <2>1, <3>1 DEF Acquired
    <3>3. /\ KeyIsFree(q)' /\ LateIsExpired(q)' /\ FoundRun(q)' /\ LostRace(q)'
      BY <3>1 DEF KeyIsFree, LateIsExpired, FoundRun, LostRace
    <3>4. FetchesAnswer(q)'
      BY <2>1, <2>2 DEF FetchesAnswer
    <3>5. OwnsGrant(q)'
      BY <1>1, <1>g, <2>3 DEF OwnsGrant, Owns
    <3>. QED
      BY <1>1, <3>1, <3>2, <3>3, <3>4, <3>5, GoesTo
  <2>5. CASE Answer(q, 500, NoRow)
    <3>1. pc'[q] = "done" /\ reply'[q].status = 500
      BY <2>5 DEF Answer, JInv, IInv, TypeOK
    <3>2. held'[q] = Acquired(q)'
      BY <2>1, <3>1 DEF Acquired
    <3>3. /\ OwnsGrant(q)' /\ KeyIsFree(q)' /\ LateIsExpired(q)' /\ FoundRun(q)'
          /\ FetchesAnswer(q)' /\ LostRace(q)'
      BY <3>1 DEF OwnsGrant, KeyIsFree, LateIsExpired, FoundRun, FetchesAnswer, LostRace
    <3>4. IsAnsweredWell(q)'
      BY <3>1 DEF IsAnsweredWell, ConflictHasACause, RefusedGrantWasGone
    <3>. QED
      BY <3>2, <3>3, <3>4 DEF Settled
  <2>. QED
    BY <2>4, <2>5
<1>. QED
  BY <1>11, <1>12, <1>13, <1>14, <1>15 DEF JInv, AnswersInv, TablesAgree

(* A grant that expires changes nothing anyone was told.                   *)
LEMMA ExpireSettles ==
  ASSUME JInv, IInv', NEW g \in Authorising, Expire(g) PROVE JInv'
<1>1. /\ grants' = [grants EXCEPT ![g] = Expired(grants[g])]
      /\ UNCHANGED <<runs, records, pc, ask, held, timely, error, reply>>
      /\ grants[g] # NoRow /\ grants[g] \in Grant
  BY DEF Expire, JInv, IInv, TypeOK
<1>2. \A h \in Authorising :
        /\ grants'[h] # NoRow <=> grants[h] # NoRow
        /\ grants[h] # NoRow =>
             /\ grants'[h].actor = grants[h].actor /\ grants'[h].key = grants[h].key
             /\ grants'[h].body = grants[h].body
             /\ grants'[h].consumed = grants[h].consumed
             /\ grants[h].expired => grants'[h].expired
  <2>1. /\ grants'[g] = Expired(grants[g])
        /\ \A h \in Authorising \ {g} : grants'[h] = grants[h]
    BY <1>1 DEF JInv, IInv, TypeOK
  <2>2. /\ grants'[g] # NoRow
        /\ grants'[g].actor = grants[g].actor /\ grants'[g].key = grants[g].key
        /\ grants'[g].body = grants[g].body
        /\ grants'[g].consumed = grants[g].consumed /\ grants'[g].expired = TRUE
    BY <1>1, <2>1, RowKept, ExpiredRow
  <2>. QED
    BY <1>1, <2>1, <2>2
<1>3. Grows
  BY <1>1, <1>2 DEF Grows
<1>4. GrantsRecorded'
  BY <1>1, <1>2 DEF JInv, AnswersInv, TablesAgree, GrantsRecorded
<1>5. RunsRecorded'
  <2>1. \A r \in Enqueuing : runs[r] # NoRow => runs[r].grant \in Authorising
    BY DEF JInv, IInv, TypeOK, Run
  <2>. QED
    BY <1>1, <1>2, <2>1 DEF JInv, AnswersInv, TablesAgree, RunsRecorded
<1>6. RecordsTrue'
  <2>1. \A a, k, row : NamesGrant(a, k, row) => NamesGrant(a, k, row)'
    BY <1>2 DEF NamesGrant
  <2>2. \A a, k, row : NamesRun(a, k, row) => NamesRun(a, k, row)'
    BY <1>1 DEF NamesRun
  <2>. QED
    BY <1>1, <2>1, <2>2 DEF JInv, AnswersInv, TablesAgree, RecordsTrue
<1>7. ASSUME NEW p \in Requests PROVE Settled(p)'
  <2>1. KeyTaken(p)' <=> KeyTaken(p)
    BY <1>1, <1>2 DEF KeyTaken
  <2>2. KeyIsFree(p)'
    BY <1>1, <2>1 DEF JInv, AnswersInv, Settled, KeyIsFree, RunsOfKey
  <2>. QED
    BY <1>1, <1>3, <2>2, Stays
<1>. QED
  BY <1>4, <1>5, <1>6, <1>7 DEF JInv, AnswersInv, TablesAgree

(* Nobody has been answered yet.                                           *)
LEMMA InitJInv == Init => JInv
<1> SUFFICES ASSUME Init PROVE JInv
  OBVIOUS
<1>1. IInv
  BY InitIInv
<1>2. TablesAgree
  BY DEF Init, TablesAgree, GrantsRecorded, RunsRecorded, RecordsTrue, Entries, Routes
<1>3. ASSUME NEW q \in Requests PROVE Settled(q)
  <2>1. pc[q] = "idle" /\ held[q] = {} /\ reply[q].status = 0
    BY DEF Init
  <2>. QED
    BY <2>1 DEF Settled, Acquired, OwnsGrant, KeyIsFree, LateIsExpired, FoundRun,
       FetchesAnswer, LostRace, IsAnsweredWell
<1>. QED
  BY <1>1, <1>2, <1>3 DEF JInv, AnswersInv

\* Everything a request does but COMMIT.
Quiet(q) ==
  \/ Receive(q) \/ LookUp(q) \/ Check(q) \/ Begin(q) \/ PutRecord(q)
  \/ InsertGrant(q) \/ RereadRecord(q) \/ FindRun(q) \/ Backfill(q)
  \/ ConsumeGrant(q) \/ InsertRun(q) \/ RereadRun(q) \/ FetchRecord(q) \/ Fail(q)

(* Only COMMIT changes the tables.                                         *)
LEMMA QuietTables ==
  ASSUME JInv, NEW q \in Requests, Quiet(q) PROVE UNCHANGED tables
<1>1. /\ Rollback(q) => UNCHANGED tables
      /\ \A status : Abort(q, status) => UNCHANGED tables
  BY Parts DEF JInv, IInv
<1>2. Backfill(q) => UNCHANGED tables
  BY BackfillWritesNothing
<1>. QED
  BY <1>1, <1>2 DEF Quiet, Receive, LookUp, Check, Begin, PutRecord, InsertGrant,
     RereadRecord, FindRun, ConsumeGrant, InsertRun, RereadRun, FetchRecord, Fail

(* Every step keeps the answers true.                                      *)
LEMMA NextJInv == ASSUME JInv, [Next]_vars PROVE JInv'
<1>1. IInv'
  BY NextIInv DEF JInv
<1>2. ASSUME NEW q \in Requests,
             Receive(q) \/ Step(q) \/ Fail(q) \/ LoseAcknowledgement(q)
      PROVE  JInv'
  <2>1. Alone(q)
    BY <1>2, OneMoves DEF JInv, IInv
  <2>2. CASE Quiet(q)
    <3>1. UNCHANGED tables
      BY <2>2, QuietTables
    <3>2. Settled(q)'
      BY <2>2, ReceiveSettles, LookUpSettles, CheckSettles, BeginSettles,
         PutRecordSettles, InsertGrantSettles, RereadRecordSettles, FindRunSettles,
         BackfillSettles, ConsumeGrantSettles, InsertRunSettles, RereadRunSettles,
         FetchRecordSettles, FailSettles DEF Quiet
    <3>. QED
      BY <1>1, <2>1, <3>1, <3>2, MovesOn
  <2>3. CASE IssueGrant(q)
    BY <1>1, <2>1, <2>3, CommitGrantSettles DEF IssueGrant
  <2>4. CASE CommitGrant(q) /\ Answer(q, 500, NoRow)
    BY <1>1, <2>1, <2>4, CommitGrantSettles
  <2>5. CASE StartRun(q)
    BY <1>1, <2>1, <2>5, CommitRunSettles DEF StartRun
  <2>6. CASE CommitRun(q) /\ Answer(q, 500, NoRow)
    BY <1>1, <2>1, <2>6, CommitRunSettles
  <2>. QED
    BY <1>2, <2>2, <2>3, <2>4, <2>5, <2>6 DEF Step, Quiet, LoseAcknowledgement
<1>3. ASSUME NEW g \in Authorising, Expire(g) PROVE JInv'
  BY <1>1, <1>3, ExpireSettles
<1>4. CASE UNCHANGED vars
  <2>1. Grows
    BY <1>4 DEF Grows, vars, tables
  <2>2. TablesAgree'
    BY <1>4 DEF JInv, AnswersInv, TablesAgree, GrantsRecorded, RunsRecorded,
       RecordsTrue, NamesGrant, NamesRun, vars, tables
  <2>3. ASSUME NEW p \in Requests PROVE Settled(p)'
    <3>1. KeyIsFree(p)'
      BY <1>4 DEF JInv, AnswersInv, Settled, KeyIsFree, KeyTaken, RunsOfKey, vars,
         tables
    <3>. QED
      BY <1>1, <1>4, <2>1, <3>1, Stays DEF vars
  <2>. QED
    BY <1>1, <2>2, <2>3 DEF JInv, AnswersInv
<1>. QED
  BY <1>2, <1>3, <1>4 DEF Next

(* The invariant holds of every behaviour.                                 *)
THEOREM AnswersInvariant == Spec => []JInv
<1>. QED
  BY InitJInv, NextJInv, PTL DEF Spec

(* What clients are told is so, and stays so: a 201 repeats the record     *)
(* under the key of the request, and the record the row that was made.     *)
THEOREM AnswersAreTrue == Spec => []AnswersStand
<1>1. ASSUME JInv PROVE AnswersStand
  <2>1. ASSUME NEW q \in Requests, reply[q].status = 201
        PROVE  /\ records[Entry(q)] = [body |-> ask[q].body, id |-> reply[q].id]
               /\ AnswerIsTrue(q)
    <3>1. /\ pc[q] # "idle" /\ records[Entry(q)] # NoRow
          /\ records[Entry(q)] = [body |-> ask[q].body, id |-> reply[q].id]
      BY <1>1, <2>1 DEF JInv, AnswersInv, Settled, IsAnsweredWell
    <3>2. /\ records[Entry(q)].body = ask[q].body
          /\ records[Entry(q)].id = reply[q].id
      BY <3>1
    <3>3. CASE q \in Authorising
      <4>1. NamesGrant(ask[q].actor, ask[q].key, records[Entry(q)])
        BY <1>1, <3>1, <3>3, RecordFound
      <4>. QED
        BY <3>1, <3>2, <3>3, <4>1 DEF NamesGrant, AnswerIsTrue
    <3>4. CASE q \in Enqueuing
      <4>1. NamesRun(ask[q].actor, ask[q].key, records[Entry(q)])
        BY <1>1, <3>1, <3>4, RecordFound
      <4>. QED
        BY <3>1, <3>2, <3>4, <4>1 DEF NamesRun, AnswerIsTrue
    <3>. QED
      BY <3>3, <3>4 DEF Requests
  <2>2. ASSUME NEW p \in Requests, NEW q \in Requests,
               reply[p].status = 201, reply[q].status = 201, Entry(p) = Entry(q)
        PROVE  ask[p].body = ask[q].body /\ reply[p].id = reply[q].id
    <3>1. [body |-> ask[p].body, id |-> reply[p].id]
            = [body |-> ask[q].body, id |-> reply[q].id]
      BY <2>1, <2>2
    <3>. QED
      BY <3>1
  <2>3. \A q \in Requests : AnswerIsTrue(q)
    BY <2>1 DEF AnswerIsTrue
  <2>. QED
    BY <2>2, <2>3 DEF AnswersStand, OneAnswerPerKey
<1>. QED
  BY <1>1, AnswersInvariant, PTL

(* Nobody is refused for a race it lost: the cause of a refusal is in the  *)
(* tables, and the answer an enqueue goes back for is there.               *)
THEOREM RefusalsAreFounded == Spec => []RefusalsHaveACause
<1>1. ASSUME JInv PROVE RefusalsHaveACause
  <2> SUFFICES ASSUME NEW q \in Requests
               PROVE  /\ ConflictHasACause(q) /\ RefusedGrantWasGone(q)
                      /\ AnswerIsThereToFetch(q)
    BY DEF RefusalsHaveACause
  <2>1. Settled(q)
    BY <1>1 DEF JInv, AnswersInv
  <2>2. AnswerIsThereToFetch(q)
    BY <2>1 DEF Settled, FetchesAnswer, AnswerIsThereToFetch
  <2>3. ConflictHasACause(q) /\ RefusedGrantWasGone(q)
    BY <2>1 DEF Settled, IsAnsweredWell, ConflictHasACause, RefusedGrantWasGone
  <2>. QED
    BY <2>2, <2>3
<1>. QED
  BY <1>1, AnswersInvariant, PTL

\* How far a request has come in taking its locks: every transaction takes
\* them in the order grant, client key, record.
Rank(q) ==
  CASE pc[q] = "consume"                -> 1
    [] pc[q] = "insert"                 -> 2
    [] pc[q] \in {"record", "backfill"} -> 3
    [] pc[q] = "commit"                 -> 4
    [] OTHER                            -> 0

(* Who waits is behind the one it waits for.                               *)
LEMMA WaitsBehind ==
  ASSUME JInv, NEW q \in Requests, NEW other \in Requests, WaitsFor(q, other)
  PROVE  /\ Rank(q) \in 1 .. 3 /\ Rank(other) \in 1 .. 4 /\ Rank(q) < Rank(other)
<1>1. PICK lock \in Wants(q) : lock \in held[other]
  BY DEF WaitsFor
<1>2. held[other] = Acquired(other)
  BY DEF JInv, AnswersInv, Settled
<1>3. CASE pc[q] \in {"record", "backfill"}
  <2>1. lock = RecordEntry(q)
    BY <1>1, <1>3 DEF Wants
  <2>2. /\ RecordEntry(q) # GrantKey(other) /\ RecordEntry(q) # RunKey(other)
        /\ RecordEntry(q) # GrantRow(ask[other].body)
    BY DEF RecordEntry, GrantKey, GrantRow, RunKey
  <2>3. pc[other] = "commit"
    BY <1>1, <1>2, <2>1, <2>2 DEF Acquired
  <2>. QED
    BY <1>3, <2>3 DEF Rank
<1>4. CASE pc[q] = "insert"
  <2>1. lock = GrantKey(q) \/ lock = RunKey(q)
    BY <1>1, <1>4 DEF Wants, Requests
  <2>a. GrantKey(q) # GrantRow(ask[other].body) /\ RunKey(q) # GrantRow(ask[other].body)
    BY DEF GrantKey, GrantRow, RunKey
  <2>2. lock # GrantRow(ask[other].body)
    BY <2>1, <2>a
  <2>3. pc[other] \in {"record", "commit"}
    BY <1>1, <1>2, <2>2 DEF Acquired
  <2>. QED
    BY <1>4, <2>3 DEF Rank
<1>5. CASE pc[q] = "consume"
  <2>1. pc[other] \in {"insert", "record", "commit"}
    BY <1>1, <1>2 DEF Acquired
  <2>. QED
    BY <1>5, <2>1 DEF Rank
<1>6. pc[q] \in {"record", "backfill", "insert", "consume"}
  BY <1>1 DEF Wants
<1>. QED
  BY <1>3, <1>4, <1>5, <1>6

(* No circle of waiting requests: in any group, whoever has come furthest  *)
(* waits for nobody in it; and every lock is held inside a transaction.    *)
THEOREM NoDeadlock == Spec => []NobodyWaitsForEver
<1>1. ASSUME JInv PROVE NobodyWaitsForEver
  <2>1. ASSUME NEW group \in (SUBSET Requests) \ {{}}
        PROVE  \E q \in group : \A other \in group : ~WaitsFor(q, other)
    <3>1. \A q, other \in group : WaitsFor(q, other) =>
            Rank(q) \in 1 .. 3 /\ Rank(other) \in 1 .. 4 /\ Rank(q) < Rank(other)
      BY <1>1, WaitsBehind
    <3>2. CASE \E q \in group : Rank(q) = 4
      BY <3>1, <3>2
    <3>3. CASE /\ \A q \in group : Rank(q) # 4
               /\ \E q \in group : Rank(q) = 3
      BY <3>1, <3>3
    <3>4. CASE /\ \A q \in group : Rank(q) \notin {3, 4}
               /\ \E q \in group : Rank(q) = 2
      BY <3>1, <3>4
    <3>5. CASE \A q \in group : Rank(q) \notin {2, 3, 4}
      BY <3>1, <3>5
    <3>. QED
      BY <3>2, <3>3, <3>4, <3>5
  <2>2. ASSUME NEW q \in Requests, held[q] # {}
        PROVE  pc[q] \in {"insert", "record", "commit"}
    BY <1>1, <2>2, NotYet
  <2>. QED
    BY <2>1, <2>2 DEF NobodyWaitsForEver
<1>. QED
  BY <1>1, AnswersInvariant, PTL
----------------------------------------------------------------------------
(* The refinement of GrantLedger.                                          *)

OwnerMap == [g \in Authorising |->
              IF grants[g] = NoRow THEN NoRow ELSE grants[g].actor]

TheRun(made) == CHOOSE r \in Enqueuing : r \in made

SpentMap == [g \in Authorising |->
              IF RunsOf(g) = {} THEN NoRow ELSE TheRun(RunsOf(g))]

(* The steps of the ledger, seen from here.                                *)
LEMMA LedgerSteps ==
  /\ \A g, a, k, body : Ledger!Issue(g, a, k, body) <=>
       /\ OwnerMap[g] = NoRow /\ OwnerMap' = [OwnerMap EXCEPT ![g] = a]
       /\ records[<<a, "authorisations", k>>] = NoRow
       /\ records' = [records EXCEPT ![<<a, "authorisations", k>>]
                        = [body |-> body, id |-> g]]
       /\ UNCHANGED SpentMap
  /\ \A g, r, k : Ledger!Spend(g, r, k) <=>
       /\ OwnerMap[g] \in Actors /\ SpentMap[g] = NoRow
       /\ \A other \in Authorising : SpentMap[other] # r
       /\ SpentMap' = [SpentMap EXCEPT ![g] = r]
       /\ records[<<OwnerMap[g], "runs", k>>] = NoRow
       /\ records' = [records EXCEPT ![<<OwnerMap[g], "runs", k>>]
                        = [body |-> g, id |-> r]]
       /\ UNCHANGED OwnerMap
  /\ UNCHANGED <<OwnerMap, SpentMap, records>> => UNCHANGED Ledger!vars
<1>1. \A g, a, k, body : Ledger!Issue(g, a, k, body) <=>
       /\ OwnerMap[g] = NoRow /\ OwnerMap' = [OwnerMap EXCEPT ![g] = a]
       /\ records[<<a, "authorisations", k>>] = NoRow
       /\ records' = [records EXCEPT ![<<a, "authorisations", k>>]
                        = [body |-> body, id |-> g]]
       /\ UNCHANGED SpentMap
  BY Zenon DEF Ledger!Issue, Ledger!Settle, OwnerMap, SpentMap, TheRun
<1>2. \A g, r, k : Ledger!Spend(g, r, k) <=>
       /\ OwnerMap[g] \in Actors /\ SpentMap[g] = NoRow
       /\ \A other \in Authorising : SpentMap[other] # r
       /\ SpentMap' = [SpentMap EXCEPT ![g] = r]
       /\ records[<<OwnerMap[g], "runs", k>>] = NoRow
       /\ records' = [records EXCEPT ![<<OwnerMap[g], "runs", k>>]
                        = [body |-> g, id |-> r]]
       /\ UNCHANGED OwnerMap
  BY Zenon DEF Ledger!Spend, Ledger!Settle, OwnerMap, SpentMap, TheRun
<1>3. UNCHANGED <<OwnerMap, SpentMap, records>> => UNCHANGED Ledger!vars
  BY Zenon DEF Ledger!vars, OwnerMap, SpentMap, TheRun
<1>. QED
  BY <1>1, <1>2, <1>3

(* COMMIT of an authorisation issues its grant.                            *)
LEMMA CommitIssues ==
  ASSUME JInv, NEW q \in Requests, CommitGrant(q)
  PROVE  Ledger!Next
<1>1. /\ q \in Authorising /\ pc[q] = "commit" /\ runs' = runs
      /\ grants' = [grants EXCEPT ![q] =
                     [actor |-> ask[q].actor, key |-> ask[q].key,
                      body |-> ask[q].body, consumed |-> FALSE, expired |-> FALSE]]
      /\ records' = Recorded(q, q)
  BY DEF CommitGrant
<1>2. /\ ask[q].actor \in Actors /\ ask[q].key \in Keys /\ ask[q].body \in Bodies
      /\ grants[q] = NoRow /\ records[Entry(q)] = NoRow
      /\ Entry(q) = <<ask[q].actor, "authorisations", ask[q].key>>
  BY <1>1, NoRecordYet DEF JInv, IInv, RequestsFit, Asked, WritesLast, Entry
<1>3. PICK row : row = [actor |-> ask[q].actor, key |-> ask[q].key,
                        body |-> ask[q].body, consumed |-> FALSE, expired |-> FALSE]
  OBVIOUS
<1>4. row # NoRow /\ row.actor = ask[q].actor
  <2>1. row \in Grant
    BY <1>2, <1>3 DEF Grant
  <2>. QED
    BY <1>3, <2>1, RowsAssumption
<1>a. PICK a \in Actors, k \in Keys, body \in Bodies :
        a = ask[q].actor /\ k = ask[q].key /\ body = ask[q].body
  BY <1>2
<1>5. OwnerMap[q] = NoRow /\ OwnerMap' = [OwnerMap EXCEPT ![q] = a]
  <2>1. grants' = [grants EXCEPT ![q] = row]
    BY <1>1, <1>3
  <2>2. grants'[q] = row /\ \A g \in Authorising \ {q} : grants'[g] = grants[g]
    BY <1>1, <2>1 DEF JInv, IInv, TypeOK
  <2>3. OwnerMap[q] = NoRow
    BY <1>1, <1>2 DEF OwnerMap
  <2>4. OwnerMap' = [g \in Authorising |-> IF g = q THEN a ELSE OwnerMap[g]]
    BY <1>4, <1>a, <2>2 DEF OwnerMap
  <2>. QED
    BY <2>3, <2>4 DEF OwnerMap
<1>6. UNCHANGED SpentMap
  <2>1. \A g \in Authorising : RunsOf(g)' = RunsOf(g)
    BY <1>1 DEF RunsOf
  <2>. QED
    BY <2>1 DEF SpentMap
<1>7. /\ records[<<a, "authorisations", k>>] = NoRow
      /\ records' = [records EXCEPT ![<<a, "authorisations", k>>]
                       = [body |-> body, id |-> q]]
  BY <1>1, <1>2, <1>a DEF Recorded
<1>8. Ledger!Issue(q, a, k, body)
  BY <1>5, <1>6, <1>7, LedgerSteps
<1>. QED
  BY <1>1, <1>8 DEF Ledger!Next

(* COMMIT of an enqueue spends its grant.                                  *)
LEMMA CommitSpends ==
  ASSUME JInv, IInv', NEW q \in Requests, CommitRun(q)
  PROVE  Ledger!Next
<1>1. q \in Enqueuing /\ pc[q] = "commit" /\ records' = Recorded(q, q)
  BY DEF CommitRun
<1>2. PICK g \in Authorising : g = ask[q].body
  BY <1>1 DEF JInv, IInv, RequestsFit, Asked
<1>3. PICK row : row = [grant |-> g, key |-> ask[q].key, actor |-> grants[g].actor]
  OBVIOUS
<1>4. /\ grants' = [grants EXCEPT ![g] = Spent(grants[g])]
      /\ runs' = [runs EXCEPT ![q] = row]
  BY <1>2, <1>3 DEF CommitRun
<1>5. /\ ask[q].actor \in Actors /\ ask[q].key \in Keys
      /\ runs[q] = NoRow /\ records[Entry(q)] = NoRow
      /\ Entry(q) = <<ask[q].actor, "runs", ask[q].key>>
      /\ grants[g] # NoRow /\ grants[g] \in Grant /\ ~grants[g].consumed
  BY <1>1, <1>2, NoRecordYet, RequestsAssumption
  DEF JInv, IInv, TypeOK, RequestsFit, Asked, WritesLast, Entry, GrantIsThere,
      GrantIsHeld
<1>6. grants[g].actor = ask[q].actor
  BY <1>1, <1>2 DEF JInv, AnswersInv, Settled, OwnsGrant, Owns
<1>7. row # NoRow /\ row.grant = g
  <2>1. row \in Run
    BY <1>3, <1>5, <1>6 DEF Run
  <2>. QED
    BY <1>3, <2>1, RowsAssumption
<1>8. OwnerMap[g] = ask[q].actor /\ UNCHANGED OwnerMap
  <2>1. Spent(grants[g]) # NoRow /\ Spent(grants[g]).actor = grants[g].actor
    BY <1>5, RowKept, SpentRow
  <2>. QED
    BY <1>4, <1>5, <1>6, <2>1 DEF OwnerMap, JInv, IInv, TypeOK
<1>9. RunsOf(g) = {} /\ RunsOf(g)' = {q}
      /\ \A h \in Authorising \ {g} : RunsOf(h)' = RunsOf(h)
  <2>1. RunsOf(g) = {}
    BY <1>5 DEF JInv, IInv, SpentMeansOneRun
  <2>2. runs'[q] = row /\ \A r \in Enqueuing \ {q} : runs'[r] = runs[r]
    BY <1>1, <1>4 DEF JInv, IInv, TypeOK
  <2>. QED
    BY <1>1, <1>5, <1>7, <2>1, <2>2 DEF RunsOf
<1>10. \A h \in Authorising : SpentMap[h] # q
  <2>1. ASSUME NEW h \in Authorising, RunsOf(h) # {} PROVE TheRun(RunsOf(h)) # q
    <3>1. RunsOf(h) \subseteq Enqueuing \ {q}
      BY <1>5 DEF RunsOf
    <3>2. TheRun(RunsOf(h)) \in RunsOf(h)
      BY <2>1, <3>1 DEF TheRun
    <3>. QED
      BY <3>1, <3>2
  <2>2. q # NoRow
    BY <1>1, NoRowAssumption
  <2>. QED
    BY <2>1, <2>2 DEF SpentMap
<1>11. SpentMap[g] = NoRow /\ SpentMap' = [SpentMap EXCEPT ![g] = q]
  <2>1. TheRun({q}) = q
    BY <1>1 DEF TheRun
  <2>. QED
    BY <1>9, <2>1 DEF SpentMap
<1>k. PICK k \in Keys : k = ask[q].key
  BY <1>5
<1>12. /\ records[<<OwnerMap[g], "runs", k>>] = NoRow
       /\ records' = [records EXCEPT ![<<OwnerMap[g], "runs", k>>]
                        = [body |-> g, id |-> q]]
  BY <1>1, <1>2, <1>5, <1>8, <1>k DEF Recorded
<1>13. Ledger!Spend(g, q, k)
  <2>1. /\ OwnerMap[g] \in Actors /\ SpentMap[g] = NoRow
        /\ \A other \in Authorising : SpentMap[other] # q
        /\ SpentMap' = [SpentMap EXCEPT ![g] = q]
        /\ records[<<OwnerMap[g], "runs", k>>] = NoRow
        /\ records' = [records EXCEPT ![<<OwnerMap[g], "runs", k>>]
                         = [body |-> g, id |-> q]]
        /\ UNCHANGED OwnerMap
    BY <1>5, <1>8, <1>10, <1>11, <1>12
  <2>. QED
    BY <2>1, LedgerSteps, Zenon
<1>. QED
  BY <1>1, <1>13 DEF Ledger!Next

(* Both routes, with everything that can go wrong between two statements,  *)
(* do what GrantLedger says and no more.                                   *)
THEOREM LedgerImplemented == Spec => ImplementsLedger
<1>1. ASSUME Init PROVE Ledger!Init
  <2>1. \A g \in Authorising : RunsOf(g) = {}
    BY <1>1 DEF Init, RunsOf
  <2>. QED
    BY <1>1, <2>1 DEF Init, Ledger!Init, Ledger!Routes, Entries, Routes
<1>2. ASSUME JInv, [Next]_vars PROVE [Ledger!Next]_(Ledger!vars)
  <2>1. CASE UNCHANGED tables
    <3>1. UNCHANGED <<OwnerMap, SpentMap, records>>
      BY <2>1 DEF OwnerMap, SpentMap, RunsOf, tables
    <3>. QED
      BY <3>1, LedgerSteps
  <2>2. ASSUME NEW g \in Authorising, Expire(g) PROVE UNCHANGED Ledger!vars
    <3>1. grants[g] # NoRow /\ grants[g] \in Grant
          /\ grants' = [grants EXCEPT ![g] = Expired(grants[g])]
          /\ runs' = runs /\ records' = records
      BY <1>2, <2>2 DEF Expire, JInv, IInv, TypeOK
    <3>2. /\ Expired(grants[g]) # NoRow
          /\ Expired(grants[g]).actor = grants[g].actor
      BY <3>1, RowKept, ExpiredRow
    <3>3. UNCHANGED OwnerMap
      BY <1>2, <3>1, <3>2 DEF OwnerMap, JInv, IInv, TypeOK
    <3>4. UNCHANGED SpentMap
      BY <3>1 DEF SpentMap, RunsOf
    <3>. QED
      BY <3>1, <3>3, <3>4, LedgerSteps
  <2>3. ASSUME NEW q \in Requests, CommitGrant(q) \/ CommitRun(q) PROVE Ledger!Next
    BY <1>2, <2>3, CommitIssues, CommitSpends, NextIInv DEF JInv
  <2>4. ASSUME NEW q \in Requests, Quiet(q) PROVE UNCHANGED tables
    BY <1>2, <2>4, QuietTables
  <2>. QED
    BY <1>2, <2>1, <2>2, <2>3, <2>4
    DEF Next, Step, Quiet, IssueGrant, StartRun, LoseAcknowledgement, vars
<1>. QED
  BY <1>1, <1>2, InitJInv, NextJInv, PTL DEF Spec, ImplementsLedger, Ledger!Spec
============================================================================

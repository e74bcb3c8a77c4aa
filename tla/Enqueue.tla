------------------------------ MODULE Enqueue ------------------------------
(***************************************************************************)
(* How a run comes to be: CreateAuthorisation issues a one-use grant,      *)
(* EnqueueRunHttp and EnqueueRun spend it on a run, and http_idempotency   *)
(* keeps the answer given to each key.                                     *)
(*                                                                         *)
(* Each request is one process that moves statement by statement.  What it *)
(* reads before BEGIN is not locked.  Inside a transaction it holds a row  *)
(* lock on the grant it consumes and, for each unique index it inserted    *)
(* into, the key of its uncommitted row: another transaction that touches  *)
(* the same row or inserts the same key waits for it to end.  A request    *)
(* that is sent again is another process with the same actor, key, body.   *)
(*                                                                         *)
(* An actor stands for the (organisation, actor) pair of an API process.   *)
(* The uuid of a row is the request that inserts it: a request inserts at  *)
(* most one.  A request digest is the body it digests.                     *)
(***************************************************************************)
EXTENDS Naturals, FiniteSets

CONSTANTS
  Authorising,  \* POST /v1/authorisations requests
  Enqueuing,    \* POST /v1/runs requests
  Actors,       \* identities of the API processes
  Keys,         \* values of the Idempotency-Key header
  Bodies,       \* bodies of an authorisation request that parse: any other is
                \* refused before the store is asked anything
  Outcomes,     \* what the checks of a body may end in, 201 when it is sound:
                \* that its window lies in the past becomes true with time
  NoRow         \* no such row; no value

ASSUME RequestsAssumption == Authorising \cap Enqueuing = {}

ASSUME OutcomesAssumption == Outcomes \in [Bodies -> SUBSET {201, 400, 404}]

ASSUME NoRowAssumption ==
  NoRow \notin Actors \cup Keys \cup Bodies \cup Authorising \cup Enqueuing

VARIABLES
  grants,   \* authorisation_grants, committed rows
  runs,     \* assurance_runs, committed rows
  records,  \* http_idempotency, committed rows
  pc,       \* where each request is
  ask,      \* its actor, key and body
  held,     \* the row and index locks of its open transaction
  timely,   \* its transaction began before the grant expired
  error,    \* the status of the error that aborted its transaction
  reply     \* the status and the id it was answered

tables == <<grants, runs, records>>
vars == <<tables, pc, ask, held, timely, error, reply>>

Requests == Authorising \cup Enqueuing

Routes == {"authorisations", "runs"}

Entries == Actors \X Routes \X Keys

Grant == [actor : Actors, key : Keys, body : Bodies,
          consumed : BOOLEAN, expired : BOOLEAN]

Run == [grant : Authorising, actor : Actors, key : Keys]

Record == [body : Bodies \cup Authorising, id : Requests]

ASSUME RowsAssumption == NoRow \notin Grant \cup Run \cup Record

Points == {"idle", "lookup", "check", "find", "begin", "backfill", "consume",
           "insert", "record", "commit", "reread", "fetch", "done"}

\* 0: not answered.  500 stands for an answer that never arrives, too.
Status == {0, 201, 400, 404, 409, 500}

\* A row is locked, or an uncommitted row holds a key of a unique index.
Locks == ({"grant"} \X Authorising) \cup ({"grant key", "run key"} \X Keys)
           \cup ({"record"} \X Entries)

Init == /\ grants = [g \in Authorising |-> NoRow]
        /\ runs = [r \in Enqueuing |-> NoRow]
        /\ records = [entry \in Entries |-> NoRow]
        /\ pc = [q \in Requests |-> "idle"]
        /\ ask = [q \in Requests |->
                   [actor |-> NoRow, key |-> NoRow, body |-> NoRow]]
        /\ held = [q \in Requests |-> {}]
        /\ timely = [q \in Requests |-> FALSE]
        /\ error = [q \in Requests |-> 0]
        /\ reply = [q \in Requests |-> [status |-> 0, id |-> NoRow]]
----------------------------------------------------------------------------
(* Rows, locks and answers.                                                *)

Entry(q) ==
  <<ask[q].actor, IF q \in Authorising THEN "authorisations" ELSE "runs",
    ask[q].key>>

SameRequest(q, row) == row.body = ask[q].body

GrantRow(g) == <<"grant", g>>
GrantKey(q) == <<"grant key", ask[q].key>>
RunKey(q) == <<"run key", ask[q].key>>
RecordEntry(q) == <<"record", Entry(q)>>

Free(q, lock) == \A other \in Requests \ {q} : lock \notin held[other]

Lock(q, lock) == /\ Free(q, lock)
                 /\ held' = [held EXCEPT ![q] = @ \cup {lock}]

LeaveTransactionOpen(q) == UNCHANGED held

EndTransaction(q) == held' = [held EXCEPT ![q] = {}]

Goto(q, point) == /\ pc' = [pc EXCEPT ![q] = point]
                  /\ UNCHANGED reply

Answer(q, status, id) ==
  /\ pc' = [pc EXCEPT ![q] = "done"]
  /\ reply' = [reply EXCEPT ![q] = [status |-> status, id |-> id]]

\* The run of a client key: UNIQUE, over all actors.
RunsOfKey(q) ==
  {r \in Enqueuing : runs[r] # NoRow /\ runs[r].key = ask[q].key}

SameRun(q, r) == runs[r].grant = ask[q].body
----------------------------------------------------------------------------
(* What both routes do first.                                              *)

Receive(q) ==
  /\ pc[q] = "idle"
  /\ \E a \in Actors, k \in Keys,
        body \in (IF q \in Authorising THEN Bodies ELSE Authorising) :
       ask' = [ask EXCEPT ![q] = [actor |-> a, key |-> k, body |-> body]]
  /\ Goto(q, "lookup")
  /\ UNCHANGED <<tables, held, timely, error>>

\* The grant and the run a record names were committed with it and are
\* never deleted: reading them next finds them.
LookUp(q) ==
  /\ pc[q] = "lookup"
  /\ LET row == records[Entry(q)] IN
     \/ row = NoRow /\ Goto(q, "check")
     \/ row # NoRow /\ SameRequest(q, row) /\ Answer(q, 201, row.id)
     \/ row # NoRow /\ ~SameRequest(q, row) /\ Answer(q, 409, NoRow)
  /\ UNCHANGED <<tables, ask, held, timely, error>>

OwnsOrNot(q, g) == grants[g] # NoRow

Owns(q, g) == grants[g] # NoRow /\ grants[g].actor = ask[q].actor

Check(q) ==
  /\ pc[q] = "check"
  /\ \/ /\ q \in Authorising
        /\ \E status \in Outcomes[ask[q].body] :
             IF status = 201 THEN Goto(q, "begin") ELSE Answer(q, status, NoRow)
     \/ /\ q \in Enqueuing
        /\ IF Owns(q, ask[q].body) THEN Goto(q, "find")
           ELSE Answer(q, 404, NoRow)
  /\ UNCHANGED <<tables, ask, held, timely, error>>

\* now() of the transaction is this moment, whatever it waits for later.
Begin(q) ==
  /\ pc[q] = "begin"
  /\ \/ q \in Authorising /\ Goto(q, "insert") /\ UNCHANGED timely
     \/ /\ q \in Enqueuing /\ Goto(q, "consume")
        /\ timely' = [timely EXCEPT ![q] = ~grants[ask[q].body].expired]
  /\ UNCHANGED <<tables, ask, held, error>>

Spent(row) == [row EXCEPT !.consumed = TRUE]

ConsumptionKept(q) ==
  IF GrantRow(ask[q].body) \in held[q]
    THEN [grants EXCEPT ![ask[q].body] = Spent(grants[ask[q].body])]
    ELSE grants

\* Nothing an open transaction wrote is in the tables.
RolledBack(q) == grants

Rollback(q) == /\ grants' = RolledBack(q)
               /\ EndTransaction(q)
               /\ UNCHANGED <<runs, records>>

\* An error of a statement: ROLLBACK, then the handler of execute.
Abort(q, status) ==
  /\ Rollback(q)
  /\ error' = [error EXCEPT ![q] = status]
  /\ Goto(q, "reread")

Conflicts(q) ==
  records[Entry(q)] # NoRow /\ ~SameRequest(q, records[Entry(q)])

\* putHttpIdempotency: ON CONFLICT DO NOTHING, then the digests are compared.
PutRecord(q) ==
  /\ pc[q] = "record"
  /\ Free(q, RecordEntry(q))
  /\ IF ~Conflicts(q)
       THEN Lock(q, RecordEntry(q)) /\ Goto(q, "commit")
            /\ UNCHANGED <<tables, error>>
       ELSE IF q \in Authorising THEN Abort(q, 409)
       ELSE Rollback(q) /\ Answer(q, 409, NoRow) /\ UNCHANGED error
  /\ UNCHANGED <<ask, timely>>

RecordLeftOut(q, id) == records

RecordWithoutId(q, id) ==
  [records EXCEPT ![Entry(q)] = [body |-> ask[q].body, id |-> NoRow]]

Recorded(q, id) ==
  IF records[Entry(q)] # NoRow THEN records
  ELSE [records EXCEPT ![Entry(q)] = [body |-> ask[q].body, id |-> id]]
----------------------------------------------------------------------------
(* CreateAuthorisation.                                                    *)

\* insertTimedGrant: a client key is UNIQUE over all actors.
KeyTaken(q) ==
  \E g \in Authorising : grants[g] # NoRow /\ grants[g].key = ask[q].key

InsertGrant(q) ==
  /\ pc[q] = "insert" /\ q \in Authorising
  /\ Free(q, GrantKey(q))
  /\ \/ KeyTaken(q) /\ Abort(q, 409)
     \/ /\ ~KeyTaken(q)
        /\ Lock(q, GrantKey(q))
        /\ Goto(q, "record")
        /\ UNCHANGED <<tables, error>>
  /\ UNCHANGED <<ask, timely>>

CommitGrant(q) ==
  /\ pc[q] = "commit" /\ q \in Authorising
  /\ grants' = [grants EXCEPT ![q] =
                  [actor |-> ask[q].actor, key |-> ask[q].key,
                   body |-> ask[q].body, consumed |-> FALSE,
                   expired |-> FALSE]]
  /\ records' = Recorded(q, q)
  /\ EndTransaction(q)
  /\ UNCHANGED <<runs, ask, timely, error>>

\* The body answered is the one of the inserted grant.
IssueGrant(q) == CommitGrant(q) /\ Answer(q, 201, q)

ReplaysRecord(q) ==
  records[Entry(q)] # NoRow /\ SameRequest(q, records[Entry(q)])

RereadRecord(q) ==
  /\ pc[q] = "reread" /\ q \in Authorising
  /\ IF ReplaysRecord(q) THEN Answer(q, 201, records[Entry(q)].id)
     ELSE Answer(q, 409, NoRow)
  /\ UNCHANGED <<tables, ask, held, timely, error>>
----------------------------------------------------------------------------
(* EnqueueRun.                                                             *)

FindRun(q) ==
  /\ pc[q] = "find"
  /\ \/ RunsOfKey(q) = {} /\ Goto(q, "begin")
     \/ \E r \in RunsOfKey(q) :
          IF SameRun(q, r) THEN Goto(q, "backfill")
          ELSE Answer(q, 409, NoRow)
  /\ UNCHANGED <<tables, ask, held, timely, error>>

\* The transaction of one statement that records an answer for a run found.
Backfill(q) ==
  /\ pc[q] = "backfill"
  /\ Free(q, RecordEntry(q))
  /\ IF Conflicts(q) THEN Answer(q, 409, NoRow) /\ UNCHANGED records
     ELSE /\ \E r \in RunsOfKey(q) : records' = Recorded(q, r)
          /\ Goto(q, "fetch")
  /\ UNCHANGED <<grants, runs, ask, held, timely, error>>

\* A grant that does not match is skipped without waiting for its lock.
ConsumeGrant(q) ==
  /\ pc[q] = "consume"
  /\ LET g == ask[q].body IN
     \/ /\ ~timely[q] \/ grants[g].consumed
        /\ Abort(q, 400)
     \/ /\ timely[q] /\ ~grants[g].consumed
        /\ Lock(q, GrantRow(g))
        /\ Goto(q, "insert")
        /\ UNCHANGED <<tables, error>>
  /\ UNCHANGED <<ask, timely>>

\* insertRun, insertSteps, lockRun and the four appendEvents: after the
\* first of them, the others only touch rows nobody else can see.
InsertRun(q) ==
  /\ pc[q] = "insert" /\ q \in Enqueuing
  /\ Free(q, RunKey(q))
  /\ LET taken == RunsOfKey(q) # {}
                   \/ \E r \in Enqueuing :
                        runs[r] # NoRow /\ runs[r].grant = ask[q].body IN
     \/ taken /\ Abort(q, 409)
     \/ /\ ~taken
        /\ Lock(q, RunKey(q))
        /\ Goto(q, "record")
        /\ UNCHANGED <<tables, error>>
  /\ UNCHANGED <<ask, timely>>

CommitRun(q) ==
  /\ pc[q] = "commit" /\ q \in Enqueuing
  /\ grants' = [grants EXCEPT ![ask[q].body] = Spent(grants[ask[q].body])]
  /\ runs' = [runs EXCEPT ![q] =
                [grant |-> ask[q].body, key |-> ask[q].key,
                 actor |-> grants[ask[q].body].actor]]
  /\ records' = Recorded(q, q)
  /\ EndTransaction(q)
  /\ UNCHANGED <<ask, timely, error>>

StartRun(q) == CommitRun(q) /\ Goto(q, "fetch")

NoReplay(q, r) == FALSE

Replays(q, r) == SameRun(q, r)

RereadRun(q) ==
  /\ pc[q] = "reread" /\ q \in Enqueuing
  /\ IF \E r \in RunsOfKey(q) : Replays(q, r) THEN Goto(q, "fetch")
     ELSE Answer(q, error[q], NoRow)
  /\ UNCHANGED <<tables, ask, held, timely, error>>

\* The answer is read back; without it InvariantViolationError, 500.
FetchRecord(q) ==
  /\ pc[q] = "fetch"
  /\ LET row == records[Entry(q)] IN
     IF row = NoRow THEN Answer(q, 500, NoRow) ELSE Answer(q, 201, row.id)
  /\ UNCHANGED <<tables, ask, held, timely, error>>
----------------------------------------------------------------------------
(* Faults and the specification.                                           *)

\* A statement fails, the API process dies or the client hangs up.
Fail(q) ==
  /\ pc[q] \notin {"idle", "done"}
  /\ Rollback(q)
  /\ Answer(q, 500, NoRow)
  /\ UNCHANGED <<ask, timely, error>>

\* COMMIT took effect, but its result never arrived.
LoseAcknowledgement(q) ==
  /\ CommitGrant(q) \/ CommitRun(q)
  /\ Answer(q, 500, NoRow)

Expired(row) == [row EXCEPT !.expired = TRUE]

\* expires_at passes, GRANT_TTL_SECONDS after the grant was made.
Expire(g) ==
  /\ grants[g] # NoRow /\ ~grants[g].expired
  /\ grants' = [grants EXCEPT ![g] = Expired(grants[g])]
  /\ UNCHANGED <<runs, records, pc, ask, held, timely, error, reply>>

Step(q) ==
  \/ LookUp(q) \/ Check(q) \/ Begin(q) \/ PutRecord(q)
  \/ InsertGrant(q) \/ IssueGrant(q) \/ RereadRecord(q)
  \/ FindRun(q) \/ Backfill(q) \/ ConsumeGrant(q) \/ InsertRun(q)
  \/ StartRun(q) \/ RereadRun(q) \/ FetchRecord(q)

Next == \/ \E q \in Requests : \/ Receive(q) \/ Step(q)
                               \/ Fail(q) \/ LoseAcknowledgement(q)
        \/ \E g \in Authorising : Expire(g)

Spec == Init /\ [][Next]_vars
============================================================================

------------------------- MODULE EnqueueProperties -------------------------
(* What must hold of authorising and enqueuing, whatever the interleaving. *)
EXTENDS Enqueue

TypeOK ==
  /\ grants \in [Authorising -> Grant \cup {NoRow}]
  /\ runs \in [Enqueuing -> Run \cup {NoRow}]
  /\ records \in [Entries -> Record \cup {NoRow}]
  /\ pc \in [Requests -> Points]
  /\ ask \in [Requests -> [actor : Actors \cup {NoRow}, key : Keys \cup {NoRow},
                           body : Bodies \cup Authorising \cup {NoRow}]]
  /\ held \in [Requests -> SUBSET Locks]
  /\ timely \in [Requests -> BOOLEAN]
  /\ error \in [Requests -> {0, 400, 409}]
  /\ reply \in [Requests -> [status : Status, id : Requests \cup {NoRow}]]

RunsOf(g) == {r \in Enqueuing : runs[r] # NoRow /\ runs[r].grant = g}

(* A grant is spent exactly when one run, and no second one, was made of   *)
(* it, also when the transaction that consumed it failed later on          *)
(* (consumeGrant, insertRun and the ROLLBACK of withTransaction).          *)
SpentMeansOneRun ==
  \A g \in Authorising :
    IF grants[g] # NoRow /\ grants[g].consumed
    THEN \E r \in Enqueuing : RunsOf(g) = {r}
    ELSE RunsOf(g) = {}

(* Two requests of one actor under one key that are both answered 201      *)
(* asked for the same thing and were given the same thing (the lookups of  *)
(* execute and the replay after a lost race).                              *)
OneAnswerPerKey(p, q) ==
  /\ reply[p].status = 201 /\ reply[q].status = 201
  /\ Entry(p) = Entry(q)
  => ask[p].body = ask[q].body /\ reply[p].id = reply[q].id

(* A 201 names a row that exists, was made for this body and belongs to    *)
(* this actor: no request is answered with what another actor authorised.  *)
AnswerIsTrue(q) ==
  reply[q].status = 201 =>
    \/ /\ q \in Authorising /\ grants[reply[q].id] # NoRow
       /\ grants[reply[q].id].body = ask[q].body
       /\ grants[reply[q].id].actor = ask[q].actor
    \/ /\ q \in Enqueuing /\ runs[reply[q].id] # NoRow
       /\ runs[reply[q].id].grant = ask[q].body
       /\ runs[reply[q].id].actor = ask[q].actor

(* What a client is told of its write is so, however often it asks.        *)
AnswersStand ==
  \A q \in Requests :
    AnswerIsTrue(q) /\ \A p \in Requests : OneAnswerPerKey(p, q)

(* 409 is answered only when the key already stands for something else: a  *)
(* request that lost the race against another send of itself is replayed,  *)
(* never refused (the catch blocks of both execute methods).               *)
ConflictHasACause(q) ==
  reply[q].status = 409 =>
    \/ /\ q \in Authorising
       /\ \E g \in Authorising :
            /\ grants[g] # NoRow /\ grants[g].key = ask[q].key
            /\ \/ grants[g].actor # ask[q].actor
               \/ grants[g].body # ask[q].body
    \/ /\ q \in Enqueuing
       /\ \E r \in RunsOfKey(q) : ~SameRun(q, r)

(* An enqueue is refused for its grant only when that grant has expired or *)
(* went to a run of another key, never because an earlier send of the same *)
(* request consumed it (EnqueueRun's replay on GrantNotConsumableError).   *)
RefusedGrantWasGone(q) ==
  reply[q].status = 400 =>
    \/ q \in Authorising
    \/ LET g == grants[ask[q].body] IN
       \/ g.expired
       \/ /\ g.consumed
          /\ \A r \in RunsOf(ask[q].body) : runs[r].key # ask[q].key

(* EnqueueRunHttp always finds the answer it reads back after EnqueueRun,  *)
(* so its InvariantViolationError is never thrown (enqueue-run-http.ts:60).*)
AnswerIsThereToFetch(q) == pc[q] = "fetch" => records[Entry(q)] # NoRow

(* Nobody is turned away without a cause that outlasts the race he lost.   *)
RefusalsHaveACause ==
  \A q \in Requests : /\ ConflictHasACause(q) /\ RefusedGrantWasGone(q)
                      /\ AnswerIsThereToFetch(q)

\* The locks the next statement of a request asks for.
Wants(q) ==
  CASE pc[q] \in {"record", "backfill"}            -> {RecordEntry(q)}
    [] pc[q] = "insert" /\ q \in Authorising       -> {GrantKey(q)}
    [] pc[q] = "insert" /\ q \in Enqueuing         -> {RunKey(q)}
    [] pc[q] = "consume" /\ timely[q]
         /\ ~grants[ask[q].body].consumed          -> {GrantRow(ask[q].body)}
    [] OTHER                                       -> {}

WaitsFor(q, other) == other # q /\ Wants(q) \cap held[other] # {}

(* Whoever waits gets the lock in the end: of any who wait, one waits for  *)
(* none of them, and who holds a lock is inside its transaction, to whose  *)
(* end the lock goes (withTransaction).                                    *)
NobodyWaitsForEver ==
  /\ \A group \in (SUBSET Requests) \ {{}} :
       \E q \in group : \A other \in group : ~WaitsFor(q, other)
  /\ \A q \in Requests : held[q] # {} => pc[q] \in {"insert", "record", "commit"}

Ledger == INSTANCE GrantLedger WITH
  GrantIds <- Authorising,
  RunIds <- Enqueuing,
  Nothing <- NoRow,
  owner <- [g \in Authorising |->
             IF grants[g] = NoRow THEN NoRow ELSE grants[g].actor],
  spentOn <- [g \in Authorising |->
               IF RunsOf(g) = {} THEN NoRow
               ELSE CHOOSE r \in Enqueuing : r \in RunsOf(g)],
  settled <- records

(* Statement by statement, with failures in between, the two routes do no  *)
(* more than issue grants and spend each once, settling one key each time. *)
ImplementsLedger == Ledger!Spec
============================================================================

--------------------------- MODULE MigratorProofs ---------------------------
(***************************************************************************)
(* For any number of processes and migrations.  What is applied is always  *)
(* a prefix of the migrations (Prefix), a process that migrates up has     *)
(* everything below its migration behind it, and one that migrates down is *)
(* alone and stands at the end of the prefix (Places).                     *)
(***************************************************************************)
EXTENDS Migrator, TLAPS

Up == {"look", "create", "created", "recorded"}

Down == {"drop", "dropped"}

Types ==
  /\ schema \subseteq Migrations
  /\ pc \in [Processes -> {"idle", "failed"} \cup Up \cup Down]
  /\ at \in [Processes -> 0..Last]
  /\ raced \subseteq Processes

Prefix == ledger = schema /\ \E n \in 0..Last : schema = 1..n

Places ==
  \A p \in Processes :
    /\ pc[p] \in Up => at[p] \in Migrations /\ 1..(at[p] - 1) \subseteq schema
    /\ pc[p] \in Down => /\ at[p] \in Migrations /\ schema = 1..at[p]
                         /\ \A q \in Processes \ {p} : ~Running(q)

\* Who runs beside another, or finds an object there, was not alone.
Races ==
  \A p \in Processes :
    /\ pc[p] = "failed" => p \in raced
    /\ pc[p] = "create" /\ at[p] \in schema => p \in raced
    /\ Running(p) => \A q \in Processes \ {p} : Running(q) => p \in raced

MInv == Types /\ Prefix /\ Places /\ Races
----------------------------------------------------------------------------
(* One process goes to a statement, the others stay where they are.        *)
LEMMA OneGoes ==
  ASSUME MInv, NEW p \in Processes, NEW stage, NEW migration, Go(p, stage, migration)
  PROVE  /\ pc'[p] = stage /\ at'[p] = migration
         /\ \A q \in Processes \ {p} : pc'[q] = pc[q] /\ at'[q] = at[q]
         /\ stage \in {"idle", "failed"} \cup Up \cup Down =>
              pc' \in [Processes -> {"idle", "failed"} \cup Up \cup Down]
         /\ migration \in 0..Last => at' \in [Processes -> 0..Last]
BY DEF Go, MInv, Types

(* To go from one migration to the next, or to the end, moves nothing else *)
(* and leaves the process a place where all below it is applied.           *)
LEMMA GoesOn ==
  ASSUME MInv, NEW p \in Processes, pc[p] \in Up, GoOn(p)
  PROVE  \E stage \in {"idle", "look"}, migration \in 0..Last :
           /\ Go(p, stage, migration)
           /\ stage = "look" => migration = at[p] + 1
<1>1. Last \in Nat /\ at[p] \in 1..Last
  BY MigrationsAssumption DEF MInv, Places, Migrations
<1>2. CASE at[p] = Last
  BY <1>1, <1>2 DEF GoOn
<1>3. CASE at[p] # Last
  BY <1>1, <1>3 DEF GoOn
<1>. QED
  BY <1>2, <1>3

(* A process that goes on, or stops, while the database stays as it is.    *)
LEMMA WalkKeeps ==
  ASSUME MInv, NEW p \in Processes, Running(p),
         NEW stage \in {"idle", "failed"} \cup Up \cup Down, NEW migration \in 0..Last,
         Go(p, stage, migration), UNCHANGED <<schema, ledger, raced>>,
         stage \in Up => /\ pc[p] \in Up /\ migration \in Migrations
                         /\ 1..(migration - 1) \subseteq schema,
         stage \in Down => pc[p] \in Down /\ migration = at[p],
         stage = "failed" => p \in raced,
         stage = "create" => migration \notin schema
  PROVE  MInv'
<1>1. /\ pc'[p] = stage /\ at'[p] = migration
      /\ \A q \in Processes \ {p} : pc'[q] = pc[q] /\ at'[q] = at[q]
      /\ pc' \in [Processes -> {"idle", "failed"} \cup Up \cup Down]
      /\ at' \in [Processes -> 0..Last]
  BY OneGoes
<1>2. Types' /\ Prefix'
  BY <1>1 DEF MInv, Types, Prefix
<1>3. \A q \in Processes : Running(q)' => Running(q)
  BY <1>1 DEF Running
<1>4. Places'
  <2>1. ASSUME NEW q \in Processes, pc'[q] \in Up
        PROVE  at'[q] \in Migrations /\ 1..(at'[q] - 1) \subseteq schema'
    BY <1>1, <2>1 DEF MInv, Places
  <2>2. ASSUME NEW q \in Processes, pc'[q] \in Down
        PROVE  /\ at'[q] \in Migrations /\ schema' = 1..at'[q]
               /\ \A r \in Processes \ {q} : ~Running(r)'
    <3>1. pc[q] \in Down /\ at'[q] = at[q]
      BY <1>1, <2>2
    <3>. QED
      BY <1>3, <3>1 DEF MInv, Places
  <2>. QED
    BY <2>1, <2>2 DEF Places
<1>5. Races'
  <2>1. ASSUME NEW q \in Processes, pc'[q] = "failed" PROVE q \in raced'
    BY <1>1, <2>1 DEF MInv, Races
  <2>2. ASSUME NEW q \in Processes, pc'[q] = "create", at'[q] \in schema' PROVE q \in raced'
    BY <1>1, <2>2 DEF MInv, Races
  <2>3. ASSUME NEW q \in Processes, Running(q)', NEW r \in Processes \ {q}, Running(r)'
        PROVE  q \in raced'
    BY <1>3, <2>3 DEF MInv, Races
  <2>. QED
    BY <2>1, <2>2, <2>3 DEF Races
<1>. QED
  BY <1>2, <1>4, <1>5 DEF MInv

(* migrateUp starts, while nobody migrates down.                           *)
LEMMA StartUpKeeps ==
  ASSUME MInv, NEW p \in Processes, StartUp(p)
  PROVE  MInv'
<1>1. /\ Go(p, "look", 1) /\ UNCHANGED <<schema, ledger>>
      /\ \A q \in Processes : pc[q] \notin Down
      /\ raced' = IF Others(p) = {} THEN raced \ {p} ELSE raced \cup Others(p) \cup {p}
      /\ 1 \in 0..Last /\ 1 \in Migrations
  BY MigrationsAssumption DEF StartUp, Down, Migrations
<1>2. /\ pc'[p] = "look" /\ at'[p] = 1
      /\ \A q \in Processes \ {p} : pc'[q] = pc[q] /\ at'[q] = at[q]
      /\ pc' \in [Processes -> {"idle", "failed"} \cup Up \cup Down]
      /\ at' \in [Processes -> 0..Last]
  BY <1>1, OneGoes DEF Up
<1>3. \A q \in Processes \ {p} : /\ Running(q)' <=> Running(q)
                                 /\ Running(q) <=> q \in Others(p)
  BY <1>2 DEF Running, Others
<1>4. raced' \subseteq Processes /\ raced \ {p} \subseteq raced'
  BY <1>1 DEF MInv, Types, Others
<1>5. Types' /\ Prefix'
  BY <1>1, <1>2, <1>4 DEF MInv, Types, Prefix
<1>6. Places'
  <2>1. ASSUME NEW q \in Processes, pc'[q] \in Up
        PROVE  at'[q] \in Migrations /\ 1..(at'[q] - 1) \subseteq schema'
    <3>1. CASE q = p
      <4>1. 1..(1 - 1) = {}
        OBVIOUS
      <4>. QED
        BY <1>1, <1>2, <3>1, <4>1
    <3>2. CASE q # p
      BY <1>1, <1>2, <2>1, <3>2 DEF MInv, Places
    <3>. QED
      BY <3>1, <3>2
  <2>2. \A q \in Processes : pc'[q] \notin Down
    BY <1>1, <1>2 DEF Down
  <2>. QED
    BY <2>1, <2>2 DEF Places
<1>7. Races'
  <2>1. ASSUME NEW q \in Processes, pc'[q] = "failed" PROVE q \in raced'
    BY <1>2, <1>4, <2>1 DEF MInv, Races
  <2>2. ASSUME NEW q \in Processes, pc'[q] = "create", at'[q] \in schema' PROVE q \in raced'
    BY <1>1, <1>2, <1>4, <2>2 DEF MInv, Races
  <2>3. ASSUME NEW q \in Processes, Running(q)', NEW r \in Processes \ {q}, Running(r)'
        PROVE  q \in raced'
    <3>1. CASE Others(p) = {}
      BY <1>3, <2>3, <3>1
    <3>2. CASE Others(p) # {}
      <4>1. q = p \/ q \in Others(p)
        BY <1>3, <2>3
      <4>. QED
        BY <1>1, <3>2, <4>1
    <3>. QED
      BY <3>1, <3>2
  <2>. QED
    BY <2>1, <2>2, <2>3 DEF Races
<1>. QED
  BY <1>5, <1>6, <1>7 DEF MInv

(* The last of a prefix is the end of it.                                  *)
LEMMA NewestIsTheEnd ==
  ASSUME NEW n \in Nat \ {0}
  PROVE  Newest(1..n) = n
<1>1. \E id \in 1..n : \A other \in 1..n : other <= id
  BY n \in 1..n
<1>2. /\ Newest(1..n) \in 1..n
      /\ \A other \in 1..n : other <= Newest(1..n)
  BY <1>1 DEF Newest
<1>. QED
  BY <1>2

(* migrateDown starts where the prefix ends.                               *)
LEMMA StartDownKeeps ==
  ASSUME MInv, NEW p \in Processes, StartDown(p)
  PROVE  MInv'
<1>1. /\ Others(p) = {} /\ ledger # {} /\ Go(p, "drop", Newest(ledger))
      /\ raced' = raced \ {p} /\ UNCHANGED <<schema, ledger>>
  BY DEF StartDown, appliedMigrationIds
<1>2. PICK n \in 1..Last : schema = 1..n /\ ledger = 1..n
  BY <1>1, MigrationsAssumption DEF MInv, Prefix
<1>3. Newest(ledger) = n /\ n \in 0..Last /\ n \in Migrations
  BY <1>2, NewestIsTheEnd, MigrationsAssumption DEF Migrations
<1>4. /\ pc'[p] = "drop" /\ at'[p] = n
      /\ \A q \in Processes \ {p} : pc'[q] = pc[q] /\ at'[q] = at[q]
      /\ pc' \in [Processes -> {"idle", "failed"} \cup Up \cup Down]
      /\ at' \in [Processes -> 0..Last]
  BY <1>1, <1>3, OneGoes DEF Down
<1>5. \A q \in Processes \ {p} : ~Running(q) /\ ~Running(q)'
  BY <1>1, <1>4 DEF Running, Others
<1>6. Types' /\ Prefix'
  BY <1>1, <1>4 DEF MInv, Types, Prefix
<1>7. Places'
  BY <1>1, <1>2, <1>3, <1>4, <1>5 DEF Places, Running, Up, Down
<1>8. Races'
  BY <1>1, <1>4, <1>5 DEF MInv, Races, Running
<1>. QED
  BY <1>6, <1>7, <1>8 DEF MInv

(* A migration is committed.                                               *)
LEMMA CommitKeeps ==
  ASSUME MInv, NEW p \in Processes, Commit(p)
  PROVE  MInv'
<1>1. /\ pc[p] = "recorded" /\ GoOn(p) /\ schema' = schema \cup {at[p]}
      /\ ledger' = ledger \cup {at[p]} /\ raced' = raced
      /\ at[p] \in Migrations /\ 1..(at[p] - 1) \subseteq schema
  BY DEF Commit, MInv, Places, Up
<1>2. PICK stage \in {"idle", "look"}, migration \in 0..Last :
        /\ Go(p, stage, migration)
        /\ stage = "look" => migration = at[p] + 1
  BY <1>1, GoesOn DEF Up
<1>3. /\ pc'[p] = stage /\ at'[p] = migration
      /\ \A q \in Processes \ {p} : pc'[q] = pc[q] /\ at'[q] = at[q]
      /\ pc' \in [Processes -> {"idle", "failed"} \cup Up \cup Down]
      /\ at' \in [Processes -> 0..Last]
  BY <1>2, OneGoes DEF Up
<1>4. \A q \in Processes : Running(q)' => Running(q)
  BY <1>1, <1>3 DEF Running
<1>5. \A q \in Processes : pc[q] \notin Down
  BY <1>1 DEF MInv, Places, Running, Down
<1>6. Types'
  BY <1>1, <1>3 DEF MInv, Types
<1>7. Prefix'
  <2>1. PICK n \in 0..Last : schema = 1..n /\ ledger = schema
    BY DEF MInv, Prefix
  <2>2. PICK m \in 1..Last : m = at[p]
    BY <1>1 DEF Migrations
  <2>3. 1..(m - 1) \subseteq 1..n
    BY <1>1, <2>1, <2>2
  <2>4. m - 1 <= n
    BY <2>1, <2>2, <2>3, MigrationsAssumption
  <2>5. \E k \in 0..Last : (1..n) \cup {m} = 1..k
    <3>1. CASE m <= n
      BY <2>2, <3>1, MigrationsAssumption
    <3>2. CASE m = n + 1
      <4>1. (1..n) \cup {m} = 1..m
        BY <2>2, <3>2, MigrationsAssumption
      <4>. QED
        BY <4>1, MigrationsAssumption
    <3>. QED
      BY <2>2, <2>4, <3>1, <3>2, MigrationsAssumption
  <2>. QED
    BY <1>1, <2>1, <2>2, <2>5 DEF Prefix
<1>8. Places'
  <2>1. ASSUME NEW q \in Processes, pc'[q] \in Up
        PROVE  at'[q] \in Migrations /\ 1..(at'[q] - 1) \subseteq schema'
    <3>1. CASE q = p
      <4>1. migration = at[p] + 1 /\ migration \in Migrations
        BY <1>1, <1>2, <1>3, <2>1, <3>1, MigrationsAssumption DEF Up, Migrations
      <4>2. 1..(migration - 1) \subseteq schema \cup {at[p]}
        BY <1>1, <4>1, MigrationsAssumption DEF Migrations
      <4>. QED
        BY <1>1, <1>3, <3>1, <4>1, <4>2
    <3>2. CASE q # p
      BY <1>1, <1>3, <2>1, <3>2 DEF MInv, Places
    <3>. QED
      BY <3>1, <3>2
  <2>2. \A q \in Processes : pc'[q] \notin Down
    BY <1>3, <1>5 DEF Down
  <2>. QED
    BY <2>1, <2>2 DEF Places
<1>9. Races'
  <2>1. ASSUME NEW q \in Processes, pc'[q] = "failed" PROVE q \in raced'
    BY <1>1, <1>3, <2>1 DEF MInv, Races
  <2>2. ASSUME NEW q \in Processes, pc'[q] = "create" PROVE q \in raced'
    <3>1. q # p /\ Running(q) /\ Running(p)
      BY <1>1, <1>3, <2>2 DEF Running
    <3>. QED
      BY <1>1, <3>1 DEF MInv, Races
  <2>3. ASSUME NEW q \in Processes, Running(q)', NEW r \in Processes \ {q}, Running(r)'
        PROVE  q \in raced'
    BY <1>1, <1>4, <2>3 DEF MInv, Races
  <2>. QED
    BY <2>1, <2>2, <2>3 DEF Races
<1>. QED
  BY <1>6, <1>7, <1>8, <1>9 DEF MInv

(* A migration is undone: the prefix is one shorter.                       *)
LEMMA CommitDropKeeps ==
  ASSUME MInv, NEW p \in Processes, CommitDrop(p)
  PROVE  MInv'
<1>1. /\ pc[p] = "dropped" /\ schema' = schema \ {at[p]}
      /\ ledger' = IF at[p] = 1 THEN {} ELSE ledger \ {at[p]}
      /\ IF at[p] = 1 THEN Go(p, "idle", 0) ELSE Go(p, "drop", at[p] - 1)
      /\ raced' = raced
      /\ schema = 1..at[p] /\ ledger = schema
      /\ \A q \in Processes \ {p} : ~Running(q)
  BY DEF CommitDrop, MInv, Places, Prefix, Down
<1>2. PICK m \in 1..Last : m = at[p]
  BY <1>1 DEF MInv, Places, Down, Migrations
<1>3. /\ m - 1 \in 0..Last /\ (1..m) \ {m} = 1..(m - 1)
      /\ m # 1 => m - 1 \in 1..Last
  BY MigrationsAssumption
<1>4. PICK stage \in {"idle", "drop"} :
        /\ Go(p, stage, m - 1) /\ (stage = "idle" <=> m = 1)
  <2>1. CASE m = 1
    BY <1>1, <1>2, <2>1
  <2>2. CASE m # 1
    BY <1>1, <1>2, <2>2
  <2>. QED
    BY <2>1, <2>2
<1>5. /\ pc'[p] = stage /\ at'[p] = m - 1
      /\ \A q \in Processes \ {p} : pc'[q] = pc[q] /\ at'[q] = at[q]
      /\ pc' \in [Processes -> {"idle", "failed"} \cup Up \cup Down]
      /\ at' \in [Processes -> 0..Last]
  BY <1>3, <1>4, OneGoes DEF Down
<1>6. \A q \in Processes \ {p} : ~Running(q)'
  BY <1>1, <1>5 DEF Running
<1>7. schema' = 1..(m - 1) /\ ledger' = 1..(m - 1)
  <2>1. schema' = 1..(m - 1) /\ ledger \ {m} = 1..(m - 1)
    BY <1>1, <1>2, <1>3
  <2>2. m = 1 => 1..(m - 1) = {}
    OBVIOUS
  <2>. QED
    BY <1>1, <1>2, <2>1, <2>2
<1>8. Types'
  BY <1>1, <1>5 DEF MInv, Types
<1>9. Prefix'
  BY <1>3, <1>7 DEF Prefix
<1>10. Places'
  BY <1>3, <1>4, <1>5, <1>6, <1>7 DEF Places, Running, Up, Down, Migrations
<1>11. Races'
  BY <1>1, <1>5, <1>6 DEF MInv, Races, Running
<1>. QED
  BY <1>8, <1>9, <1>10, <1>11 DEF MInv

(* The other statements of a process.                                      *)
LEMMA StatementsKeep ==
  ASSUME MInv, NEW p \in Processes,
         Look(p) \/ Create(p) \/ AlreadyThere(p) \/ InsertId(p) \/ Drop(p) \/ Die(p)
  PROVE  MInv'
<1>1. Last \in Nat /\ 0 \in 0..Last
  BY MigrationsAssumption
<1>2. /\ pc[p] \in Up => at[p] \in 1..Last /\ at[p] \in 0..Last /\ at[p] \in Migrations
                         /\ 1..(at[p] - 1) \subseteq schema
      /\ ledger = schema
  BY <1>1 DEF MInv, Places, Prefix, Migrations
<1>3. CASE Look(p)
  <2>1. pc[p] \in Up /\ Running(p) /\ UNCHANGED <<schema, ledger, raced>>
    BY <1>3 DEF Look, Up, Running
  <2>2. CASE at[p] \in ledger
    <3>1. PICK stage \in {"idle", "look"}, migration \in 0..Last :
            /\ Go(p, stage, migration)
            /\ stage = "look" => migration = at[p] + 1
      BY <1>3, <2>1, <2>2, GoesOn DEF Look, appliedMigrationIds
    <3>2. stage = "look" =>
            migration \in Migrations /\ 1..(migration - 1) \subseteq schema
      BY <1>1, <1>2, <2>1, <2>2, <3>1 DEF Migrations
    <3>. QED
      BY <2>1, <3>1, <3>2, WalkKeeps DEF Up, Down
  <2>3. CASE at[p] \notin ledger
    <3>1. Go(p, "create", at[p])
      BY <1>3, <2>3 DEF Look, appliedMigrationIds
    <3>. QED
      BY <1>2, <2>1, <2>3, <3>1, WalkKeeps DEF Up, Down
  <2>. QED
    BY <2>2, <2>3
<1>4. CASE Create(p)
  <2>1. /\ pc[p] \in Up /\ Running(p) /\ Go(p, "created", at[p])
        /\ UNCHANGED <<schema, ledger, raced>>
    BY <1>4 DEF Create, Up, Running
  <2>. QED
    BY <1>2, <2>1, WalkKeeps DEF Up, Down
<1>5. CASE AlreadyThere(p)
  <2>1. /\ Running(p) /\ Go(p, "failed", 0) /\ p \in raced
        /\ UNCHANGED <<schema, ledger, raced>>
    BY <1>5 DEF AlreadyThere, Running, MInv, Races
  <2>. QED
    BY <1>1, <2>1, WalkKeeps DEF Up, Down
<1>6. CASE InsertId(p)
  <2>1. /\ pc[p] \in Up /\ Running(p) /\ Go(p, "recorded", at[p])
        /\ UNCHANGED <<schema, ledger, raced>>
    BY <1>6 DEF InsertId, Up, Running
  <2>. QED
    BY <1>2, <2>1, WalkKeeps DEF Up, Down
<1>7. CASE Drop(p)
  <2>1. /\ pc[p] \in Down /\ Running(p) /\ Go(p, "dropped", at[p])
        /\ UNCHANGED <<schema, ledger, raced>> /\ at[p] \in 0..Last
    BY <1>7 DEF Drop, Down, Running, MInv, Types
  <2>. QED
    BY <2>1, WalkKeeps DEF Up, Down
<1>8. CASE Die(p)
  <2>1. Running(p) /\ Go(p, "idle", 0) /\ UNCHANGED <<schema, ledger, raced>>
    BY <1>8 DEF Die
  <2>. QED
    BY <1>1, <2>1, WalkKeeps DEF Up, Down
<1>. QED
  BY <1>3, <1>4, <1>5, <1>6, <1>7, <1>8
----------------------------------------------------------------------------
(* An empty database.                                                      *)
LEMMA InitMInv == Init => MInv
<1>. SUFFICES ASSUME Init PROVE MInv
  OBVIOUS
<1>1. /\ \A p \in Processes : pc[p] = "idle" /\ at[p] = 0
      /\ schema = {} /\ ledger = {} /\ raced = {} /\ Last \in Nat /\ 1..0 = {}
  BY MigrationsAssumption DEF Init
<1>2. Types /\ Prefix
  BY <1>1 DEF Init, Types, Prefix
<1>3. Places /\ Races
  BY <1>1 DEF Places, Races, Running, Up, Down
<1>. QED
  BY <1>2, <1>3 DEF MInv

(* No statement of a process and no question of the API breaks it.         *)
LEMMA NextMInv == MInv /\ [Next]_vars => MInv'
<1>. SUFFICES ASSUME MInv, [Next]_vars PROVE MInv'
  OBVIOUS
<1>1. CASE UNCHANGED vars \/ Health
  BY <1>1 DEF Health, vars, MInv, Types, Prefix, Places, Races, Running
<1>2. ASSUME NEW p \in Processes, StartUp(p) \/ StartDown(p) \/ Step(p) \/ Die(p)
      PROVE  MInv'
  BY <1>2, StartUpKeeps, StartDownKeeps, CommitKeeps, CommitDropKeeps, StatementsKeep DEF Step
<1>. QED
  BY <1>1, <1>2 DEF Next

(* What is known of the database and its processes at every moment.        *)
THEOREM MigrationInvariant == Spec => []MInv
BY InitMInv, NextMInv, PTL DEF Spec

(* The ledger names the objects that exist, without a gap.                 *)
THEOREM LedgerIsTrue == Spec => []LedgerTellsSchema
<1>1. MInv => LedgerTellsSchema
  <2>. SUFFICES ASSUME MInv PROVE LedgerTellsSchema
    OBVIOUS
  <2>1. PICK n \in Nat : schema = 1..n /\ ledger = schema
    BY MigrationsAssumption DEF MInv, Prefix
  <2>. QED
    BY <2>1 DEF LedgerTellsSchema
<1>. QED
  BY MigrationInvariant, <1>1, PTL

(* Who migrates alone does not fail.                                       *)
THEOREM AloneNobodyFails == Spec => []FailsOnlyInARace
<1>1. MInv => FailsOnlyInARace
  BY DEF MInv, Races, FailsOnlyInARace
<1>. QED
  BY MigrationInvariant, <1>1, PTL

(* The API says it is ready when all is migrated.                          *)
THEOREM ReadyIsTrue == Spec => ReadyMeansMigrated
<1>1. MInv /\ [Next]_vars => [ready' /\ ~ready => schema = Migrations]_vars
  <2>. SUFFICES ASSUME MInv, [Next]_vars, ready', ~ready PROVE schema = Migrations
    OBVIOUS
  <2>1. CASE Health
    <3>1. ready' = isSchemaReady
      BY <2>1 DEF Health
    <3>2. isSchemaReady
      BY <3>1, Zenon
    <3>. QED
      BY <3>2 DEF isSchemaReady, appliedMigrationIds, MInv, Types, Prefix
  <2>2. ASSUME NEW p \in Processes, StartUp(p) \/ StartDown(p) \/ Step(p) \/ Die(p)
        PROVE  ready' = ready
    BY <2>2 DEF StartUp, StartDown, Step, Die, Look, Create, AlreadyThere, InsertId, Commit,
                Drop, CommitDrop
  <2>3. CASE UNCHANGED vars
    BY <2>3 DEF vars
  <2>. QED
    BY <2>1, <2>2, <2>3, Zenon DEF Next
<1>. QED
  BY MigrationInvariant, <1>1, PTL DEF Spec, ReadyMeansMigrated
=============================================================================

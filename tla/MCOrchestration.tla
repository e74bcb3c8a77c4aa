-------------------------- MODULE MCOrchestration --------------------------
(***************************************************************************)
(* Small instances of Orchestration for TLC.                               *)
(***************************************************************************)
EXTENDS OrchestrationProperties, TLC

CONSTANTS w1, w2, r1, r2, c1, c2, id1, id2, d1, d2

\* Two processes under the default GROUNDS_WORKER_ID.
SharedId == [w \in Workers |-> id1]

\* Every process has every pinned detector; or w2 is a deployment behind.
AllRegistered == [w \in Workers |-> Detectors]
W2Behind == (w1 :> Detectors) @@ (w2 :> {})

RequiresInventory == [d \in Detectors |-> "inventory"]
RequiresBoth == (d1 :> "inventory") @@ (d2 :> "telemetry")

AllCancelR1 == [c \in Clients |-> r1]

Obs(kind, content, fresh) == [kind |-> kind, content |-> content, fresh |-> fresh]

InventoryAnswers == {<<Obs("inventory", "pass", TRUE)>>,
                     <<Obs("inventory", "fail", TRUE)>>}
InventoryPages == {<<Obs("inventory", "pass", TRUE),
                     Obs("inventory", "fail", TRUE)>>,
                   <<Obs("inventory", "pass", FALSE),
                     Obs("inventory", "inaccessible", TRUE)>>}
OneInventory == {<<Obs("inventory", "pass", TRUE)>>}
NoInventory == {<< >>, <<Obs("inventory", "pass", TRUE)>>}
TelemetryAnswers == {<<Obs("telemetry", "pass", TRUE)>>}
NoTelemetry == {<< >>}

WorkerSymmetry == Permutations(Workers)
ClientSymmetry == Permutations(Clients)
=============================================================================

----------------------------- MODULE MCMigrator -----------------------------
(* Migrator with the three migrations for TLC.                             *)
EXTENDS Migrator, TLC

ProcessSymmetry == Permutations(Processes)
=============================================================================

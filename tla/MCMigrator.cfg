\* Three processes, the three migrations of the repository.
SPECIFICATION Spec
CONSTANTS
  Processes = {p1, p2, p3}
  Last = 3
SYMMETRY ProcessSymmetry
INVARIANTS
  LedgerTellsSchema
  FailsOnlyInARace
PROPERTIES
  ReadyMeansMigrated

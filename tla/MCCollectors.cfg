\* Two tasks, one of which is yet to come; alarms of up to three pages.
SPECIFICATION FairSpec
CONSTANTS
  Tasks = {a, b}
  OldTasks = {a}
  OwnGroups = {g1, g2}
  ForeignGroups = {other}
  BatchSize = 1
  PageBound = 2
  MaxPages = 3
INVARIANTS
  TypeOK
  EveryKindOnce
  CompleteMissesNothing
  EvidenceStaysInScope
PROPERTIES
  
  CollectionEnds
\* The step ends.
CHECK_DEADLOCK FALSE

\* Two grants and two runs of two actors, under two keys.
\* Once every request is done only the clock goes on.
SPECIFICATION Spec
CONSTANTS
  q1 = q1
  q2 = q2
  q3 = q3
  q4 = q4
  b1 = b1
  b2 = b2
  NoRow = NoRow
  Authorising = {q1, q2}
  Enqueuing = {q3, q4}
  Actors = {a1, a2}
  Keys = {k1, k2}
  Bodies = {b1, b2}
  Outcomes <- Checks
SYMMETRY Symmetry
INVARIANTS
  TypeOK
  SpentMeansOneRun
  AnswersStand
  RefusalsHaveACause
  NobodyWaitsForEver
PROPERTIES
  ImplementsLedger
CHECK_DEADLOCK FALSE

\* Three transactions of any kind on two runs.
SPECIFICATION FairSpec
CONSTANTS
  Nobody = Nobody
  Runs = {r1, r2}
  Txs = {t1, t2, t3}
INVARIANTS
  TypeOK
  NoNumberIsTakenTwice
  PollIsNotHeldUp
PROPERTIES
  EveryTransactionEnds
  ImplementsAtomicLog
\* Once every transaction has ended there is nothing left to do.
CHECK_DEADLOCK FALSE

\* 900 and 60 seconds in ticks of 20; an answer takes 40 seconds at most.
SPECIFICATION FairSpec
CONSTANTS
  SessionTicks = 45
  SkewTicks = 3
  Latency = 2
INVARIANTS
  OnlyOwnAccountIsRead
PROPERTIES
  SessionOutlivesSkew
  FailureDoesNotPoison

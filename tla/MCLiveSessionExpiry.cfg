\* 900 and 60 seconds in ticks of 20; an answer takes 40 seconds at most.
SPECIFICATION Spec
CONSTANTS
  SessionTicks = 45
  SkewTicks = 3
  Latency = 2
PROPERTIES
  CachedUntilSkewBeforeExpiry

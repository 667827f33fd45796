\* Three calls in a round that has time for two, with failures, hangs and full pipes.
CONSTANTS
  Calls <- MCCalls
  Pipe = 2
  Cap = 3
  Budget = 5
  MaxLate = 4
  MaxTroubles = 2
SPECIFICATION CallsFairSpec
INVARIANTS
  NoSelfMadeDeadlock
  OutlivesByItsWriting
PROPERTIES
  CallsEnd
CHECK_DEADLOCK FALSE

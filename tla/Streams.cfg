\* Reassembly: 4-bit sequence numbers, starting just below the top; the stream
\* passes the top and is long enough for every comparison to be met on both
\* sides of it.  Follower: two connections of the same endpoints, the second
\* the other way round, and one that shares an endpoint with them.
CONSTANTS
  seq_number_diff = 8
  ISN = 11
  StreamLen = 8
  MaxSegment = 3
  Connections <- All
  MaxStreams = 2
SPECIFICATION MCSpec
INVARIANTS NothingDueIsHeld CrashesOnlyAtTheTop OneSessionPerPair SessionsAreOpenStreams
PROPERTIES HandlerReturns Promise Follows
CHECK_DEADLOCK FALSE

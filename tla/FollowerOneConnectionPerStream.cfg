\* The same endpoints connect twice.
CONSTANTS
  seq_number_diff = 8
  Connections <- Again
  MaxStreams = 2
SPECIFICATION FollowerSpec
INVARIANTS OneConnectionPerStream
CHECK_DEADLOCK FALSE

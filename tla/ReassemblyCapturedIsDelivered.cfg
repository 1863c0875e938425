CONSTANTS
  seq_number_diff = 8
  ISN = 11
  StreamLen = 6
  MaxSegment = 4
SPECIFICATION Spec
INVARIANTS CapturedIsDelivered
CHECK_DEADLOCK FALSE

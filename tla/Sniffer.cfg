\* Two ids; a session is old after two ticks, a collection due after one.
CONSTANTS
  Id = {i1, i2}
  SECS_TO_EXPIRE = 1
  SECS_TO_GC = 0
  MaxTime = 2
  MaxStreams = 2
SPECIFICATION MCSpec
INVARIANTS
    BackExists
    NoOrphans
    NoneTooOld
    PointsIntoTable
    NoUseAfterExit
    StuckOnlyByReentry
PROPERTIES
    MutexIsReleased
CHECK_DEADLOCK FALSE

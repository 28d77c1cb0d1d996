\* Three peers for a bucket of two, one repetition, one restart.
CONSTANTS
  Peer = {p1, p2, p3}
  NoOne = NoOne
  K = 2
  attempts_number = 1
  min_rt_check_time_interval = 0
  MaxDown = 2
  MaxPings = 2
  MaxRestarts = 1
  MaxTime = 2
SPECIFICATION FairSpec
CHECK_DEADLOCK FALSE
INVARIANTS
  JobsArePending
  ChecksArePending
  NoticesAddUp
PROPERTIES
  EndsAreJustified
  PlaceIsTaken
  EveryCheckEnds

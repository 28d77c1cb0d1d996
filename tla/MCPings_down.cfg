\* What a check that finds its contact silent leaves behind.
CONSTANTS
  Peer = {p1, p2, p3}
  NoOne = NoOne
  K = 2
  attempts_number = 1
  min_rt_check_time_interval = 0
  MaxDown = 0
  MaxPings = 2
  MaxRestarts = 0
  MaxTime = 2
SPECIFICATION Spec
CHECK_DEADLOCK FALSE
PROPERTIES
  DownIsRemoved

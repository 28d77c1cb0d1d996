\* Two procedures that tell up to two of three peers of the others, one repetition.
CONSTANTS
  Peer = {p1, p2, p3}
  attempts_number = 1
  MaxDownlists = 2
SPECIFICATION FairSpec
CHECK_DEADLOCK FALSE
INVARIANTS
  JobsArePending
PROPERTIES
  OnlyAstrayIsLeft
  ImplementsAskAll
  EveryDownlistEnds

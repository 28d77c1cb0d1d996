\* What a repeated store request carries.
CONSTANTS
  Id <- Id4
  Dist <- XorDist
  Item = {0}
  Peer = {1, 2}
  MaxNodeID = 4
  K = 2
  attempts_number = 1
  republish_time = 2
  republish_time_delta = 1
  republish_treshhold = 2
  Width = 4
  Ttl = {1, 3}
  MaxStores = 1
  MaxTime = 2
SPECIFICATION Spec
CHECK_DEADLOCK FALSE
PROPERTIES
  RepeatsAreSame

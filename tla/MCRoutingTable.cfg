\* Sixteen ids, seven contacts, buckets of three, two time stamps.
CONSTANTS
  Id <- Id16
  Dist <- XorDist
  Size = 16
  PowerOfTwo <- Powers16
  holder_id = 6
  Peer <- Peers7
  K = 3
  MaxTime = 1
SPECIFICATION FairSpec
INVARIANTS
  Partition
  PointersAreValid
  ClosestAreClosest
PROPERTIES
  ClosenessIsTold
  ImplementsContactSet
  AddingEnds

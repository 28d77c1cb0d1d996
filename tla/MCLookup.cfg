\* One search among three peers, two questions at a time, one repetition.
CONSTANTS
  Id <- Id4
  Dist <- XorDist
  Self = 3
  Target <- Target0
  K = 2
  alpha = 2
  attempts_number = 1
  MaxFinds = 1
SPECIFICATION FairSpec
CHECK_DEADLOCK FALSE
INVARIANTS
  JobsArePending
  CalledBackOnce
  RequestsAreBounded
  ResultIsClosest
PROPERTIES
  AnsweredStaysUp
  ImplementsService
  EverySearchEnds

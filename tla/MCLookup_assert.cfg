\* The assertion of CreateFindData, with an empty routing table.
CONSTANTS
  Id <- Id4
  Dist <- XorDist
  Self = 3
  Target <- Target0
  K = 2
  alpha = 2
  attempts_number = 1
  MaxFinds = 1
SPECIFICATION Spec
CHECK_DEADLOCK FALSE
INVARIANTS
  ClosestContactsKnown

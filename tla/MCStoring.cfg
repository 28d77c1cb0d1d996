\* One item, two other nodes, one repetition; a time counts to four.
CONSTANTS
  Id <- Id4
  Dist <- XorDist
  Item = {0}
  Peer = {1, 2}
  MaxNodeID = 4
  K = 2
  attempts_number = 1
  republish_time = 2
  republish_time_delta = 1
  republish_treshhold = 1
  Width = 4
  Ttl = {1, 2}
  MaxStores = 2
  MaxTime = 2
SPECIFICATION FairSpec
VIEW View
CHECK_DEADLOCK FALSE
INVARIANTS
  JobsArePending
  ReportsAreHonest
  RepublishIsScheduled
PROPERTIES
  CopyOutlivesBySearch
  ImplementsAskAll
  EveryStoreEnds

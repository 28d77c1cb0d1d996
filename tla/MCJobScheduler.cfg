\* Up to three jobs of two owners wait at a time, any number one after the other;
\* int is so narrow that the longest delay just fits it.
CONSTANTS
  Owner = {o1, o2}
  Delay = {0, 1, 2, 3}
  MaxInt = 3
  MaxJobs = 3
SPECIFICATION FairSpec
VIEW View
CHECK_DEADLOCK FALSE
PROPERTIES
  RunsInOrder
  EveryJobRuns

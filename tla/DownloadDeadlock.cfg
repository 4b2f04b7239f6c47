SPECIFICATION FairSpec
CONSTANTS
  j1 = j1
  j2 = j2
  j3 = j3
  j4 = j4
  w1 = w1
  w2 = w2
  w3 = w3
  None = None
  Jobs <- FourJobs
  Workers <- TwoWorkers
  Faults <- NoFaults
PROPERTY AcceptedEnds
CHECK_DEADLOCK FALSE

SPECIFICATION FairSpec
CONSTANTS
  p1 = p1
  p2 = p2
  Polls <- TwoPolls
  MaxOut = 2
  MaxErr = 1
  PipeSize = 1
  Others = TRUE
  MaxFaults = 1
  Leftover = FALSE
CHECK_DEADLOCK FALSE
INVARIANTS TypeOK ShownInOrder ListLives MavenIsRead
PROPERTIES LinesKept LateAnswerHasAll PageStops

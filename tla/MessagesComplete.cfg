SPECIFICATION Spec
CONSTANTS
  p1 = p1
  p2 = p2
  Polls <- OnePoll
  MaxOut = 1
  MaxErr = 0
  PipeSize = 1
  Others = FALSE
  MaxFaults = 0
  Leftover = FALSE
CHECK_DEADLOCK FALSE
PROPERTY CompleteWhenDone

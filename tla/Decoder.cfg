SPECIFICATION Spec
CONSTANTS
  HeaderLength = 2
  BodyLengths = {0, 2}
  MaxFrames = 3
INVARIANTS
  TypeOK
  FramesInOrder
  NothingWithheld
CHECK_DEADLOCK FALSE

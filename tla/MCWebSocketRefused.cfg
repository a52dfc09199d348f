SPECIFICATION Spec
CONSTANTS
  None = None
  Streams <- MCFrames
INVARIANT ErrorCloses
CHECK_DEADLOCK FALSE

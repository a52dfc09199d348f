SPECIFICATION Spec
CONSTANTS
  Apps = {a1, a2}
  W = w
  None = None
  Stories <- MCByHand
PROPERTY Settles
CHECK_DEADLOCK FALSE

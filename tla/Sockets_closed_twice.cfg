SPECIFICATION Spec
CONSTANTS
  NumSockets = 4
PROPERTIES ClosesTheConnection
CHECK_DEADLOCK FALSE

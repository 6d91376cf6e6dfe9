\* A user who presses "Write to" twice, and goes on pressing it.
SPECIFICATION Spec
CONSTANTS
  Hosts = {a}
  Sockets = {1, 2}
  Eager = TRUE
  MaxFailures = 0
PROPERTIES Reconnects
CHECK_DEADLOCK FALSE

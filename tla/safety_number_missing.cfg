\* A user who is written to and has not written yet.
SPECIFICATION NumbersSpec
CONSTANTS
  Hosts <- MCLinks
  Sockets = {1, 2}
  Eager = FALSE
  MaxFailures = 0
INVARIANTS NumberAfterHandshake
CHECK_DEADLOCK FALSE

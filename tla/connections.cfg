\* Users who wait for an attempt to end before the next one.
SPECIFICATION NumbersSpec
CONSTANTS
  Hosts <- MCLinks
  Sockets = {1, 2}
  Eager = FALSE
  MaxFailures = 2
INVARIANTS NumbersTypeOK TableIsExact OneListedPerHost ReadyIsListed NumbersAgree
PROPERTIES Reconnects NumbersSettle
CHECK_DEADLOCK FALSE

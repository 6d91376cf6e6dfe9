\* Both ends send, the client rotates: what the program does with a session.
SPECIFICATION FairSpec
CONSTANTS
  Client = client
  Server = server
  Messages = {m1, m2}
  Rotators = {client}
  MaxItems = 3
  CounterMod = 2
INVARIANTS TypeOK ForwardInSync KeysNeverReused CountersInStep RootsAgreeWhenQuiet FailsExactlyAfterCrossing
PROPERTIES ForwardIsFifo
CHECK_DEADLOCK FALSE

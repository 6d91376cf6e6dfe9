\* Builds of all kinds, reads that stop anywhere, a rotation before the third message.
SPECIFICATION Spec
CONSTANTS
  CounterMod = 2
  Messages = {m1, m2}
  Builds <- MCBuilds
  RotateEvery = 2
  MaxSends = 3
INVARIANTS TypeOK DeliveredInOrder NothingGarbled HealthyStaysOpen ModesAgree FreshEnoughKeys StuckOnlyBehindRotation
PROPERTIES HandshakeEnds ArriveUnlessStalled
CHECK_DEADLOCK FALSE

\* A periodic rotation between two messages.
SPECIFICATION Spec
CONSTANTS
  CounterMod = 2
  Messages = {m1}
  Builds <- MCThisBuildOnly
  RotateEvery = 1
  MaxSends = 2
PROPERTIES AllArrive
CHECK_DEADLOCK FALSE

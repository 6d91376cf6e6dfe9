\* Two peers, one that may change its port, nested message boxes, one restart.
SPECIFICATION Spec
CONSTANTS
  Peers = {a, b}
  NoChat = NoChat
  Ports = {p, q}
  Movers = {a}
  MaxMessages = 2
  MaxFaults = 1
  MaxInRam = 1
  MaxDialogs = 2
  MaxOpens = 2
SYMMETRY Symmetry
INVARIANTS TypeOK OnlineFlagRight RamIsRecentHistory ShownIsComplete ContactsByRecency

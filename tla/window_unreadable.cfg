\* A chat that is opened after a restart.
SPECIFICATION Spec
CONSTANTS
  Peers = {a}
  NoChat = NoChat
  Ports = {1}
  Movers = {a}
  MaxMessages = 3
  MaxFaults = 0
  MaxInRam = 1
  MaxDialogs = 2
  MaxOpens = 2
INVARIANT HistoryIsReadable

\* Up to two starts and a call of the client; another process that may move once.
\* Three systems: all sockets exclude one another (Linux, IPv6); the server's
\* and the worker's do not (other systems); the other process keeps out the
\* server and not the worker's first attempt (Linux, IPv4).
SPECIFICATION Spec
CONSTANTS
  MaxStarts = 2
  MaxWrites = 1
  MaxMoves = 1
  Systems = {{{"server", "probe"}, {"server", "other"}, {"probe", "other"}},
             {{"server", "other"}, {"probe", "other"}},
             {{"server", "other"}}}
INVARIANTS StartupTypeOK CrashesOnlyEarlyOrWhileDetecting
PROPERTIES ServesOrTells
CHECK_DEADLOCK FALSE

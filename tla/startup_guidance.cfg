\* One start, with the port free all the time, where all sockets exclude one
\* another.
SPECIFICATION Spec
CONSTANTS
  MaxStarts = 1
  MaxWrites = 0
  MaxMoves = 0
  Systems = {{{"server", "probe"}, {"server", "other"}, {"probe", "other"}}}
INVARIANTS AlarmMeansTaken
CHECK_DEADLOCK FALSE

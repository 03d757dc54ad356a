\* One connection in each direction and two calls of close besides that of the
\* destructor, in any order with stop and the release of every object.
CONSTANTS
  Peers = {p1}
  Connects = {c1}
  Closes = {k1, k2}
  None = None
SPECIFICATION Spec

  
  
PROPERTY Answered
\* The client may keep everything, and the process may end.
CHECK_DEADLOCK FALSE

SPECIFICATION Spec
CONSTANTS
  Conns = {c1, c2}
  Names = {needed, extra}
  Required = {needed}
  Events = {e1}
  Stops = {k1}
  NoConn = NoConn
INVARIANT StartsOnceRequiredConnected
CHECK_DEADLOCK FALSE

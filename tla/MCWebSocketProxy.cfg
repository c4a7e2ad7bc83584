SPECIFICATION Spec
CONSTANTS
  Conns = {c1, c2, c3}
  Names = {needed, extra}
  Required = {needed}
  Events = {e1}
  Stops = {k1, k2}
  NoConn = NoConn
INVARIANTS
  TypeOK
  StartMeansReady
  AdmittedIsRegistered
  RegistryIsReady
  AnswersOnce
SYMMETRY Symmetry
CHECK_DEADLOCK FALSE

\* Claims, timers, sockets and device events in any order.
SPECIFICATION Spec
CONSTANTS
  Names = {1, 2}
  Addrs = {8, 9}
  Sockets = {s1, s2}
  Binds <- MCBinds
  Modes <- MCWhole
  Downs = TRUE
  Faults = TRUE
SYMMETRY SocketSymmetry
INVARIANTS UsersCounted RefsExact EcuAlive
PROPERTIES LowerNameStays
\* the sockets may all be closed
CHECK_DEADLOCK FALSE

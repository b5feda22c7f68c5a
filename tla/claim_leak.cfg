\* A claim is pending when the last socket is closed: its timer keeps the ECU, and priv.
SPECIFICATION FairSpec
CONSTANTS
  Names = {1, 2}
  Addrs = {8, 9}
  Sockets = {s1}
  Binds <- MCBinds
  Modes <- MCOneCpu
  Downs = FALSE
  Faults = FALSE
PROPERTIES PrivDropped
\* the sockets may all be closed
CHECK_DEADLOCK FALSE

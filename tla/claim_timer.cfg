\* The receive softirq waits for the handler of a timer that waits for priv->lock.
SPECIFICATION FairSpec
CONSTANTS
  Names = {1, 2}
  Addrs = {8, 9}
  Sockets = {s1}
  Binds <- MCBinds
  Modes <- MCSmp
  Downs = FALSE
  Faults = FALSE
PROPERTIES TimerReleased
\* the sockets may all be closed
CHECK_DEADLOCK FALSE

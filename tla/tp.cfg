\* Two messages of a socket of any type, with one disturbance each.
SPECIFICATION FairSpec
CONSTANTS
  Block = 2
  QLen = 2
  RetryLimit = 1
  Modes <- MCBuses
INVARIANTS Intact AckSound NothingFails RefsExact
PROPERTIES Reported PeerEnds
\* all messages have been sent
CHECK_DEADLOCK FALSE

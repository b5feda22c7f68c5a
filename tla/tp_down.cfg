\* Messages sent while the device is down.
SPECIFICATION FairSpec
CONSTANTS
  Block = 2
  QLen = 2
  RetryLimit = 1
  Modes <- MCDowns
PROPERTIES ReportedDown
\* all messages have been sent
CHECK_DEADLOCK FALSE

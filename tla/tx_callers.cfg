\* Two callers of single and two frame PDUs: signals, faults, results.
SPECIFICATION Spec
CONSTANTS
  Senders = {s1, s2}
  MaxXfer = 2
  Frames <- MCUpTo2
  Flows <- MCBurst
  Slots = 1
  GenMod = 4
  WaitTxDone = TRUE
  CfBroadcast = FALSE
  DynFcParms = FALSE
  Envs <- MCOpen
SYMMETRY Threads
INVARIANTS ResultSound ResultComplete
PROPERTIES ImplementsAbs
\* the bounded callers have all made their calls
CHECK_DEADLOCK FALSE

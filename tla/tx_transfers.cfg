\* One caller, PDUs of up to three frames: block sizes, wait frames, PDUs that are
\* abandoned after a signal or a fault; release(), bind() and device events.
SPECIFICATION Spec
CONSTANTS
  Senders = {s1}
  MaxXfer = 2
  Frames <- MCUpTo3
  Flows <- MCFlows
  Slots = 1
  GenMod = 2
  WaitTxDone = TRUE
  CfBroadcast = FALSE
  DynFcParms = TRUE
  Envs <- MCAll
INVARIANTS Watched ClaimDrained TxBufferExclusive NoFrameTwice ReleaseQuiescent BindKeepsTag
PROPERTIES ShutdownFinal
\* the bounded callers have all made their calls
CHECK_DEADLOCK FALSE

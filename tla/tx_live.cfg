\* Two callers, a PDU of three frames and one of a single frame: blocks, gaps, wait
\* frames, a caller that waits for the other's PDU; release().
SPECIFICATION FairSpec
CONSTANTS
  Senders = {s1, s2}
  MaxXfer = 2
  Frames <- MCLongAndShort
  Flows <- MCPaced
  Slots = 2
  GenMod = 4
  WaitTxDone = TRUE
  CfBroadcast = FALSE
  DynFcParms = FALSE
  Envs <- MCEnding
PROPERTIES TransferEnds WaitersReturn
\* the bounded callers have all made their calls
CHECK_DEADLOCK FALSE

\* Every frame layout over a bus that loses nothing, and PDUs over one that does.
SPECIFICATION LinkSpec
CONSTANTS
  Envs <- MCEnvs
  SnMod = 16
  BsMod = 256
  SbufLen = 100
  max_pdu_size = 4100
  Plans <- MCPlans
  Timely = TRUE
INVARIANTS Intact AllDelivered
\* the PDUs have been sent
CHECK_DEADLOCK FALSE

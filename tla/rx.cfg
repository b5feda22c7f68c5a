\* Any frame in any order, with allocations that fail, release(), bind() and the
\* notifier; and a peer that keeps to the frame format, in any order.
SPECIFICATION FairSpec
CONSTANTS
  Envs <- MCEnvs
  SnMod = 2
  BsMod = 4
  SbufLen = 14
  max_pdu_size = 20
INVARIANTS NoOverrun TimeoutExclusive RxReleaseQuiescent
PROPERTIES ReceptionEnds
\* a released socket does nothing any more
CHECK_DEADLOCK FALSE

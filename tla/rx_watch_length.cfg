\* Consecutive frames of a wrong length.
SPECIFICATION Spec
CONSTANTS
  Envs <- MCIrregular
  SnMod = 2
  BsMod = 4
  SbufLen = 14
  max_pdu_size = 20
INVARIANTS RxWatched
\* a released socket does nothing any more
CHECK_DEADLOCK FALSE

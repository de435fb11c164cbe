SPECIFICATION Spec
CONSTANTS
  None = None
  Silence = Silence
  Mics = {m1, m2}
  Transforms = {t1, t2}
  MaxStreams = 4
  MaxQueue = 2
  MaxCalls = 4
  MaxEvents = 3
CHECK_DEADLOCK FALSE
INVARIANT MutedIsSilent

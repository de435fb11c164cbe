SPECIFICATION Spec
CONSTANTS
  None = None
  Silence = Silence
  Mics = {m1, m2}
  Transforms = {t1, t2}
  MaxStreams = 4
  MaxQueue = 2
  MaxCalls = 4
  MaxEvents = 3
INVARIANTS TypeOK NoMicrophoneLeaks ChoiceIsKept SendsTheInput
CHECK_DEADLOCK FALSE

SPECIFICATION Spec
CONSTANTS
  None = None
  Attendees = {me, you}
  self = me
  MaxStreams = 3
  MaxFrames = 2
  MaxVolume = 1
  MaxLevel = 2
INVARIANTS TypeOK RosterMatches MuteAgrees
PROPERTIES SilenceEmpties
CHECK_DEADLOCK FALSE

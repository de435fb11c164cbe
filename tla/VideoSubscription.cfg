SPECIFICATION Spec
CONSTANTS
  Streams = {1, 2, 3, 4}
  Attendee <- MCAttendee
  Group <- MCGroup
  FirstFrames <- MCFirstFrames
  Indexes <- MCIndexes
  Limit = 2
  Nobody = Nobody
  NoSet = NoSet
  MaxEvents = 3
INVARIANTS TypeOK IndexServed TilesAgree
CHECK_DEADLOCK FALSE

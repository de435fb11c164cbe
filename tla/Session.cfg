CONSTANTS
  Cases = {{"overlap", "late", "sdp", "half"}, {"overlap", "sdp", "half"}, {"late", "sdp"}, {"late", "sdp", "half"}, {"sdp"}}
  MaxInputs = 6
  MaxOrphans = 4
SPECIFICATION Spec
INVARIANTS TypeOK NothingHangs OneAtATime
PROPERTIES Settles NotificationOrder
CHECK_DEADLOCK FALSE

SPECIFICATION Spec
CONSTANTS
  Streams = {1, 2, 3}
  Attendee <- MCAttendee
  Rate <- MCRate
  Indexes <- MCIndexes
  Preferences <- MCPreferences
  Reports <- MCReports
  Targets = {2, 5, 9, 14}
  NoPreferences = NoPreferences
  MaxEvents = 3
INVARIANTS TypeOK SelectionIsBest PolicyAgrees

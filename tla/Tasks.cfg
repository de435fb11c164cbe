SPECIFICATION Spec
CONSTANTS
  Operations = {"start", "tasks", "tasksWithoutAudio", "reconnect", "update", "disconnect", "promote"}
  MaxAttempts = 2
  MaxStops = 1
INVARIANT TypeOK
PROPERTIES ImplementsOperation NothingOutlives JoinsOpenConnection
CHECK_DEADLOCK FALSE

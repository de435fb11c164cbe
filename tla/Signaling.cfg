SPECIFICATION Spec
CONSTANTS
  Cases = {{}, {"closeAgain", "lateError"}}
  MaxCalls = 4
INVARIANTS TypeOK StateIsOfConnection
PROPERTIES EveryRequestServed ImplementsLifecycle
CHECK_DEADLOCK FALSE

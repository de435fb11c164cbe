CONSTANTS
  w1 = w1
  w2 = w2
  NoWork = NoWork
  Works <- MCWorks
  MaxDepth = 3
SPECIFICATION Spec
INVARIANTS TypeOK RollbackUndoesUpdateOnly
PROPERTIES StopIsKept

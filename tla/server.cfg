CONSTANTS
  Conns = {"c1", "c2"}
  MaxRequests <- MCRequests
  MaxBody <- MCBody
  Keeps <- MCKeeps
  AnswerSize = 2
  MaxIdle = 1
SPECIFICATION Spec
INVARIANTS
  TypeOK
  HandledWhole
PROPERTIES
  
  
  SilentAreDropped

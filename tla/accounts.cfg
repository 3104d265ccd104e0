CONSTANTS
  Emails = {e1, e2, e3}
  MaxUser = 3
  Slips = {"crash"}
SPECIFICATION Spec
INVARIANTS
  TypeOK
  AnsweredIsComplete
  WholeAtRest
PROPERTY ImplementsBook

\* Interruptions of the program, of handlers and of the handlers of those.
SPECIFICATION Spec
CONSTANTS
  Vectors <- MCVectors
  HandlerVectors <- MCHandlerVectors
  AnyTime <- MCAnyTime
  TOP = 70
  INITIAL_ESP = 58
  MaxTaken = 3
\* The program itself is not modelled: it waits for the next exception.
CHECK_DEADLOCK FALSE
INVARIANTS
  TypeOK
  SuspendedIntact
  ReportsItsVector
PROPERTIES
  Resumes
  HandlersFinish

SPECIFICATION Spec
CONSTANTS
  main = main
  co1 = co1
  Thread = {main, co1}
  MainThread = main
  Userdata = 1
  BasicCI = 1
  MaxCalls = 4
  MaxCCalls = 3
  ErrorRoom = 2
  MaxActivations = 11
  MaxFrames = 7
CONSTRAINT Bounded
CHECK_DEADLOCK FALSE
INVARIANTS
  TypeOK
  FramesOnCStack
  CallsCounted
  JumpsToInnermost
  HandlerOfInnermost
  HooksOffInside
  ErrErrInHandler
PROPERTIES
  ProtectedCallRestores
  ImplementsCoroutines

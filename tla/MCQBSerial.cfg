CONSTANTS
  Messages <- MCMessages
  Kind <- MCKind
  Route <- MCRoute
  Frames <- MCFrames
  Window <- MCWindow
  Inits <- MCInits
  Faults <- MCFaults
SPECIFICATION Spec
INVARIANTS PendingHasReason AnsweredTruly
PROPERTY EventuallyAnswered
CHECK_DEADLOCK FALSE

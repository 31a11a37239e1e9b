CONSTANTS
  t1 = t1
  t2 = t2
  t3 = t3
  NoTask = NoTask
  Task <- MCTask
  Interval <- MCInterval
  MaxTime = 3
SPECIFICATION Spec
INVARIANTS
  TypeOK
  Ownership
  NothingLeaks
  RemovedStaysOut
  NoteIsForCurrent
  DispatchInDueOrder
PROPERTIES
  StopEndsRun
  SuccessMeansDrained
  NoStarvation
  IsAgenda
CHECK_DEADLOCK FALSE

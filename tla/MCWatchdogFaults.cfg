CONSTANTS
  p1 = p1
  p2 = p2
  p3 = p3
  p4 = p4
  path = path
  option = option
  InitPid = InitPid
  NoPid = NoPid
  ZeroPid = ZeroPid
  Pid <- FourPids
  Seconds = 30
  ClientArgv <- Argv
  WdPath = WdPath
  MaxMissed = 1
  MaxCrashes = 1
  MaxForkFails = 1
  Timely = FALSE
  MaxSkew = 1
SPECIFICATION Spec
INVARIANTS
  TypeOK
  DetectionBound
  OneClient
  OneWatchdog
  TargetIsOwnChild
  StopLeavesNoWatchdog
  ArgsSurvive
  IInv
PROPERTIES
  ExitHasCause
SYMMETRY PidSymmetry
CHECK_DEADLOCK FALSE

CONSTANTS
  p1 = p1
  p2 = p2
  p3 = p3
  p4 = p4
  path = path
  option = option
  InitPid = InitPid
  NoPid = NoPid
  ZeroPid = ZeroPid
  Pid <- ThreePids
  Seconds = 30
  ClientArgv <- Argv
  WdPath = WdPath
  MaxMissed = 4
  MaxCrashes = 1
  MaxForkFails = 0
  Timely = TRUE
  MaxSkew = 1
SPECIFICATION Spec
PROPERTIES
  NoFalseSuspicion
  StopIsNoSilence
  ImmortalStaysGuarded
  StopEnds
CHECK_DEADLOCK FALSE

SPECIFICATION HostFairSpec
CONSTANTS
  Ports = {0}
  Serials = {s1}
  NoDrive = NoDrive
  NoPort = NoPort
  NoCmd = NoCmd
  Cmds = {c1, c2}
  QueueDepth = 2
  TimerPeriod = 1
  SrstTimeout = 1
  PollPeriod = 1
  Faults = {}
  MaxRescan = 1
INVARIANTS
  HostTypeOK
  NothingLost
  NothingKept
  BlockedIsRemembered
PROPERTIES
  EventuallyUnblocked

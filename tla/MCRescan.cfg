SPECIFICATION RescanFairSpec
CONSTANTS
  Ports = {0, 1}
  Serials = {s1, s2}
  NoDrive = NoDrive
  NoPort = NoPort
  Cmds = {}
  QueueDepth = 1
  TimerPeriod = 1
  SrstTimeout = 1
  PollPeriod = 1
  Faults = {}
  MaxRescan = 1
INVARIANTS
  RescanTypeOK
  MismatchIsScheduled
PROPERTIES
  EventuallyInStep

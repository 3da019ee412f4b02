SPECIFICATION FairSpec
CONSTANTS
  Ports = {0, 1}
  Serials = {s1, s2}
  NoDrive = NoDrive
  NoPort = NoPort
  Cmds = {c1}
  QueueDepth = 1
  TimerPeriod = 1
  SrstTimeout = 2
  PollPeriod = 4
  Faults = {}
  MaxRescan = 1
INVARIANTS
  ParkedOnlyDuringInit
PROPERTIES
  RemovalReported
  AdditionReported
  EventuallySettled
  ParkedIsReleased

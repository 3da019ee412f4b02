SPECIFICATION Spec
CONSTANTS
  Ports = {0, 1}
  Serials = {s1, s2}
  NoDrive = NoDrive
  NoPort = NoPort
  Cmds = {c1, c2}
  QueueDepth = 2
  TimerPeriod = 1
  SrstTimeout = 2
  PollPeriod = 4
  Faults = {"alloc", "identify", "notify"}
  MaxRescan = 1
SYMMETRY Symmetry
INVARIANTS
  TypeOK
  EdmaWorkHasChannel
  SnapshotHasChannel
  SnapshotIsServed
  TimerArmedInReset
  PollFlagMatchesQueue
  NoCommandTwice
PROPERTIES
  CommandsNeverVanish
  UsesDriverQueue
